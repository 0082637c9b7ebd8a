---------------------------- MODULE ParserProofs ----------------------------
(***************************************************************************)
(* Theorems about Parser: for every file the parser keeps its types, the   *)
(* trees it builds bind operators as C says, and they nest over the        *)
(* source.                                                                 *)
(*                                                                         *)
(* The invariant says of the innermost call what it may still have to do,  *)
(* by its kind, and what the kids it has so far are (Stands); of every     *)
(* other call for what call it waits, and that a kid is all it lacks       *)
(* (Awaits).  What of the state this is said against is a record, the      *)
(* world.                                                                  *)
(***************************************************************************)
EXTENDS Parser, SetsAndLists, SequenceTheorems

-----------------------------------------------------------------------------
(* The level of a node as Level says it, 0 if it is neither an expression  *)
(* nor a variable declared.                                                *)
Valued ==
    {"COMMA_EXPR", "ASSIGN", "CONDITIONAL", "BINARY", "UNARY", "SIZEOF", "INDEX", "CALL",
     "MEMBER", "POSTFIX", "IDENT", "INT_LIT", "FLOAT_LIT", "CHAR_LIT", "STR_LIT", "VAR_DECL"}

LevelOf(kind, p) ==
    CASE kind = "COMMA_EXPR" -> 1
      [] kind = "ASSIGN" -> 2
      [] kind = "CONDITIONAL" -> 3
      [] kind = "BINARY" -> 3 + p
      [] kind \in {"UNARY", "SIZEOF"} -> 14
      [] kind \in {"INDEX", "CALL", "MEMBER", "POSTFIX"} -> 15
      [] kind \in {"IDENT", "INT_LIT", "FLOAT_LIT", "CHAR_LIT", "STR_LIT", "VAR_DECL"} -> 16
      [] OTHER -> 0

KindsOf(ts) == [i \in DOMAIN ts |-> Kind(ts[i])]

LevelsOf(ns, ts) ==
    [n \in DOMAIN ns |->
        IF ns[n].kind \in Valued /\ ns[n].closed > 0 THEN 16
        ELSE LevelOf(ns[n].kind, Precedence(Kind(ts[ns[n].tok])))]

(* derived: the nodes whose types are derived from others.                 *)
WorldOf(ns, ts, a) ==
    [level |-> LevelsOf(ns, ts), start |-> [n \in DOMAIN ns |-> ns[n].from],
     derived |-> {n \in DOMAIN ns : ns[n].type.by # <<>>}, kind |-> KindsOf(ts), at |-> a]
World == WorldOf(nodes, toks, at)

(* The tokens of v begin with those of w.                                  *)
Reads(w, v) ==
    /\ v.at >= w.at
    /\ \A i \in 1 .. (w.at + 1) : v.kind[i] = w.kind[i]

Later(w, v) ==
    /\ Reads(w, v)
    /\ \A n \in DOMAIN w.level :
        /\ n \in DOMAIN v.level /\ v.level[n] >= w.level[n]
        /\ v.level[n] >= 14 \/ v.start[n] = w.start[n]
    /\ w.derived \subseteq v.derived

Sound(w) ==
    /\ w.at \in Nat \ {0}
    /\ \A n \in DOMAIN w.level : w.level[n] \in 0 .. 16 /\ w.start[n] \in Nat

-----------------------------------------------------------------------------
(* Kids: so many, of at least these levels.                                *)

Fit(n, w, l) == n \in DOMAIN w.level /\ w.level[n] >= l
One(kids, w, l) == Len(kids) = 1 /\ Fit(kids[1], w, l)
Two(kids, w, l, m) == Len(kids) = 2 /\ Fit(kids[1], w, l) /\ Fit(kids[2], w, m)
Three(kids, w, l, m, o) ==
    Len(kids) = 3 /\ Fit(kids[1], w, l) /\ Fit(kids[2], w, m) /\ Fit(kids[3], w, o)
First(kids, w, l) == Len(kids) >= 1 /\ Fit(kids[1], w, l)
All(kids, w, l) == \A i \in DOMAIN kids : Fit(kids[i], w, l)

(* A node that no operator can take apart, or that begins at a or after.   *)
Starts(n, w, a) == n \in DOMAIN w.level /\ (w.level[n] >= 14 \/ w.start[n] >= a)

-----------------------------------------------------------------------------
(* What a frame returns: nothing, perhaps (-1), a node, or an operand of   *)
(* this level; and a bound on the precedence of the token it stops at.     *)

Lowest(m) == IF m = 0 THEN 1 ELSE m
OperatorOf(f, w) == Precedence(w.kind[f.at])

Gives(f, w) ==
    CASE f.kind \in {"DECL", "specifiers", "declarator"} -> -1
      [] f.kind = "expression" -> 1
      [] f.kind = "assignment" -> 2
      [] f.kind = "conditional" -> 3
      [] f.kind = "binary" -> 3 + Lowest(f.min)
      [] f.kind = "unary" -> 14
      [] f.kind = "postfix" -> 15
      [] f.kind \in {"primary", "parens", "variable"} -> 16
      [] OTHER -> LevelOf(f.kind, OperatorOf(f, w))

Stop(f, w) ==
    CASE f.kind = "binary" -> Lowest(f.min)
      [] f.kind = "BINARY" -> OperatorOf(f, w) + 1
      [] OTHER -> 11

-----------------------------------------------------------------------------
(* What is left to do in a call, by its kind.                              *)

(* Words of steps, for provers that need not look into them.               *)
Word(step) == step[1]
Target(step) == step[2]
Callee(step) == step[3]

(* Words the SMT backend cannot read as literals.                          *)
Semicolon == ";"
Comma == ","
Opening == "{"
Closing == "}"

ArrayOf(k) == <<"array", k>>
FuncOf(k) == <<"func", k>>

PlainStep ==
    {Token(k) : k \in {"(", ")", Semicolon, ":", Opening, Closing, "while", "id"}}
    \cup {Call(f) : f \in {"expression", "statement", "conditional", "specifiers", "declarator"}}
    \cup {Unless(k, "expression") : k \in {Semicolon, ")"}}
    \cup {Until(Closing, "statement"), Until("eof", "DECL")}

Simple ==
    {"TRANSLATION_UNIT", "PARAM", "COMPOUND", "WHILE", "SWITCH", "DO", "FOR", "CASE", "DEFAULT",
     "LABEL", "BREAK", "CONTINUE", "GOTO", "RETURN", "EXPR_STMT"}

OperandKinds ==
    {"expression", "assignment", "conditional", "binary", "BINARY", "unary", "UNARY", "SIZEOF",
     "postfix", "primary", "parens", "COMMA_EXPR", "ASSIGN", "CONDITIONAL", "INDEX", "CALL",
     "MEMBER", "POSTFIX", "INT_LIT", "FLOAT_LIT", "CHAR_LIT", "STR_LIT"}
DeclaratorKinds == {"declarator", "variable", "VAR_DECL", "IDENT"}

(* The innermost call of an expression: a function of the grammar,         *)
OperandCall(f, w) ==
    LET left == f.todo
        next == Precedence(w.kind[w.at])
    IN
        \/ /\ f.kind = "expression"
           /\ \/ left = Left2(Call("assignment"), Do("commas")) /\ f.kids = Nothing
              \/ (left = Left1(Do("commas")) \/ left = Nothing) /\ One(f.kids, w, 1)
        \/ /\ f.kind = "assignment"
           /\ \/ left = Left2(Call("conditional"), Do("assigns")) /\ f.kids = Nothing
              \/ left = Left1(Do("assigns")) /\ One(f.kids, w, 3)
              \/ left = Nothing /\ One(f.kids, w, 2)
        \/ /\ f.kind = "conditional"
           /\ \/ left = Left2(Call("binary"), Do("asks")) /\ f.kids = Nothing
              \/ left = Left1(Do("asks")) /\ One(f.kids, w, 4)
              \/ left = Nothing /\ One(f.kids, w, 3)
        \/ /\ f.kind = "binary"
           /\ \/ left = Left2(Call("unary"), Do("operators")) /\ f.kids = Nothing
              \/ /\ left = Left1(Do("operators")) \/ (left = Nothing /\ next < Lowest(f.min))
                 /\ One(f.kids, w, 3 + Lowest(f.min)) /\ One(f.kids, w, 3 + next)
        \/ f.kind = "unary" /\ left = Left1(Do("unary")) /\ f.kids = Nothing
        \/ /\ f.kind = "postfix"
           /\ \/ left = Left2(Call("primary"), Do("suffixes")) /\ f.kids = Nothing
              \/ (left = Left1(Do("suffixes")) \/ left = Nothing) /\ One(f.kids, w, 15)
        \/ f.kind = "primary" /\ left = Left1(Do("primary")) /\ f.kids = Nothing
        \/ /\ f.kind = "parens"
           /\ \/ left = Left2(Call("expression"), Token(")")) /\ f.kids = Nothing
              \/ (left = Left1(Token(")")) \/ left = Nothing) /\ One(f.kids, w, 1)

(* or a node under way.                                                    *)
OperandNode(f, w) ==
    LET left == f.todo
        p == OperatorOf(f, w)
        next == Precedence(w.kind[w.at])
    IN
        \/ /\ f.kind = "BINARY" /\ p >= 1
           /\ \/ left = Left1(Call("binary")) /\ One(f.kids, w, 3 + p)
              \/ left = Nothing /\ Two(f.kids, w, 3 + p, 4 + p) /\ next <= p
        \/ /\ f.kind = "UNARY"
           /\ \/ left = Left1(Call("unary")) /\ f.kids = Nothing
              \/ left = Nothing /\ One(f.kids, w, 14)
        \/ /\ f.kind = "SIZEOF"
           /\ \/ left = Left1(Do("sizeof")) /\ f.kids = Nothing /\ w.at > f.at
              \/ left = Left1(Call("unary")) /\ f.kids = Nothing
              \/ left = Left2(Call("expression"), Token(")")) /\ f.kids = Nothing /\ w.at > f.at + 1
              \/ /\ left = Left1(Token(")")) \/ left = Nothing
                 /\ One(f.kids, w, 1) /\ Starts(f.kids[1], w, f.at + 2)
        \/ /\ f.kind = "COMMA_EXPR"
           /\ \/ left = Left1(Call("assignment")) /\ One(f.kids, w, 1)
              \/ left = Nothing /\ Two(f.kids, w, 1, 2)
        \/ /\ f.kind = "ASSIGN"
           /\ \/ left = Left1(Call("assignment")) /\ One(f.kids, w, 3)
              \/ left = Nothing /\ Two(f.kids, w, 3, 2)
        \/ /\ f.kind = "CONDITIONAL"
           /\ \/ /\ left = Left3(Call("expression"), Token(":"), Call("conditional"))
                 /\ One(f.kids, w, 4)
              \/ /\ left = Left2(Token(":"), Call("conditional")) \/ left = Left1(Call("conditional"))
                 /\ Two(f.kids, w, 4, 1)
              \/ left = Nothing /\ Three(f.kids, w, 4, 1, 3)
        \/ /\ f.kind = "INDEX"
           /\ \/ left = Left2(Call("expression"), Token("]")) /\ One(f.kids, w, 15)
              \/ (left = Left1(Token("]")) \/ left = Nothing) /\ First(f.kids, w, 15)
        \/ /\ f.kind = "CALL" /\ First(f.kids, w, 15)
           /\ \/ left = Left2(Do("args"), Token(")"))
              \/ left = Left3(Call("assignment"), Again(Comma, "assignment"), Token(")"))
              \/ left = Left2(Again(Comma, "assignment"), Token(")"))
              \/ left = Left1(Token(")"))
              \/ left = Nothing
        \/ f.kind = "MEMBER" /\ (left = Left1(Token("id")) \/ left = Nothing) /\ First(f.kids, w, 15)
        \/ f.kind = "POSTFIX" /\ left = Nothing /\ First(f.kids, w, 15)
        \/ f.kind \in {"INT_LIT", "FLOAT_LIT", "CHAR_LIT", "STR_LIT"} /\ left = Nothing
             /\ f.kids = Nothing

(* The innermost call of a declarator or of a variable: its name, the      *)
(* dimensions, the parameters of a function, the initializer.              *)
AfterDims == {Do("params"), If("=", "assignment")}
Initializer == If("=", "assignment")

Naming(f) ==
    \/ /\ f.kind = "variable"
       /\ f.todo = Left4(Do("id"), Do("stars"), Do("dims"), Initializer)
    \/ /\ f.kind = "declarator"
       /\ \/ f.todo = Left4(Do("stars"), Do("name"), Do("dims"), Do("params"))
          \/ f.todo = Left3(Do("name"), Do("dims"), Do("params"))
Dimension(f, w) ==
    \E r \in AfterDims :
        \/ f.todo = Left2(Do("dims"), r)
        \/ f.todo = Left1(r)
        \/ \E k \in 1 .. w.at :
            \/ f.todo = Left5(Unless("]", "primary"), Token("]"), ArrayOf(k), Do("dims"), r)
            \/ f.todo = Left5(Call("primary"), Token("]"), ArrayOf(k), Do("dims"), r)
            \/ f.todo = Left4(Token("]"), ArrayOf(k), Do("dims"), r) /\ f.kids # Nothing
            \/ f.todo = Left3(ArrayOf(k), Do("dims"), r) /\ f.kids # Nothing
Parametric(f, w) ==
    \E k \in 1 .. w.at :
        \/ \E d \in {"list", "param", "next"} : f.todo = Left3(Do(d), Token(")"), FuncOf(k))
        \/ f.todo = Left2(Token(")"), FuncOf(k))
        \/ f.todo = Left1(FuncOf(k))
DeclaratorStands(f, w) ==
    \/ Naming(f)
    \/ /\ f.kind # "variable"
       /\ \/ f.todo = Left3(Do("stars"), Do("dims"), Initializer)
          \/ Dimension(f, w)
          \/ Parametric(f, w)
          \/ f.todo = Left1(Call("assignment"))
          \/ f.todo = Nothing

(* The innermost call of a declaration or a statement.                     *)
Others == Again(Comma, "declarator")
OtherVariables == Again(Comma, "variable")
Semi == Token(Semicolon)
Else == If("else", "statement")

DeclStands(f, w) ==
    LET left == f.todo IN
    /\ f.kind = "DECL" /\ All(f.kids, w, 0)
    /\ \/ left = Left6(Call("specifiers"), Do("semi"), Call("declarator"), Do("body"), Others, Semi)
       \/ left = Left5(Do("semi"), Call("declarator"), Do("body"), Others, Semi)
       \/ left = Left4(Call("declarator"), Do("body"), Others, Semi)
       \/ left = Left3(Do("body"), Others, Semi)
       \/ left = Left3(Call("declarator"), Others, Semi)
       \/ left = Left2(Others, Semi)
       \/ left = Left1(Semi)
       \/ left = Nothing
VarDeclStands(f, w) ==
    LET left == f.todo IN
    /\ f.kind = "var_decl" /\ All(f.kids, w, 14)
    /\ \/ left = Left4(Call("specifiers"), Call("variable"), OtherVariables, Semi)
       \/ left = Left3(Call("variable"), OtherVariables, Semi)
       \/ (left = Left2(OtherVariables, Semi) \/ left = Left1(Semi) \/ left = Nothing)
            /\ f.kids # Nothing
IfStands(f, w) ==
    LET left == f.todo IN
    /\ f.kind = "IF"
    /\ \/ /\ \/ left = Left5(Token("("), Call("expression"), Token(")"), Call("statement"), Else)
             \/ left = Left4(Call("expression"), Token(")"), Call("statement"), Else)
          /\ f.kids = Nothing
       \/ (left = Left3(Token(")"), Call("statement"), Else)
            \/ left = Left2(Call("statement"), Else)) /\ Len(f.kids) = 1
       \/ (left = Left1(Else) \/ left = Left1(Call("statement"))) /\ Len(f.kids) = 2
       \/ left = Nothing /\ Len(f.kids) = 3 /\ (f.kids[3] # 0 \/ w.kind[w.at] # "else")
StatementStands(f, w) ==
    \/ DeclStands(f, w) \/ VarDeclStands(f, w) \/ IfStands(f, w)
    \/ /\ f.kind = "FUNC_DEF" /\ f.kids # Nothing /\ f.kids[1] \in w.derived
       /\ f.todo = Left1(Call("COMPOUND")) \/ f.todo = Nothing
    \/ f.kind = "specifiers" /\ f.todo = Left1(Do("words"))
    \/ f.kind = "statement" /\ f.todo = Left1(Do("statement")) /\ f.kids = Nothing
    \/ f.kind \in Simple /\ f.todo \in Seq(PlainStep)

Stands(f, w) ==
    \/ OperandCall(f, w)
    \/ OperandNode(f, w)
    \/ f.kind \in DeclaratorKinds /\ DeclaratorStands(f, w)
    \/ StatementStands(f, w)

-----------------------------------------------------------------------------
(* Frame f waits for the call c.                                           *)

OperandAwaits(f, c, w) ==
    LET left == f.todo
        p == OperatorOf(f, w)
        gives == Gives(c, w)
    IN
        \/ f.kind = "expression" /\ left = Left1(Do("commas")) /\ f.kids = Nothing /\ gives >= 1
        \/ /\ f.kind = "assignment" /\ f.kids = Nothing
           /\ (left = Left1(Do("assigns")) /\ gives >= 3) \/ (left = Nothing /\ gives >= 2)
        \/ /\ f.kind = "conditional" /\ f.kids = Nothing
           /\ (left = Left1(Do("asks")) /\ gives >= 4) \/ (left = Nothing /\ gives >= 3)
        \/ /\ f.kind = "binary" /\ left = Left1(Do("operators")) /\ f.kids = Nothing
           /\ gives >= 3 + Lowest(f.min) /\ gives >= 2 + Stop(c, w)
        \/ f.kind = "postfix" /\ left = Left1(Do("suffixes")) /\ f.kids = Nothing /\ gives >= 15
        \/ f.kind = "parens" /\ left = Left1(Token(")")) /\ f.kids = Nothing /\ gives >= 1
        \/ /\ f.kind = "BINARY" /\ p >= 1 /\ left = Nothing /\ One(f.kids, w, 3 + p)
           /\ gives >= 4 + p /\ Stop(c, w) <= p + 1
        \/ f.kind = "UNARY" /\ left = Nothing /\ f.kids = Nothing /\ gives >= 14
        \/ /\ f.kind = "SIZEOF" /\ f.kids = Nothing
           /\ \/ left = Nothing /\ gives >= 14
              \/ left = Left1(Token(")")) /\ gives >= 1 /\ c.from > f.at + 1
        \/ f.kind = "COMMA_EXPR" /\ left = Nothing /\ One(f.kids, w, 1) /\ gives >= 2
        \/ f.kind = "ASSIGN" /\ left = Nothing /\ One(f.kids, w, 3) /\ gives >= 2
        \/ /\ f.kind = "CONDITIONAL"
           /\ \/ left = Left2(Token(":"), Call("conditional")) /\ One(f.kids, w, 4) /\ gives >= 1
              \/ left = Nothing /\ Two(f.kids, w, 4, 1) /\ gives >= 3
        \/ f.kind = "INDEX" /\ left = Left1(Token("]")) /\ One(f.kids, w, 15) /\ gives >= 1
        \/ /\ f.kind = "CALL" /\ First(f.kids, w, 15) /\ gives >= 0
           /\ left = Left2(Again(Comma, "assignment"), Token(")"))

DeclaratorAwaits(f, c, w) ==
    /\ f.kind # "variable"
    /\ \/ f.todo = Nothing
       \/ \E r \in AfterDims, k \in 1 .. w.at : f.todo = Left4(Token("]"), ArrayOf(k), Do("dims"),
              r) /\ Gives(c, w) >= 0
       \/ \E k \in 1 .. w.at : f.todo = Left3(Do("next"), Token(")"), FuncOf(k))

StatementAwaits(f, c, w) ==
    LET left == f.todo
        gives == Gives(c, w)
    IN
        \/ /\ f.kind = "DECL" /\ All(f.kids, w, 0)
           /\ \/ left = Left5(Do("semi"), Call("declarator"), Do("body"), Others, Semi)
              \/ left = Left3(Do("body"), Others, Semi)
              \/ left = Left2(Others, Semi)
        \/ f.kind = "FUNC_DEF" /\ left = Nothing /\ f.kids # Nothing /\ f.kids[1] \in w.derived
        \/ /\ f.kind = "var_decl" /\ All(f.kids, w, 14)
           /\ \/ left = Left3(Call("variable"), OtherVariables, Semi) /\ c.kind = "specifiers"
              \/ left = Left2(OtherVariables, Semi) /\ gives >= 14
        \/ /\ f.kind = "IF" /\ gives >= 0
           /\ \/ left = Left3(Token(")"), Call("statement"), Else) /\ f.kids = Nothing
              \/ left = Left1(Else) /\ Len(f.kids) = 1
              \/ left = Nothing /\ Len(f.kids) = 2
        \/ f.kind \in Simple /\ left \in Seq(PlainStep)

Awaits(f, c, w) ==
    \/ OperandAwaits(f, c, w)
    \/ f.kind \in DeclaratorKinds /\ DeclaratorAwaits(f, c, w)
    \/ StatementAwaits(f, c, w)

-----------------------------------------------------------------------------
(* The invariant.                                                          *)

IsType(t, n, a) ==
    /\ t = [base |-> t.base, by |-> t.by]
    /\ t.by \in Seq([tok : 1 .. a, len : 0 .. n])

IsFrame(f, n, a) ==
    /\ f = [kind |-> f.kind, from |-> f.from, at |-> f.at, kids |-> f.kids,
            todo |-> f.todo, type |-> f.type, min |-> f.min]
    /\ f.from \in 1 .. a /\ f.at \in 1 .. a /\ f.min \in 0 .. 11
    /\ f.kids \in Seq(0 .. n)
    /\ IsType(f.type, n, a)

IsNode(v, n, a) ==
    /\ v = [kind |-> v.kind, tok |-> v.tok, from |-> v.from, to |-> v.to, kids |-> v.kids,
            type |-> v.type, closed |-> v.closed, value |-> v.value]
    /\ v.tok \in 1 .. a /\ v.from \in 1 .. a /\ v.to \in Int /\ v.to + 1 \in 1 .. a
    /\ v.closed \in Nat
    /\ v.kids \in Seq(0 .. n)
    /\ IsType(v.type, n, a)

(* A node's kids are what its kind takes.                                  *)
Binds(v, w) ==
    LET p == Precedence(w.kind[v.tok])
    IN  CASE v.kind = "COMMA_EXPR" -> Two(v.kids, w, 1, 2)
          [] v.kind = "ASSIGN" -> Two(v.kids, w, 3, 2)
          [] v.kind = "CONDITIONAL" -> Three(v.kids, w, 4, 1, 3)
          [] v.kind = "BINARY" -> p >= 1 /\ Two(v.kids, w, 3 + p, 4 + p)
          [] v.kind = "UNARY" -> One(v.kids, w, 14)
          [] v.kind = "SIZEOF" -> One(v.kids, w, 1) /\ Starts(v.kids[1], w, v.tok + 2)
          [] v.kind \in {"INDEX", "CALL", "MEMBER", "POSTFIX"} -> First(v.kids, w, 15)
          [] v.kind = "IF" -> v.kids[3] # 0 \/ w.kind[v.to + 1] # "else"
          [] OTHER -> TRUE

(* The first kid of an expression begins where the expression does.        *)
Rooted(f, w) ==
    f.kind \in OperandKinds /\ f.kids # Nothing => Starts(f.kids[1], w, f.from)

NodesSound(ns, w) ==
    IsSeq(ns) /\ \A n \in DOMAIN ns : IsNode(ns[n], n - 1, w.at) /\ Binds(ns[n], w)

(* Call f may stand on the calls of st: each waits for the one above it.   *)
Bears(g, f, n, w) ==
    IsFrame(g, n, w.at) /\ Rooted(g, w) /\ Awaits(g, f, w) /\ g.from <= f.from
Under(f, st, n, w) ==
    /\ IsSeq(st)
    /\ st # <<>> => Bears(st[1], f, n, w)
    /\ \A i \in DOMAIN st \ {1} : Bears(st[i], st[i - 1], n, w)

StackSound(st, n, w) ==
    /\ IsSeq(st)
    /\ st # <<>> => /\ IsFrame(Head(st), n, w.at) /\ Rooted(Head(st), w)
                   /\ Stands(Head(st), w) /\ Under(Head(st), Tail(st), n, w)

(* Nodes, tokens and P->cur that go together.                              *)
Held(ns, ts, a) ==
    a \in Nat \ {0} /\ IsSeq(ts) /\ Len(ts) = a + 1 /\ NodesSound(ns, WorldOf(ns, ts, a))

Inv ==
    /\ file \in Files /\ status \in {"going", "done", "rejected"}
    /\ (status = "done") <=> (goals = <<>>)
    /\ Held(nodes, toks, at)
    /\ StackSound(goals, Len(nodes), World)

(* What stands on others may go on as g, or return n.                      *)
Keeps(c, g, w, v) ==
    /\ Gives(g, v) >= Gives(c, w) /\ Stop(g, v) <= Stop(c, w) /\ g.from = c.from
    /\ c.kind = "specifiers" => g.kind = "specifiers"
Result(c, n, w, v) ==
    /\ Gives(c, w) >= 0 => (n # 0 /\ Starts(n, v, c.from))
    /\ n = 0 \/ Fit(n, v, Gives(c, w))
    /\ Precedence(v.kind[v.at]) < Stop(c, w)
    /\ c.kind = "specifiers" => n = 0

-----------------------------------------------------------------------------
(* Kids and worlds.                                                        *)

LEMMA PrecedenceRange ==
    ASSUME NEW k
    PROVE  Precedence(k) \in 0 .. 10
  BY DEF Precedence

(* A kid more.                                                             *)
Grows(g, k, n, w) ==
    /\ g # Nothing /\ Len(g) = Len(k) + 1 /\ Len(k) \in Nat
    /\ g[Len(k) + 1] = n
    /\ k # Nothing => g[1] = k[1]
    /\ k = Nothing => g[1] = n
    /\ \A l : k = Nothing /\ Fit(n, w, l) => One(g, w, l)
    /\ \A l, m : One(k, w, l) /\ Fit(n, w, m) => Two(g, w, l, m)
    /\ \A l, m, o : Two(k, w, l, m) /\ Fit(n, w, o) => Three(g, w, l, m, o)
    /\ \A l : First(k, w, l) => First(g, w, l)
    /\ \A l : All(k, w, l) /\ Fit(n, w, l) => All(g, w, l)

LEMMA KidsGrow ==
    ASSUME NEW S, NEW k \in Seq(S), NEW n \in S, NEW w, NEW g, g = Append(k, n)
    PROVE  g \in Seq(S) /\ Grows(g, k, n, w)
<1>1. /\ g \in Seq(S) /\ Len(g) = Len(k) + 1 /\ g[Len(k) + 1] = n /\ Len(k) \in Nat
      /\ DOMAIN g = 1 .. (Len(k) + 1) /\ DOMAIN k = 1 .. Len(k)
      /\ \A i \in 1 .. Len(k) : g[i] = k[i]
  BY AppendProperties
<1>2. g # Nothing /\ (k # Nothing => g[1] = k[1] /\ Len(k) >= 1)
        /\ (k = Nothing => g[1] = n /\ Len(k) = 0)
  <2>1. k # Nothing => Len(k) >= 1
    BY DEF Nothing
  <2> QED BY <1>1, <2>1 DEF Nothing
<1>3. \A l : k = Nothing /\ Fit(n, w, l) => One(g, w, l)
  BY <1>1, <1>2 DEF One
<1>4. \A l, m : One(k, w, l) /\ Fit(n, w, m) => Two(g, w, l, m)
  BY <1>1 DEF One, Two
<1>5. \A l, m, o : Two(k, w, l, m) /\ Fit(n, w, o) => Three(g, w, l, m, o)
  BY <1>1 DEF Two, Three
<1>6. \A l : First(k, w, l) => First(g, w, l)
  BY <1>1, <1>2 DEF First
<1>7. \A l : All(k, w, l) /\ Fit(n, w, l) => All(g, w, l)
  BY <1>1 DEF All
<1> QED BY <1>1, <1>2, <1>3, <1>4, <1>5, <1>6, <1>7 DEF Grows

(* As sure, or less.                                                       *)
LEMMA FitLess ==
    ASSUME NEW w, Sound(w), NEW n, NEW l \in Int, NEW m \in Int, m <= l, Fit(n, w, l)
    PROVE  Fit(n, w, m)
  BY DEF Fit, Sound

LEMMA OneLess ==
    ASSUME NEW w, Sound(w), NEW k, NEW l \in Int, NEW m \in Int, m <= l, One(k, w, l)
    PROVE  One(k, w, m)
  BY FitLess DEF One

LEMMA FirstOfOne ==
    ASSUME NEW w, NEW k, NEW l, One(k, w, l)
    PROVE  First(k, w, l)
  BY DEF One, First

(* What does not change the nodes changes nothing about kids.              *)
Moves(w, v) ==
    /\ Reads(w, v) /\ w.at \in Nat /\ v.at \in Nat
    /\ v.level = w.level /\ v.start = w.start /\ v.derived = w.derived

LEMMA KidsMove ==
    ASSUME NEW w, NEW v, Moves(w, v), NEW k
    PROVE  /\ \A l : One(k, v, l) <=> One(k, w, l)
           /\ \A l, m : Two(k, v, l, m) <=> Two(k, w, l, m)
           /\ \A l, m, o : Three(k, v, l, m, o) <=> Three(k, w, l, m, o)
           /\ \A l : First(k, v, l) <=> First(k, w, l)
           /\ \A l : All(k, v, l) <=> All(k, w, l)
           /\ \A n, a : Starts(n, v, a) <=> Starts(n, w, a)
  BY DEF Moves, One, Two, Three, First, All, Starts, Fit

LEMMA KidsLater ==
    ASSUME NEW w, NEW v, Later(w, v), Sound(w), Sound(v)
    PROVE  /\ \A n, l : l \in Int /\ Fit(n, w, l) => Fit(n, v, l)
           /\ \A k, l : l \in Int /\ One(k, w, l) => One(k, v, l)
           /\ \A k, l, m : l \in Int /\ m \in Int /\ Two(k, w, l, m) => Two(k, v, l, m)
           /\ \A k, l, m, o : l \in Int /\ m \in Int /\ o \in Int /\ Three(k, w, l, m, o)
                              => Three(k, v, l, m, o)
           /\ \A k, l : l \in Int /\ First(k, w, l) => First(k, v, l)
           /\ \A k, l : l \in Int /\ All(k, w, l) => All(k, v, l)
           /\ \A n, a : a \in Int /\ Starts(n, w, a) => Starts(n, v, a)
<1>1. \A n, l : l \in Int /\ Fit(n, w, l) => Fit(n, v, l)
  BY DEF Fit, Later, Sound
<1>2. \A n, a : a \in Int /\ Starts(n, w, a) => Starts(n, v, a)
  BY DEF Starts, Later, Sound
<1>3. /\ \A k, l : l \in Int /\ One(k, w, l) => One(k, v, l)
      /\ \A k, l, m : l \in Int /\ m \in Int /\ Two(k, w, l, m) => Two(k, v, l, m)
      /\ \A k, l, m, o : l \in Int /\ m \in Int /\ o \in Int /\ Three(k, w, l, m, o)
                              => Three(k, v, l, m, o)
  BY <1>1 DEF One, Two, Three
<1>4. /\ \A k, l : l \in Int /\ First(k, w, l) => First(k, v, l)
      /\ \A k, l : l \in Int /\ All(k, w, l) => All(k, v, l)
  BY <1>1 DEF First, All
<1> QED BY <1>1, <1>2, <1>3, <1>4

LEMMA SomeKid ==
    ASSUME NEW k, Len(k) = 1
    PROVE  k # Nothing
  BY DEF Nothing

-----------------------------------------------------------------------------
(* A frame does its next step.                                             *)

(* Steps differ in their first word.                                       *)
LEMMA StepTags ==
    /\ \A k : Word(Token(k)) = "expect" /\ Target(Token(k)) = k
    /\ \A x : Word(Call(x)) = "call" /\ Target(Call(x)) = x
    /\ \A x : Word(Do(x)) = x
    /\ \A k, x : Word(If(k, x)) = "if" /\ Target(If(k, x)) = k /\ Callee(If(k, x)) = x
    /\ \A k, x : Word(Again(k, x)) = "again" /\ Target(Again(k, x)) = k /\ Callee(Again(k, x)) = x
    /\ \A k, x : Word(Unless(k, x)) = "unless" /\ Target(Unless(k, x)) = k /\ Callee(Unless(k, x)) = x
    /\ \A k, x : Word(Until(k, x)) = "until" /\ Target(Until(k, x)) = k /\ Callee(Until(k, x)) = x
    /\ \A k : Word(ArrayOf(k)) = "array" /\ Target(ArrayOf(k)) = k
    /\ \A k : Word(FuncOf(k)) = "func" /\ Target(FuncOf(k)) = k
  BY DEF Word, Target, Callee, Token, Call, Do, If, Again, Unless, Until, ArrayOf, FuncOf

(* All but what it has to do is the same.                                  *)
Alike(f, g) ==
    /\ g.kind = f.kind /\ g.kids = f.kids /\ g.from = f.from /\ g.at = f.at /\ g.min = f.min

LEMMA Expect ==
    ASSUME NEW f, NEW g, NEW w, NEW v, Moves(w, v), Stands(f, w), f.at \in 1 .. w.at,
           f.todo # Nothing, Word(Foremost(f.todo)) = "expect", Alike(f, g), g.todo = Rest(f.todo)
    PROVE  Stands(g, v)
<1>0. /\ g.kind = f.kind /\ g.kids = f.kids /\ g.from = f.from /\ g.at = f.at
      /\ \A j \in 1 .. w.at : j \in 1 .. v.at
  BY DEF Alike, Moves, Reads
<1>1. CASE OperandCall(f, w)
  <2>1. f.kind = "parens" /\ g.todo = Nothing /\ One(f.kids, w, 1)
    BY ONLY <1>1, Word(Foremost(f.todo)) = "expect", g.todo = Rest(f.todo), f.todo # Nothing,
            LeftFacts, StepTags
       DEF OperandCall
  <2>2. One(g.kids, v, 1)
    BY <1>0, <2>1, KidsMove
  <2> QED BY <1>0, <2>1, <2>2 DEF Stands, OperandCall
<1>2. CASE OperandNode(f, w)
  <2>1. \/ f.kind = "SIZEOF" /\ g.todo = Nothing /\ One(f.kids, w, 1)
             /\ Starts(f.kids[1], w, f.at + 2)
        \/ f.kind = "CONDITIONAL" /\ g.todo = Left1(Call("conditional")) /\ Two(f.kids, w, 4, 1)
        \/ f.kind \in {"INDEX", "CALL", "MEMBER"} /\ g.todo = Nothing /\ First(f.kids, w, 15)
    <3>1. CASE f.kind = "SIZEOF"
      BY ONLY <1>2, <3>1, Word(Foremost(f.todo)) = "expect", g.todo = Rest(f.todo),
              f.todo # Nothing, LeftFacts, StepTags
         DEF OperandNode
    <3>2. CASE f.kind = "CONDITIONAL"
      BY ONLY <1>2, <3>2, Word(Foremost(f.todo)) = "expect", g.todo = Rest(f.todo),
              f.todo # Nothing, LeftFacts, StepTags
         DEF OperandNode
    <3>3. CASE f.kind \in {"INDEX", "CALL", "MEMBER"}
      BY ONLY <1>2, <3>3, Word(Foremost(f.todo)) = "expect", g.todo = Rest(f.todo),
              f.todo # Nothing, LeftFacts, StepTags,
              FirstOfOne
         DEF OperandNode
    <3>4. CASE f.kind \in {"BINARY", "UNARY", "COMMA_EXPR", "ASSIGN"}
      BY ONLY <1>2, <3>4, Word(Foremost(f.todo)) = "expect", f.todo # Nothing, LeftFacts, StepTags
         DEF OperandNode
    <3> QED
      BY ONLY <1>2, <3>1, <3>2, <3>3, <3>4, f.todo # Nothing DEF OperandNode
  <2>2. /\ One(f.kids, w, 1) => One(g.kids, v, 1)
        /\ Starts(f.kids[1], w, f.at + 2) => Starts(g.kids[1], v, g.at + 2)
        /\ Two(f.kids, w, 4, 1) => Two(g.kids, v, 4, 1)
        /\ First(f.kids, w, 15) => First(g.kids, v, 15)
    BY <1>0, KidsMove
  <2>3. OperandNode(g, v)
    BY ONLY <1>0, <2>1, <2>2 DEF OperandNode
  <2> QED BY <2>3 DEF Stands
<1>3. CASE f.kind \in DeclaratorKinds /\ DeclaratorStands(f, w)
  <2>1. ~Naming(f) /\ f.todo # Left3(Do("stars"), Do("dims"), Initializer)
        /\ f.todo # Left1(Call("assignment"))
    BY ONLY Word(Foremost(f.todo)) = "expect", LeftFacts, StepTags
       DEF Naming, Initializer
  <2>2. CASE Dimension(f, w)
    <3>0. \A r \in AfterDims : Word(r) \in {"params", "if"}
      BY ONLY StepTags DEF AfterDims
    <3>1. PICK r \in AfterDims, j \in 1 .. w.at :
              f.todo = Left4(Token("]"), ArrayOf(j), Do("dims"), r) /\ f.kids # Nothing
      BY ONLY <2>2, <3>0, Word(Foremost(f.todo)) = "expect", LeftFacts, StepTags DEF Dimension
    <3>2. g.todo = Left3(ArrayOf(j), Do("dims"), r)
      BY ONLY <3>1, g.todo = Rest(f.todo), LeftFacts
    <3>3. Dimension(g, v)
      BY ONLY <1>0, <3>1, <3>2, r \in AfterDims, j \in 1 .. w.at DEF Dimension
    <3> QED BY <1>0, <1>3, <2>1, <3>3 DEF Stands, DeclaratorStands
  <2>3. CASE Parametric(f, w)
    <3>1. PICK j \in 1 .. w.at : f.todo = Left2(Token(")"), FuncOf(j))
      BY ONLY <2>3, Word(Foremost(f.todo)) = "expect", LeftFacts, StepTags
         DEF Parametric
    <3>2. g.todo = Left1(FuncOf(j))
      BY ONLY <3>1, g.todo = Rest(f.todo), LeftFacts
    <3>3. Parametric(g, v)
      BY ONLY <1>0, <3>2, j \in 1 .. w.at DEF Parametric
    <3> QED BY <1>0, <1>3, <2>1, <3>3 DEF Stands, DeclaratorStands
  <2> QED BY <1>3, <2>1, <2>2, <2>3 DEF DeclaratorStands
<1>4. CASE DeclStands(f, w)
  <2>1. f.kind = "DECL" /\ g.todo = Nothing /\ All(f.kids, w, 0)
    BY ONLY <1>4, Word(Foremost(f.todo)) = "expect", g.todo = Rest(f.todo), f.todo # Nothing,
            LeftFacts, StepTags
       DEF DeclStands, Others, Semi
  <2>2. All(g.kids, v, 0)
    BY <1>0, <2>1, KidsMove
  <2> QED BY <1>0, <2>1, <2>2 DEF Stands, StatementStands, DeclStands
<1>5. CASE VarDeclStands(f, w)
  <2>1. f.kind = "var_decl" /\ g.todo = Nothing /\ All(f.kids, w, 14) /\ f.kids # Nothing
    BY ONLY <1>5, Word(Foremost(f.todo)) = "expect", g.todo = Rest(f.todo), f.todo # Nothing,
            LeftFacts, StepTags
       DEF VarDeclStands, OtherVariables, Semi
  <2>2. All(g.kids, v, 14)
    BY <1>0, <2>1, KidsMove
  <2> QED BY <1>0, <2>1, <2>2 DEF Stands, StatementStands, VarDeclStands
<1>6. CASE IfStands(f, w)
  <2>1. /\ f.kind = "IF"
        /\ \/ g.todo = Left4(Call("expression"), Token(")"), Call("statement"), Else) /\ f.kids = Nothing
           \/ g.todo = Left2(Call("statement"), Else) /\ Len(f.kids) = 1
    BY ONLY <1>6, Word(Foremost(f.todo)) = "expect", g.todo = Rest(f.todo), f.todo # Nothing,
            LeftFacts, StepTags
       DEF IfStands, Else
  <2>2. IfStands(g, v)
    BY ONLY <1>0, <2>1 DEF IfStands
  <2> QED BY <2>2 DEF Stands, StatementStands
<1>7. CASE f.kind \in Simple /\ f.todo \in Seq(PlainStep)
  <2>1. Rest(f.todo) \in Seq(PlainStep)
    BY ONLY <1>7, f.todo # Nothing DEF Rest, Nothing
  <2> QED BY <1>0, <1>7, <2>1 DEF Stands, StatementStands
<1>8. CASE f.kind \in {"FUNC_DEF", "specifiers", "statement"}
        /\ f.todo \in {Left1(Call("COMPOUND")), Left1(Do("words")), Left1(Do("statement"))}
  BY ONLY <1>8, Word(Foremost(f.todo)) = "expect", f.todo # Nothing, LeftFacts, StepTags
<1> QED BY <1>1, <1>2, <1>3, <1>4, <1>5, <1>6, <1>7, <1>8, f.todo # Nothing DEF Stands,
           StatementStands

-----------------------------------------------------------------------------
(* The stack of calls.                                                     *)

LEMMA UnderGrows ==
    ASSUME NEW n, NEW w, NEW f, NEW g, NEW st, Under(g, st, n, w), Bears(g, f, n, w)
    PROVE  Under(f, <<g>> \o st, n, w)
<1> PICK S : S = Elements(st) \cup {g}
  OBVIOUS
<1> PICK c : c = <<g>> \o st
  OBVIOUS
<1>1. st \in Seq(S) /\ IsSeq(st)
  BY DEF Under, IsSeq
<1>2. /\ IsSeq(c) /\ c # <<>> /\ c[1] = g /\ DOMAIN c = 1 .. (Len(st) + 1) /\ Len(st) \in Nat
      /\ \A i \in 1 .. Len(st) : c[i + 1] = st[i]
  <2>1. c = Onto(g, st)
    BY DEF Onto
  <2> QED BY ONLY <1>1, <2>1, ConsIs
<1>3. DOMAIN st = 1 .. Len(st)
  BY <1>1
<1>4. ASSUME NEW i \in DOMAIN c \ {1} PROVE Bears(c[i], c[i - 1], n, w)
  <2> PICK j \in 1 .. Len(st) : i = j + 1
    <3>1. i - 1 \in 1 .. Len(st) /\ i = i - 1 + 1
      BY <1>2
    <3> QED BY <3>1
  <2>1. c[i] = st[j]
    BY <1>2
  <2>2. CASE j = 1
    <3>1. st # <<>> /\ c[i - 1] = g
      BY <1>1, <1>2, <2>2
    <3> QED BY <2>1, <2>2, <3>1 DEF Under
  <2>3. CASE j # 1
    <3>1. c[i - 1] = st[j - 1]
      <4>1. j - 1 \in 1 .. Len(st) /\ i - 1 = j - 1 + 1
        BY <1>2, <2>3
      <4> QED BY <1>2, <4>1
    <3>2. j \in DOMAIN st \ {1}
      BY <1>3, <2>3
    <3> QED BY <2>1, <3>1, <3>2 DEF Under
  <2> QED BY <2>2, <2>3
<1> QED BY <1>2, <1>4 DEF Under

LEMMA UnderShrinks ==
    ASSUME NEW n, NEW w, NEW f, NEW st, Under(f, st, n, w), st # <<>>
    PROVE  /\ IsSeq(Tail(st)) /\ Bears(Head(st), f, n, w) /\ Under(Head(st), Tail(st), n, w)
           /\ Head(st) = st[1] /\ Len(Tail(st)) = Len(st) - 1 /\ Len(st) \in Nat
<1> PICK S : S = Elements(st)
  OBVIOUS
<1> PICK g : g = st[1]
  OBVIOUS
<1> PICK t : t = Tail(st)
  OBVIOUS
<1>1. st \in Seq(S) /\ IsSeq(st)
  BY DEF Under, IsSeq
<1>2. Head(st) = g /\ t \in Seq(S) /\ Len(t) = Len(st) - 1 /\ \A i \in 1 .. Len(t) : t[i] = st[i + 1]
  BY <1>1, HeadTailProperties
<1>3. DOMAIN st = 1 .. Len(st) /\ DOMAIN t = 1 .. Len(t) /\ Len(st) \in Nat /\ Len(t) \in Nat
        /\ IsSeq(t)
  <2>1. IsSeq(t)
    BY <1>2, IsSeqOf
  <2> QED BY <1>1, <1>2, <2>1
<1>4. Bears(g, f, n, w)
  BY DEF Under
<1>5. ASSUME NEW i \in DOMAIN t PROVE Bears(t[i], st[i], n, w)
  <2>1. i + 1 \in DOMAIN st \ {1} /\ i + 1 - 1 = i
    BY <1>2, <1>3
  <2>2. Bears(st[i + 1], st[i + 1 - 1], n, w)
    BY ONLY <2>1, Under(f, st, n, w) DEF Under
  <2> QED BY <1>2, <1>3, <2>1, <2>2
<1>6. ASSUME NEW i \in DOMAIN t \ {1} PROVE Bears(t[i], t[i - 1], n, w)
  <2>1. i - 1 \in 1 .. Len(t) /\ i - 1 + 1 = i
    BY <1>3
  <2>2. t[i - 1] = st[i]
    BY <1>2, <2>1
  <2> QED BY <1>5, <2>2
<1>7. t # <<>> => Bears(t[1], g, n, w)
  <2>1. t # <<>> => 1 \in DOMAIN t
    BY <1>2, <1>3
  <2> QED BY <1>5, <2>1
<1>8. Under(g, t, n, w)
  BY ONLY <1>3, <1>6, <1>7 DEF Under
<1> QED BY <1>2, <1>3, <1>4, <1>8

(* Frames stay well formed.                                                *)
LEMMA TypeStays ==
    ASSUME NEW t, NEW n \in Nat, NEW m \in Nat, n <= m, NEW a \in Nat, NEW b \in Nat, a <= b,
           IsType(t, n, a)
    PROVE  IsType(t, m, b)
<1> PICK S : S = [tok : 1 .. a, len : 0 .. n]
  OBVIOUS
<1> PICK T : T = [tok : 1 .. b, len : 0 .. m]
  OBVIOUS
<1>1. S \subseteq T
  OBVIOUS
<1>2. t.by \in Seq(S)
  BY DEF IsType
<1>3. t.by \in Seq(T)
  BY ONLY <1>1, <1>2
<1> QED BY <1>3 DEF IsType

LEMMA FrameStays ==
    ASSUME NEW f, NEW n \in Nat, NEW m \in Nat, n <= m, NEW a \in Nat, NEW b \in Nat, a <= b,
           IsFrame(f, n, a)
    PROVE  IsFrame(f, m, b)
<1>1. IsType(f.type, m, b)
  BY TypeStays DEF IsFrame
<1>2. f.kids \in Seq(0 .. m)
  <2> PICK S : S = 0 .. n
    OBVIOUS
  <2> PICK T : T = 0 .. m
    OBVIOUS
  <2>1. S \subseteq T
    OBVIOUS
  <2>2. f.kids \in Seq(S)
    BY DEF IsFrame
  <2>3. f.kids \in Seq(T)
    BY ONLY <2>1, <2>2
  <2> QED BY <2>3
<1>3. f.from \in 1 .. b /\ f.at \in 1 .. b
  BY DEF IsFrame
<1> QED BY <1>1, <1>2, <1>3 DEF IsFrame

LEMMA RootedStays ==
    ASSUME NEW f, NEW w, NEW v, Later(w, v), Sound(w), Sound(v), f.from \in Int, Rooted(f, w)
    PROVE  Rooted(f, v)
  BY KidsLater DEF Rooted

LEMMA GivesRange ==
    ASSUME NEW f, NEW w, f.min \in Nat
    PROVE  Gives(f, w) \in Int /\ Gives(f, w) >= -1 /\ Stop(f, w) \in Int /\ OperatorOf(f,
    w) \in 0 .. 10
           /\ Lowest(f.min) \in Nat /\ Lowest(f.min) >= 1
<1>1. OperatorOf(f, w) \in 0 .. 10
  BY PrecedenceRange DEF OperatorOf
<1>2. Lowest(f.min) \in Nat /\ Lowest(f.min) >= 1
  BY DEF Lowest
<1>3. LevelOf(f.kind, OperatorOf(f, w)) \in Nat
  BY <1>1 DEF LevelOf
<1>4. Gives(f, w) \in Int /\ Gives(f, w) >= -1
  BY ONLY <1>2, <1>3 DEF Gives
<1>5. Stop(f, w) \in Int
  BY ONLY <1>1, <1>2 DEF Stop
<1> QED BY <1>1, <1>2, <1>4, <1>5

LEMMA OperatorStays ==
    ASSUME NEW f, NEW w, NEW v, Reads(w, v), w.at \in Nat, f.at \in 1 .. w.at
    PROVE  OperatorOf(f, v) = OperatorOf(f, w)
<1>1. v.kind[f.at] = w.kind[f.at]
  BY DEF Reads
<1> QED BY <1>1 DEF OperatorOf

LEMMA AwaitsKeeps ==
    ASSUME NEW f, NEW c, NEW g, NEW w, NEW v, Later(w, v), Sound(w), Sound(v),
           f.at \in 1 .. w.at, f.min \in Nat, c.min \in Nat, g.min \in Nat,
           Awaits(f, c, w), Keeps(c, g, w, v)
    PROVE  Awaits(f, g, v)
<1> PICK gw : gw = Gives(c, w)
  OBVIOUS
<1> PICK gv : gv = Gives(g, v)
  OBVIOUS
<1> PICK sw : sw = Stop(c, w)
  OBVIOUS
<1> PICK sv : sv = Stop(g, v)
  OBVIOUS
<1> PICK p : p = OperatorOf(f, w)
  OBVIOUS
<1> PICK l : l = Lowest(f.min)
  OBVIOUS
<1>1. /\ gw \in Int /\ gv \in Int /\ sw \in Int /\ sv \in Int /\ gv >= gw /\ sv <= sw /\ p \in Nat
      /\ l \in Nat
  BY GivesRange DEF Keeps
<1>2. OperatorOf(f, v) = p
  BY OperatorStays DEF Later, Sound
<1>3. /\ One(f.kids, w, 1) => One(f.kids, v, 1)
      /\ One(f.kids, w, 3) => One(f.kids, v, 3)
      /\ One(f.kids, w, 4) => One(f.kids, v, 4)
      /\ One(f.kids, w, 15) => One(f.kids, v, 15)
      /\ One(f.kids, w, 3 + p) => One(f.kids, v, 3 + p)
      /\ Two(f.kids, w, 4, 1) => Two(f.kids, v, 4, 1)
      /\ First(f.kids, w, 15) => First(f.kids, v, 15)
      /\ All(f.kids, w, 0) => All(f.kids, v, 0)
      /\ All(f.kids, w, 14) => All(f.kids, v, 14)
  <2>1. \A x \in Int : One(f.kids, w, x) => One(f.kids, v, x)
    BY ONLY Later(w, v), Sound(w), Sound(v), KidsLater
  <2>2. \A x, y \in Int : Two(f.kids, w, x, y) => Two(f.kids, v, x, y)
    BY ONLY Later(w, v), Sound(w), Sound(v), KidsLater
  <2>3. \A x \in Int : First(f.kids, w, x) => First(f.kids, v, x)
    BY ONLY Later(w, v), Sound(w), Sound(v), KidsLater
  <2>4. p \in Int /\ 3 + p \in Int
    BY ONLY <1>1
  <2>5. \A x \in Int : All(f.kids, w, x) => All(f.kids, v, x)
    BY ONLY Later(w, v), Sound(w), Sound(v), KidsLater
  <2> QED BY ONLY <2>1, <2>2, <2>3, <2>4, <2>5
<1>4. \A k \in 1 .. w.at : k \in 1 .. v.at
  BY DEF Later, Reads, Sound
<1>5. CASE OperandAwaits(f, c, w)
  <2>1. CASE f.kind \in {"expression", "assignment", "conditional", "postfix", "parens", "UNARY"}
    <3>1. OperandAwaits(f, g, v)
      BY ONLY <1>1, <1>5, <2>1, gw = Gives(c, w), gv = Gives(g, v) DEF OperandAwaits
    <3> QED BY <3>1 DEF Awaits
  <2>2. CASE f.kind \in {"binary", "BINARY"}
    <3>1. OperandAwaits(f, g, v)
      BY ONLY <1>1, <1>2, <1>3, <1>5, <2>2, gw = Gives(c, w), gv = Gives(g, v), sw = Stop(c, w),
              sv = Stop(g, v), p = OperatorOf(f, w), l = Lowest(f.min) DEF OperandAwaits
    <3> QED BY <3>1 DEF Awaits
  <2>3. CASE f.kind = "SIZEOF"
    <3>1. OperandAwaits(f, g, v)
      BY ONLY <1>1, <1>5, <2>3, gw = Gives(c, w), gv = Gives(g, v), Keeps(c, g, w, v)
         DEF OperandAwaits, Keeps
    <3> QED BY <3>1 DEF Awaits
  <2>4. CASE f.kind \in {"COMMA_EXPR", "ASSIGN", "CONDITIONAL", "INDEX", "CALL"}
    <3>1. OperandAwaits(f, g, v)
      BY ONLY <1>1, <1>3, <1>5, <2>4, gw = Gives(c, w), gv = Gives(g, v) DEF OperandAwaits
    <3> QED BY <3>1 DEF Awaits
  <2> QED BY ONLY <1>5, <2>1, <2>2, <2>3, <2>4 DEF OperandAwaits
<1>6. CASE f.kind \in DeclaratorKinds /\ DeclaratorAwaits(f, c, w)
  <2>1. DeclaratorAwaits(f, g, v)
    BY ONLY <1>1, <1>4, <1>6, gw = Gives(c, w), gv = Gives(g, v) DEF DeclaratorAwaits
  <2> QED BY <1>6, <2>1 DEF Awaits
<1>7. CASE StatementAwaits(f, c, w)
  <2>1. w.derived \subseteq v.derived
    BY DEF Later
  <2>2. StatementAwaits(f, g, v)
    BY ONLY <1>1, <1>3, <1>7, <2>1, gw = Gives(c, w), gv = Gives(g, v), Keeps(c, g, w, v)
       DEF StatementAwaits, Keeps
  <2> QED BY <2>2 DEF Awaits
<1> QED BY <1>5, <1>6, <1>7 DEF Awaits

(* The calls below one that goes on, or is left by one that does, wait on. *)
LEMMA BearsKeeps ==
    ASSUME NEW f, NEW c, NEW g, NEW w, NEW v, Later(w, v), Sound(w), Sound(v),
           NEW n \in Nat, NEW m \in Nat, n <= m, c.min \in Nat, g.min \in Nat,
           Bears(f, c, n, w), Keeps(c, g, w, v)
    PROVE  Bears(f, g, m, v)
<1>1. w.at \in Nat /\ v.at \in Nat /\ w.at <= v.at
  BY DEF Later, Reads, Sound
<1>2. f.at \in 1 .. w.at /\ f.min \in Nat /\ f.from \in Int
  BY DEF Bears, IsFrame
<1>3. IsFrame(f, m, v.at)
  BY <1>1, FrameStays DEF Bears
<1>4. Rooted(f, v)
  BY <1>2, RootedStays DEF Bears
<1>5. Awaits(f, g, v)
  BY <1>2, AwaitsKeeps DEF Bears
<1> QED BY <1>3, <1>4, <1>5 DEF Bears, Keeps

LEMMA SameKeeps ==
    ASSUME NEW f, NEW w, NEW v, Later(w, v), Sound(w), f.at \in 1 .. w.at, f.min \in Nat
    PROVE  Keeps(f, f, w, v)
<1>1. OperatorOf(f, v) = OperatorOf(f, w)
  BY OperatorStays DEF Later, Sound
<1>2. Gives(f, v) = Gives(f, w) /\ Stop(f, v) = Stop(f, w)
  BY ONLY <1>1 DEF Gives, Stop
<1> QED BY <1>2, GivesRange DEF Keeps

LEMMA UnderKeeps ==
    ASSUME NEW c, NEW g, NEW w, NEW v, Later(w, v), Sound(w), Sound(v),
           NEW n \in Nat, NEW m \in Nat, n <= m, c.min \in Nat, g.min \in Nat,
           NEW st, Under(c, st, n, w), Keeps(c, g, w, v)
    PROVE  Under(g, st, m, v)
<1>1. st # <<>> => Bears(st[1], g, m, v)
  BY BearsKeeps DEF Under
<1>2. ASSUME NEW i \in DOMAIN st \ {1} PROVE Bears(st[i], st[i - 1], m, v)
  <2> PICK h : h = st[i - 1]
    OBVIOUS
  <2>1. Bears(st[i], h, n, w)
    BY DEF Under
  <2>2. \E e : Bears(h, e, n, w)
    <3>1. i - 1 \in DOMAIN st /\ st # <<>>
      <4> PICK S : S = Elements(st)
        OBVIOUS
      <4>1. st \in Seq(S)
        BY DEF Under, IsSeq
      <4> QED BY <4>1
    <3>2. CASE i - 1 = 1
      BY <3>1, <3>2 DEF Under
    <3>3. CASE i - 1 # 1
      BY <3>1, <3>3 DEF Under
    <3> QED BY <3>2, <3>3
  <2>3. h.at \in 1 .. w.at /\ h.min \in Nat
    BY <2>2 DEF Bears, IsFrame
  <2>4. Keeps(h, h, w, v)
    BY <2>3, SameKeeps
  <2> QED BY <2>1, <2>3, <2>4, BearsKeeps
<1> QED BY <1>1, <1>2 DEF Under

-----------------------------------------------------------------------------
(* A call gets what it waited for.                                         *)

LEMMA StartsLess ==
    ASSUME NEW n, NEW w, Sound(w), NEW a \in Int, NEW b \in Int, b <= a, Starts(n, w, a)
    PROVE  Starts(n, w, b)
  BY DEF Starts, Sound

LEMMA OperandResumes ==
    ASSUME NEW f, NEW c, NEW g, NEW n, NEW w, NEW v, Later(w, v), Sound(w), Sound(v),
           f.at \in 1 .. w.at, f.min \in Nat, c.min \in Nat, c.from \in Int,
           NEW S, f.kids \in Seq(S), n \in S,
           OperandAwaits(f, c, w), Result(c, n, w, v),
           g.kind = f.kind, g.at = f.at, g.min = f.min, g.todo = f.todo, g.kids = Append(f.kids, n)
    PROVE  OperandCall(g, v) \/ OperandNode(g, v)
<1> PICK gw : gw = Gives(c, w)
  OBVIOUS
<1> PICK sw : sw = Stop(c, w)
  OBVIOUS
<1> PICK p : p = OperatorOf(f, w)
  OBVIOUS
<1> PICK l : l = Lowest(f.min)
  OBVIOUS
<1> PICK next : next = Precedence(v.kind[v.at])
  OBVIOUS
<1> PICK k : k = g.kids
  OBVIOUS
<1>1. gw \in Int /\ sw \in Int /\ p \in Nat /\ l \in Nat /\ next \in Nat /\ next < sw
  <2>1. gw \in Int /\ sw \in Int /\ p \in Nat /\ l \in Nat
    BY ONLY f.min \in Nat, c.min \in Nat, gw = Gives(c, w), sw = Stop(c, w), p = OperatorOf(f, w),
            l = Lowest(f.min),
            GivesRange
  <2>2. next \in Nat
    BY PrecedenceRange
  <2>3. next < sw
    BY DEF Result
  <2> QED BY <2>1, <2>2, <2>3
<1>2. OperatorOf(g, v) = p /\ Lowest(g.min) = l
  <2>1. OperatorOf(f, v) = p
    BY OperatorStays DEF Later, Sound
  <2> QED BY <2>1 DEF OperatorOf
<1>3. gw >= 0
  BY ONLY <1>1, OperandAwaits(f, c, w), gw = Gives(c, w), sw = Stop(c, w), l = Lowest(f.min),
          p = OperatorOf(f, w)
     DEF OperandAwaits
<1>4. Starts(n, v, c.from) /\ \A m \in Int : m <= gw => Fit(n, v, m)
  BY <1>1, <1>3, FitLess DEF Result
<1>5. /\ \A m \in Int : f.kids = Nothing /\ m <= gw => One(k, v, m) /\ k[1] = n
      /\ One(f.kids, w, 1) /\ gw >= 2 => Two(k, v, 1, 2)
      /\ One(f.kids, w, 3) /\ gw >= 2 => Two(k, v, 3, 2)
      /\ One(f.kids, w, 4) /\ gw >= 1 => Two(k, v, 4, 1)
      /\ One(f.kids, w, 3 + p) /\ gw >= 4 + p => Two(k, v, 3 + p, 4 + p)
      /\ Two(f.kids, w, 4, 1) /\ gw >= 3 => Three(k, v, 4, 1, 3)
      /\ One(f.kids, w, 15) => First(k, v, 15)
      /\ First(f.kids, w, 15) => First(k, v, 15)
  <2>1. /\ One(f.kids, w, 1) => One(f.kids, v, 1)
        /\ One(f.kids, w, 3) => One(f.kids, v, 3)
        /\ One(f.kids, w, 4) => One(f.kids, v, 4)
        /\ One(f.kids, w, 15) => One(f.kids, v, 15)
        /\ One(f.kids, w, 3 + p) => One(f.kids, v, 3 + p)
        /\ Two(f.kids, w, 4, 1) => Two(f.kids, v, 4, 1)
        /\ First(f.kids, w, 15) => First(f.kids, v, 15)
    <3>1. \A x \in Int : One(f.kids, w, x) => One(f.kids, v, x)
      BY ONLY Later(w, v), Sound(w), Sound(v), KidsLater
    <3>2. \A x, y \in Int : Two(f.kids, w, x, y) => Two(f.kids, v, x, y)
      BY ONLY Later(w, v), Sound(w), Sound(v), KidsLater
    <3>3. \A x \in Int : First(f.kids, w, x) => First(f.kids, v, x)
      BY ONLY Later(w, v), Sound(w), Sound(v), KidsLater
    <3>4. p \in Int /\ 3 + p \in Int
      BY ONLY <1>1
    <3> QED BY ONLY <3>1, <3>2, <3>3, <3>4
  <2>2. One(f.kids, v, 15) => First(f.kids, v, 15)
    BY FirstOfOne
  <2>3. \A m \in Int : m <= gw => Fit(n, v, m)
    BY ONLY <1>4
  <2>4. /\ gw >= 2 => Fit(n, v, 2)
        /\ gw >= 1 => Fit(n, v, 1)
        /\ gw >= 3 => Fit(n, v, 3)
        /\ gw >= 4 + p => Fit(n, v, 4 + p)
    BY ONLY <1>1, <2>3
  <2>5. /\ k = Append(f.kids, n) /\ f.kids \in Seq(S) /\ n \in S
    OBVIOUS
  <2>6. Grows(k, f.kids, n, v)
    BY ONLY <2>5, KidsGrow
  <2> QED BY ONLY <1>4, <2>1, <2>2, <2>4, <2>6 DEF Grows
<1>6. CASE f.kind \in {"expression", "assignment", "conditional", "postfix", "parens"}
  BY ONLY <1>1, <1>5, <1>6, OperandAwaits(f, c, w), gw = Gives(c, w), g.kind = f.kind,
          g.todo = f.todo, k = g.kids
     DEF OperandAwaits, OperandCall
<1>7. CASE f.kind = "binary"
  <2>1. One(k, v, 3 + l) /\ One(k, v, 3 + next) /\ f.todo = Left1(Do("operators"))
    BY ONLY <1>1, <1>5, <1>7, OperandAwaits(f, c, w), gw = Gives(c, w), sw = Stop(c, w),
            l = Lowest(f.min) DEF OperandAwaits
  <2> QED
    BY ONLY <1>2, <1>7, <2>1, g.kind = f.kind, g.todo = f.todo, k = g.kids,
            next = Precedence(v.kind[v.at]) DEF OperandCall
<1>8. CASE f.kind = "BINARY"
  <2>1. p >= 1 /\ Two(k, v, 3 + p, 4 + p) /\ f.todo = Nothing /\ next <= p
    BY ONLY <1>1, <1>5, <1>8, OperandAwaits(f, c, w), gw = Gives(c, w), sw = Stop(c, w),
            p = OperatorOf(f, w) DEF OperandAwaits
  <2> QED
    BY ONLY <1>2, <1>8, <2>1, g.kind = f.kind, g.todo = f.todo, k = g.kids,
            next = Precedence(v.kind[v.at]) DEF OperandNode
<1>9. CASE f.kind = "SIZEOF"
  <2>1. Starts(n, v, c.from) /\ (gw >= 14 => Fit(n, v, 14))
    BY <1>1, <1>4
  <2>2. gw >= 14 => Starts(n, v, f.at + 2)
    BY <2>1 DEF Starts, Fit
  <2>3. c.from > f.at + 1 => Starts(n, v, f.at + 2)
    <3>1. f.at \in Nat
      BY DEF Sound
    <3> QED BY <2>1, <3>1, StartsLess
  <2>4. /\ f.todo = Nothing \/ f.todo = Left1(Token(")"))
        /\ One(k, v, 1) /\ Starts(k[1], v, f.at + 2)
    BY ONLY <1>1, <1>5, <1>9, <2>2, <2>3, OperandAwaits(f, c, w), gw = Gives(c, w) DEF OperandAwaits
  <2> QED
    BY ONLY <1>9, <2>4, g.kind = f.kind, g.todo = f.todo, k = g.kids, g.at = f.at DEF OperandNode
<1>10. CASE f.kind \in {"UNARY", "COMMA_EXPR", "ASSIGN", "CONDITIONAL"}
  BY ONLY <1>1, <1>5, <1>10, OperandAwaits(f, c, w), gw = Gives(c, w), g.kind = f.kind,
          g.todo = f.todo, k = g.kids
     DEF OperandAwaits, OperandNode
<1>11. CASE f.kind \in {"INDEX", "CALL"}
  BY ONLY <1>1, <1>5, <1>11, OperandAwaits(f, c, w), gw = Gives(c, w), g.kind = f.kind,
          g.todo = f.todo, k = g.kids
     DEF OperandAwaits, OperandNode
<1> QED
  BY ONLY <1>6, <1>7, <1>8, <1>9, <1>10, <1>11, OperandAwaits(f, c, w) DEF OperandAwaits

LEMMA Resume ==
    ASSUME NEW f, NEW c, NEW g, NEW n, NEW w, NEW v, Later(w, v), Sound(w), Sound(v),
           f.at \in 1 .. w.at, f.min \in Nat, f.from \in Int, c.min \in Nat, c.from \in Int,
           NEW S, f.kids \in Seq(S), n \in S, f.from <= c.from, Rooted(f, w),
           Awaits(f, c, w), Result(c, n, w, v),
           g.kind = f.kind, g.at = f.at, g.min = f.min, g.todo = f.todo, g.from = f.from,
           g.kids = IF n = 0 THEN f.kids ELSE Append(f.kids, n)
    PROVE  Stands(g, v) /\ Rooted(g, v)
<1> PICK gw : gw = Gives(c, w)
  OBVIOUS
<1> PICK k : k = g.kids
  OBVIOUS
<1>1. gw \in Int /\ gw >= -1
  BY GivesRange
<1>2. n # 0 => k = Append(f.kids, n)
  OBVIOUS
<1>3. gw >= 0 => n # 0
  BY DEF Result
<1>4. n # 0 => Fit(n, v, gw)
  BY DEF Result
<1>8. n # 0 => Grows(k, f.kids, n, v)
  <2> HAVE n # 0
  <2>1. k = Append(f.kids, n)
    BY <1>2
  <2> QED BY ONLY <2>1, f.kids \in Seq(S), n \in S, KidsGrow
<1>9. f.kids = Nothing => Len(f.kids) = 0
  BY ONLY TRUE DEF Nothing
<1>5. CASE OperandAwaits(f, c, w)
  <2>1. gw >= 0
    <3>1. Stop(c, w) \in Int /\ Lowest(f.min) \in Nat /\ OperatorOf(f, w) \in Nat
      BY ONLY f.min \in Nat, c.min \in Nat, GivesRange
    <3> QED
      BY ONLY <1>1, <1>5, <3>1, gw = Gives(c, w) DEF OperandAwaits
  <2>2. n # 0 /\ g.kids = Append(f.kids, n)
    BY <1>3, <2>1
  <2>3. OperandCall(g, v) \/ OperandNode(g, v)
    BY <1>5, <2>2, OperandResumes
  <2>4. Starts(n, v, f.from)
    <3>1. Starts(n, v, c.from)
      BY <2>1 DEF Result
    <3> QED BY <3>1, StartsLess
  <2>5. Starts(k[1], v, f.from)
    <3>1. CASE f.kids = Nothing
      <4>1. k[1] = n
        BY ONLY <1>8, <2>2, <3>1 DEF Grows
      <4> QED BY <2>4, <4>1
    <3>2. CASE f.kids # Nothing
      <4>1. k[1] = f.kids[1]
        BY ONLY <1>8, <2>2, <3>2 DEF Grows
      <4>2. f.kind \in OperandKinds
        BY ONLY <1>5 DEF OperandAwaits, OperandKinds
      <4>3. Starts(f.kids[1], w, f.from)
        BY <3>2, <4>2 DEF Rooted
      <4> QED BY <4>1, <4>3, KidsLater
    <3> QED BY <3>1, <3>2
  <2>6. Rooted(g, v)
    BY ONLY <2>5, k = g.kids, g.from = f.from DEF Rooted
  <2> QED BY <2>3, <2>6 DEF Stands
<1>6. CASE f.kind \in DeclaratorKinds /\ DeclaratorAwaits(f, c, w)
  <2>1. Rooted(g, v)
    BY ONLY <1>6, g.kind = f.kind DEF Rooted, DeclaratorKinds, OperandKinds
  <2>2. gw >= 0 => k # Nothing
    BY ONLY <1>3, <1>8 DEF Grows
  <2>3. \A j \in 1 .. w.at : j \in 1 .. v.at
    BY DEF Later, Reads, Sound
  <2>4. DeclaratorStands(g, v)
    BY ONLY <1>6, <2>2, <2>3, gw = Gives(c, w), g.kind = f.kind, g.todo = f.todo, k = g.kids
       DEF DeclaratorAwaits, DeclaratorStands, Dimension, Parametric
  <2> QED BY <1>6, <2>1, <2>4 DEF Stands
<1>7. CASE StatementAwaits(f, c, w)
  <2>1. f.kind \notin OperandKinds
    BY ONLY <1>7 DEF StatementAwaits, OperandKinds, Simple
  <2>2. Rooted(g, v)
    BY ONLY <2>1, g.kind = f.kind DEF Rooted
  <2>3. StatementStands(g, v)
    <3>1. CASE f.kind = "DECL"
      <4>1. n # 0 => Fit(n, v, 0)
        BY ONLY <1>4, Sound(v) DEF Fit, Sound
      <4>2. All(f.kids, w, 0)
        BY ONLY <1>7, <3>1 DEF StatementAwaits, Simple
      <4>3. All(f.kids, v, 0)
        BY <4>2, KidsLater
      <4>4. All(k, v, 0)
        BY ONLY <1>8, <4>1, <4>3, k = g.kids, g.kids = IF n = 0 THEN f.kids ELSE Append(f.kids, n)
           DEF Grows
      <4>5. DeclStands(g, v)
        BY ONLY <1>7, <3>1, <4>4, g.kind = f.kind, g.todo = f.todo, k = g.kids DEF StatementAwaits,
                DeclStands, Simple
      <4> QED BY <4>5 DEF StatementStands
    <3>2. CASE f.kind = "FUNC_DEF"
      <4>1. f.todo = Nothing /\ f.kids # Nothing /\ f.kids[1] \in w.derived
        BY ONLY <1>7, <3>2 DEF StatementAwaits, Simple
      <4>2. k # Nothing /\ k[1] = f.kids[1]
        BY ONLY <1>8, <4>1, k = g.kids, g.kids = IF n = 0 THEN f.kids ELSE Append(f.kids, n)
           DEF Grows
      <4>3. k[1] \in v.derived
        BY <4>1, <4>2 DEF Later
      <4> QED BY <3>2, <4>1, <4>2, <4>3 DEF StatementStands
    <3>3. CASE f.kind = "var_decl"
      <4>1. /\ All(f.kids, w, 14)
            /\ \/ f.todo = Left3(Call("variable"), OtherVariables, Semi) /\ c.kind = "specifiers"
               \/ f.todo = Left2(OtherVariables, Semi) /\ gw >= 14
        BY ONLY <1>7, <3>3, gw = Gives(c, w) DEF StatementAwaits, Simple
      <4>2. All(f.kids, v, 14)
        BY <4>1, KidsLater
      <4>3. CASE c.kind = "specifiers" /\ f.todo = Left3(Call("variable"), OtherVariables, Semi)
        <5>1. k = f.kids
          BY <4>3 DEF Result
        <5> QED BY <3>3, <4>2, <4>3, <5>1 DEF StatementStands, VarDeclStands
      <4>4. CASE gw >= 14 /\ f.todo = Left2(OtherVariables, Semi)
        <5>1. n # 0 /\ Fit(n, v, 14)
          BY <1>1, <1>3, <1>4, <4>4, FitLess
        <5>2. All(k, v, 14) /\ k # Nothing
          BY ONLY <1>8, <4>2, <5>1 DEF Grows
        <5> QED BY <3>3, <4>4, <5>2 DEF StatementStands, VarDeclStands
      <4> QED BY <4>1, <4>3, <4>4
    <3>4. CASE f.kind = "IF"
      <4>1. /\ gw >= 0
            /\ \/ f.todo = Left3(Token(")"), Call("statement"), Else) /\ f.kids = Nothing
               \/ f.todo = Left1(Else) /\ Len(f.kids) = 1
               \/ f.todo = Nothing /\ Len(f.kids) = 2
        BY ONLY <1>7, <3>4, gw = Gives(c, w) DEF StatementAwaits, Simple
      <4>2. n # 0 /\ Len(k) = Len(f.kids) + 1 /\ k[Len(f.kids) + 1] = n
        BY ONLY <1>3, <1>8, <4>1 DEF Grows
      <4>4. \/ f.todo = Left3(Token(")"), Call("statement"), Else) /\ Len(k) = 1
            \/ f.todo = Left1(Else) /\ Len(k) = 2
            \/ f.todo = Nothing /\ Len(k) = 3 /\ k[3] # 0
        <5>1. CASE f.kids = Nothing /\ f.todo = Left3(Token(")"), Call("statement"), Else)
          BY ONLY <1>9, <4>2, <5>1
        <5>2. CASE f.todo = Left1(Else) /\ Len(f.kids) = 1
          BY ONLY <4>2, <5>2
        <5>3. CASE f.todo = Nothing /\ Len(f.kids) = 2
          <6>1. Len(k) = 3 /\ k[3] = n /\ n # 0
            BY ONLY <4>2, <5>3
          <6> QED BY ONLY <5>3, <6>1
        <5> QED BY ONLY <4>1, <5>1, <5>2, <5>3
      <4>5. IfStands(g, v)
        BY ONLY <3>4, <4>4, g.kind = f.kind, g.todo = f.todo, k = g.kids DEF IfStands
      <4> QED BY <4>5 DEF StatementStands
    <3>5. CASE f.kind \in Simple
      <4>1. f.todo \in Seq(PlainStep)
        BY ONLY <1>7, <3>5 DEF StatementAwaits, Simple
      <4> QED BY <3>5, <4>1 DEF StatementStands
    <3> QED BY ONLY <1>7, <3>1, <3>2, <3>3, <3>4, <3>5 DEF StatementAwaits
  <2> QED BY <2>2, <2>3 DEF Stands
<1> QED BY <1>5, <1>6, <1>7 DEF Awaits

-----------------------------------------------------------------------------
(* A frame calls a function.                                               *)

Callables ==
    {"expression", "assignment", "conditional", "binary", "unary", "primary", "statement",
     "specifiers", "declarator", "variable", "COMPOUND", "DECL", "PARAM"}

(* What is left to do at first, as lists.                                  *)
LEMMA FirstSteps ==
    /\ Steps("expression") = Left2(Call("assignment"), Do("commas"))
    /\ Steps("assignment") = Left2(Call("conditional"), Do("assigns"))
    /\ Steps("conditional") = Left2(Call("binary"), Do("asks"))
    /\ Steps("binary") = Left2(Call("unary"), Do("operators"))
    /\ Steps("unary") = Left1(Do("unary"))
    /\ Steps("primary") = Left1(Do("primary"))
    /\ Steps("statement") = Left1(Do("statement"))
    /\ Steps("specifiers") = Left1(Do("words"))
    /\ Steps("declarator") = Left4(Do("stars"), Do("name"), Do("dims"), Do("params"))
    /\ Steps("variable") = Left4(Do("id"), Do("stars"), Do("dims"), Initializer)
<1>1. /\ Steps("expression") = <<Call("assignment"), Do("commas")>>
      /\ Steps("assignment") = <<Call("conditional"), Do("assigns")>>
      /\ Steps("conditional") = <<Call("binary"), Do("asks")>>
      /\ Steps("binary") = <<Call("unary"), Do("operators")>>
      /\ Steps("unary") = <<Do("unary")>>
      /\ Steps("primary") = <<Do("primary")>>
      /\ Steps("statement") = <<Do("statement")>>
      /\ Steps("specifiers") = <<Do("words")>>
      /\ Steps("declarator") = <<Do("stars"), Do("name"), Do("dims"), Do("params")>>
      /\ Steps("variable") = <<Do("id"), Do("stars"), Do("dims"), If("=", "assignment")>>
  BY DEF Steps, StatementSteps, ExpressionSteps
<1> QED
  BY ONLY <1>1, ListsAre DEF Initializer

LEMMA PlainSteps ==
    /\ Steps("TRANSLATION_UNIT") \in Seq(PlainStep)
    /\ Steps("PARAM") \in Seq(PlainStep)
    /\ Steps("COMPOUND") \in Seq(PlainStep)
<1>1. /\ Until("eof", "DECL") \in PlainStep
      /\ Call("specifiers") \in PlainStep /\ Call("declarator") \in PlainStep
      /\ Token(Opening) \in PlainStep /\ Token(Closing) \in PlainStep
      /\ Until(Closing, "statement") \in PlainStep
  BY Zenon DEF PlainStep
<1>2. Steps("COMPOUND") = <<Token(Opening), Until(Closing, "statement"), Token(Closing)>>
  BY Zenon DEF Steps, StatementSteps, Opening, Closing
<1>3. /\ Steps("TRANSLATION_UNIT") = <<Until("eof", "DECL")>>
      /\ Steps("PARAM") = <<Call("specifiers"), Call("declarator")>>
  BY Zenon DEF Steps
<1>4. \A a, b, c \in PlainStep : <<a>> \in Seq(PlainStep) /\ <<a, b>> \in Seq(PlainStep)
        /\ <<a, b, c>> \in Seq(PlainStep)
  OBVIOUS
<1> QED BY ONLY <1>1, <1>2, <1>3, <1>4

LEMMA PlainCalls ==
    ASSUME NEW s \in PlainStep
    PROVE  /\ Word(s) \in {"expect", "call", "unless", "until"}
           /\ Word(s) = "call" =>
                Target(s) \in {"expression", "statement", "conditional", "specifiers", "declarator"}
           /\ Word(s) = "unless" => Callee(s) = "expression"
           /\ Word(s) = "until" => Callee(s) \in {"statement", "DECL"}
  BY ONLY StepTags DEF PlainStep

LEMMA AllNothing ==
    ASSUME NEW w, NEW l
    PROVE  All(Nothing, w, l)
  BY DEF All, Nothing

(* A call as it begins.                                                    *)
Begins(c, x, f, w) ==
    /\ c.kind = x /\ c.from = w.at /\ c.at = w.at /\ c.kids = Nothing /\ c.todo = Steps(x)
    /\ c.min = IF f.kind = "BINARY" THEN OperatorOf(f, w) + 1 ELSE 0

LEMMA BeginsStands ==
    ASSUME NEW c, NEW x \in Callables, NEW f, NEW w, Begins(c, x, f, w)
    PROVE  Stands(c, w) /\ Rooted(c, w) /\ c.min \in 0 .. 11
<1>1. c.min \in 0 .. 11
  BY PrecedenceRange DEF Begins, OperatorOf
<1>2. Rooted(c, w)
  BY DEF Rooted, Begins
<1>3. c.kind = x /\ c.kids = Nothing /\ c.todo = Steps(x)
  BY DEF Begins
<1>4. CASE x \in {"expression", "assignment", "conditional", "binary", "unary", "primary"}
  <2>1. OperandCall(c, w)
    BY ONLY <1>3, <1>4, FirstSteps DEF OperandCall
  <2> QED BY <1>1, <1>2, <2>1 DEF Stands
<1>5. CASE x \in {"declarator", "variable"}
  <2>1. x \in DeclaratorKinds /\ DeclaratorStands(c, w)
    BY ONLY <1>3, <1>5, FirstSteps DEF DeclaratorStands, Naming, DeclaratorKinds
  <2> QED BY <1>1, <1>2, <1>3, <2>1 DEF Stands
<1>6. CASE x \in {"statement", "specifiers"}
  <2>1. StatementStands(c, w)
    BY ONLY <1>3, <1>6, FirstSteps DEF StatementStands
  <2> QED BY <1>1, <1>2, <2>1 DEF Stands
<1>7. CASE x \in {"COMPOUND", "PARAM"}
  <2>1. StatementStands(c, w)
    BY ONLY <1>3, <1>7, PlainSteps DEF StatementStands, Simple
  <2> QED BY <1>1, <1>2, <2>1 DEF Stands
<1>8. CASE x = "DECL"
  <2>1. Steps("DECL") = <<Call("specifiers"), Do("semi"), Call("declarator"), Do("body"), Others,
            Semi>>
    BY Zenon DEF Steps, Others, Semi, Comma, Semicolon
  <2>2. Steps("DECL") = Left6(Call("specifiers"), Do("semi"), Call("declarator"), Do("body"),
            Others, Semi)
    BY ONLY <2>1, ListsAre
  <2>3. DeclStands(c, w)
    BY ONLY <1>3, <1>8, <2>2, AllNothing DEF DeclStands
  <2> QED BY <1>1, <1>2, <2>3 DEF Stands, StatementStands
<1> QED BY <1>4, <1>5, <1>6, <1>7, <1>8 DEF Callables

(* What a function gives that is called.                                   *)
LEMMA BeginsGives ==
    ASSUME NEW c, NEW x \in Callables, NEW f, NEW w, Begins(c, x, f, w)
    PROVE  /\ x = "expression" => Gives(c, w) = 1
           /\ x = "assignment" => Gives(c, w) = 2
           /\ x = "conditional" => Gives(c, w) = 3
           /\ x = "binary" => Gives(c, w) = 3 + Lowest(c.min) /\ Stop(c, w) = Lowest(c.min)
           /\ x = "unary" => Gives(c, w) = 14 /\ Stop(c, w) = 11
           /\ x \in {"primary", "variable"} => Gives(c, w) = 16
           /\ x \in {"statement", "COMPOUND"} => Gives(c, w) = 0
           /\ x = "binary" /\ f.kind = "BINARY" => Lowest(c.min) = OperatorOf(f, w) + 1
           /\ x = "binary" /\ f.kind # "BINARY" => Lowest(c.min) = 1
<1>1. c.kind = x /\ c.min = IF f.kind = "BINARY" THEN OperatorOf(f, w) + 1 ELSE 0
  BY DEF Begins
<1>2. OperatorOf(f, w) \in 0 .. 10
  BY PrecedenceRange DEF OperatorOf
<1> QED BY ONLY <1>1, <1>2 DEF Gives, Stop, Lowest, LevelOf

LEMMA CallAwaits ==
    ASSUME NEW f, NEW d, NEW c, NEW x \in Callables, NEW w, Stands(f, w), f.min \in 0 .. 11,
           f.todo # Nothing, Foremost(f.todo) = Call(x), Begins(c, x, f, w),
           Alike(f, d), d.todo = Rest(f.todo)
    PROVE  Awaits(d, c, w)
<1>0. d.kind = f.kind /\ d.kids = f.kids /\ d.at = f.at /\ d.min = f.min
  BY DEF Alike
<1>9. OperatorOf(d, w) = OperatorOf(f, w)
  BY ONLY <1>0 DEF OperatorOf
<1>10. Lowest(f.min) \in 1 .. 11
  BY DEF Lowest
<1>1. CASE OperandCall(f, w)
  <2>1. CASE f.kind \in {"expression", "assignment", "conditional", "parens"}
    <3>1. OperandAwaits(d, c, w)
      <4> PICK l : l = Lowest(c.min)
        OBVIOUS
      <4>1. x = "binary" => Gives(c, w) = 4
        BY <2>1, BeginsGives
      <4>2. /\ x = "expression" => Gives(c, w) = 1
            /\ x = "assignment" => Gives(c, w) = 2
            /\ x = "conditional" => Gives(c, w) = 3
        BY BeginsGives
      <4> QED
        BY ONLY <1>0, <1>1, <2>1, <4>1, <4>2, Foremost(f.todo) = Call(x), d.todo = Rest(f.todo),
                f.todo # Nothing, LeftFacts, StepTags DEF OperandCall, OperandAwaits
    <3> QED BY <3>1 DEF Awaits
  <2>2. CASE f.kind = "binary"
    <3>1. d.todo = Left1(Do("operators")) /\ f.kids = Nothing /\ x = "unary"
      BY ONLY <1>1, <2>2, Foremost(f.todo) = Call(x), d.todo = Rest(f.todo),
              f.todo # Nothing, LeftFacts, StepTags DEF OperandCall
    <3>2. Gives(c, w) = 14 /\ Stop(c, w) = 11
      BY <3>1, BeginsGives
    <3>3. OperandAwaits(d, c, w)
      BY ONLY <1>0, <1>10, <2>2, <3>1, <3>2 DEF OperandAwaits
    <3> QED BY <3>3 DEF Awaits
  <2>3. CASE f.kind = "postfix"
    <3>1. d.todo = Left1(Do("suffixes")) /\ f.kids = Nothing /\ x = "primary"
      BY ONLY <1>1, <2>3, Foremost(f.todo) = Call(x), d.todo = Rest(f.todo),
              f.todo # Nothing, LeftFacts, StepTags DEF OperandCall
    <3>2. Gives(c, w) = 16
      BY <3>1, BeginsGives
    <3>3. OperandAwaits(d, c, w)
      BY ONLY <1>0, <2>3, <3>1, <3>2 DEF OperandAwaits
    <3> QED BY <3>3 DEF Awaits
  <2>4. CASE f.kind \in {"unary", "primary"}
    BY ONLY <1>1, <2>4, Foremost(f.todo) = Call(x), f.todo # Nothing, LeftFacts, StepTags
       DEF OperandCall
  <2> QED BY ONLY <1>1, <2>1, <2>2, <2>3, <2>4 DEF OperandCall
<1>2. CASE OperandNode(f, w)
  <2>1. CASE f.kind = "BINARY"
    <3>1. d.todo = Nothing /\ x = "binary" /\ OperatorOf(f, w) >= 1
            /\ One(f.kids, w, 3 + OperatorOf(f, w))
      BY ONLY <1>2, <2>1, Foremost(f.todo) = Call(x), d.todo = Rest(f.todo),
              f.todo # Nothing, LeftFacts, StepTags DEF OperandNode
    <3>2. /\ Gives(c, w) = 4 + OperatorOf(f, w) /\ Stop(c, w) = OperatorOf(f, w) + 1
          /\ OperatorOf(f, w) \in 0 .. 10
      <4>1. OperatorOf(f, w) \in 0 .. 10
        BY PrecedenceRange DEF OperatorOf
      <4>2. Lowest(c.min) = OperatorOf(f, w) + 1
        BY <2>1, <3>1, BeginsGives
      <4>3. Gives(c, w) = 3 + Lowest(c.min) /\ Stop(c, w) = Lowest(c.min)
        BY <3>1, BeginsGives
      <4> QED BY ONLY <4>1, <4>2, <4>3
    <3>3. OperandAwaits(d, c, w)
      BY ONLY <1>0, <1>9, <2>1, <3>1, <3>2 DEF OperandAwaits
    <3> QED BY <3>3 DEF Awaits
  <2>2. CASE f.kind \in {"UNARY", "SIZEOF"}
    <3>1. /\ f.kids = Nothing
          /\ \/ d.todo = Nothing /\ x = "unary"
             \/ f.kind = "SIZEOF" /\ d.todo = Left1(Token(")")) /\ x = "expression" /\ w.at > f.at + 1
      BY ONLY <1>2, <2>2, Foremost(f.todo) = Call(x), d.todo = Rest(f.todo),
              f.todo # Nothing, LeftFacts, StepTags DEF OperandNode
    <3>2. (x = "unary" => Gives(c, w) = 14) /\ (x = "expression" => Gives(c, w) = 1) /\ c.from = w.at
      BY BeginsGives DEF Begins
    <3>3. OperandAwaits(d, c, w)
      BY ONLY <1>0, <2>2, <3>1, <3>2 DEF OperandAwaits
    <3> QED BY <3>3 DEF Awaits
  <2>3. CASE f.kind \in {"COMMA_EXPR", "ASSIGN", "CONDITIONAL"}
    <3>1. /\ x = "expression" => Gives(c, w) = 1
          /\ x = "assignment" => Gives(c, w) = 2
          /\ x = "conditional" => Gives(c, w) = 3
      BY BeginsGives
    <3>2. OperandAwaits(d, c, w)
      BY ONLY <1>0, <1>2, <2>3, <3>1, Foremost(f.todo) = Call(x), d.todo = Rest(f.todo),
              f.todo # Nothing, LeftFacts, StepTags DEF OperandNode, OperandAwaits
    <3> QED BY <3>2 DEF Awaits
  <2>4. CASE f.kind \in {"INDEX", "CALL"}
    <3>1. /\ x = "expression" => Gives(c, w) = 1
          /\ x = "assignment" => Gives(c, w) = 2
      BY BeginsGives
    <3>3. f.kind = "INDEX" => One(f.kids, w, 15) /\ d.todo = Left1(Token("]")) /\ x = "expression"
      BY ONLY <1>2, <2>4, Foremost(f.todo) = Call(x), d.todo = Rest(f.todo),
              f.todo # Nothing, LeftFacts, StepTags DEF OperandNode
    <3>4. f.kind = "CALL" => /\ First(f.kids, w, 15) /\ d.todo = Left2(Again(Comma, "assignment"), Token(")"))
                             /\ x = "assignment"
      BY ONLY <1>2, <2>4, Foremost(f.todo) = Call(x), d.todo = Rest(f.todo),
              f.todo # Nothing, LeftFacts, StepTags DEF OperandNode
    <3>2. OperandAwaits(d, c, w)
      BY ONLY <1>0, <2>4, <3>1, <3>3, <3>4 DEF OperandAwaits
    <3> QED BY <3>2 DEF Awaits
  <2>5. CASE f.kind \in {"MEMBER", "POSTFIX", "INT_LIT", "FLOAT_LIT", "CHAR_LIT", "STR_LIT"}
    BY ONLY <1>2, <2>5, Foremost(f.todo) = Call(x), f.todo # Nothing, LeftFacts, StepTags
       DEF OperandNode
  <2> QED BY ONLY <1>2, <2>1, <2>2, <2>3, <2>4, <2>5 DEF OperandNode
<1>3. CASE f.kind \in DeclaratorKinds /\ DeclaratorStands(f, w)
  <2>1. ~Naming(f) /\ f.todo # Left3(Do("stars"), Do("dims"), Initializer) /\ ~Parametric(f, w)
    BY ONLY Foremost(f.todo) = Call(x), LeftFacts, StepTags DEF Naming, Initializer, Parametric
  <2>2. CASE Dimension(f, w)
    <3>0. \A r \in AfterDims : Word(r) \in {"params", "if"}
      BY ONLY StepTags DEF AfterDims
    <3>1. PICK r \in AfterDims, j \in 1 .. w.at :
              f.todo = Left5(Call("primary"), Token("]"), ArrayOf(j), Do("dims"), r)
      BY ONLY <2>2, <3>0, Foremost(f.todo) = Call(x), LeftFacts, StepTags DEF Dimension
    <3>2. d.todo = Left4(Token("]"), ArrayOf(j), Do("dims"), r) /\ x = "primary"
      BY ONLY <3>1, d.todo = Rest(f.todo), Foremost(f.todo) = Call(x), LeftFacts, StepTags
    <3>3. Gives(c, w) >= 0
      BY <3>2, BeginsGives
    <3>4. DeclaratorAwaits(d, c, w)
      BY ONLY <1>0, <1>3, <2>1, <3>2, <3>3, r \in AfterDims, j \in 1 .. w.at DEF DeclaratorAwaits,
              DeclaratorStands
    <3> QED BY <1>0, <1>3, <3>4 DEF Awaits
  <2>3. CASE f.todo = Left1(Call("assignment"))
    <3>1. d.todo = Nothing /\ f.kind # "variable"
      BY ONLY <1>3, <2>1, <2>3, d.todo = Rest(f.todo), LeftFacts DEF DeclaratorStands
    <3> QED BY <1>0, <1>3, <3>1 DEF Awaits, DeclaratorAwaits
  <2> QED BY <1>3, <2>1, <2>2, <2>3 DEF DeclaratorStands
<1>4. CASE DeclStands(f, w)
  <2>1. StatementAwaits(d, c, w)
    BY ONLY <1>0, <1>4, Foremost(f.todo) = Call(x), d.todo = Rest(f.todo), f.todo # Nothing,
            LeftFacts, StepTags
       DEF DeclStands, Others, Semi, StatementAwaits
  <2> QED BY <2>1 DEF Awaits
<1>5. CASE VarDeclStands(f, w)
  <2>1. \/ d.todo = Left3(Call("variable"), OtherVariables, Semi) /\ x = "specifiers"
        \/ d.todo = Left2(OtherVariables, Semi) /\ x = "variable"
    BY ONLY <1>5, Foremost(f.todo) = Call(x), d.todo = Rest(f.todo), f.todo # Nothing, LeftFacts,
            StepTags
       DEF VarDeclStands, OtherVariables, Semi
  <2>2. c.kind = x /\ (x = "variable" => Gives(c, w) = 16)
    BY BeginsGives DEF Begins
  <2>3. StatementAwaits(d, c, w)
    BY ONLY <1>0, <1>5, <2>1, <2>2 DEF StatementAwaits, VarDeclStands
  <2> QED BY <2>3 DEF Awaits
<1>6. CASE IfStands(f, w)
  <2>1. /\ f.kind = "IF" /\ x \in {"expression", "statement"}
        /\ \/ d.todo = Left3(Token(")"), Call("statement"), Else) /\ f.kids = Nothing
           \/ d.todo = Left1(Else) /\ Len(f.kids) = 1
           \/ d.todo = Nothing /\ Len(f.kids) = 2
    BY ONLY <1>6, Foremost(f.todo) = Call(x), d.todo = Rest(f.todo), f.todo # Nothing, LeftFacts,
            StepTags
       DEF IfStands, Else
  <2>2. Gives(c, w) >= 0
    BY <2>1, BeginsGives
  <2>3. StatementAwaits(d, c, w)
    BY ONLY <1>0, <2>1, <2>2 DEF StatementAwaits
  <2> QED BY <2>3 DEF Awaits
<1>7. CASE f.kind \in Simple /\ f.todo \in Seq(PlainStep)
  <2>1. Rest(f.todo) \in Seq(PlainStep)
    BY ONLY <1>7, f.todo # Nothing DEF Rest, Nothing
  <2> QED BY <1>0, <1>7, <2>1 DEF Awaits, StatementAwaits
<1>8. CASE /\ f.kind = "FUNC_DEF" /\ f.kids # Nothing /\ f.kids[1] \in w.derived
           /\ f.todo = Left1(Call("COMPOUND")) \/ f.todo = Nothing
  <2>1. d.todo = Nothing
    BY ONLY <1>8, f.todo # Nothing, d.todo = Rest(f.todo), LeftFacts
  <2> QED BY <1>0, <1>8, <2>1 DEF Awaits, StatementAwaits
<1>11. CASE f.todo \in {Left1(Do("words")), Left1(Do("statement"))}
  BY ONLY <1>11, Foremost(f.todo) = Call(x), LeftFacts, StepTags
<1> QED BY <1>1, <1>2, <1>3, <1>4, <1>5, <1>6, <1>7, <1>8, <1>11 DEF Stands, StatementStands

(* What can be called is a function of the parser.                         *)
LEMMA CallsKnown ==
    ASSUME NEW f, NEW w, Stands(f, w), f.todo # Nothing, Word(Foremost(f.todo)) = "call"
    PROVE  \E x \in Callables : Foremost(f.todo) = Call(x)
<1>1. CASE OperandCall(f, w)
  BY ONLY <1>1, Word(Foremost(f.todo)) = "call", f.todo # Nothing, LeftFacts, StepTags
     DEF OperandCall, Callables
<1>2. CASE OperandNode(f, w)
  BY ONLY <1>2, Word(Foremost(f.todo)) = "call", f.todo # Nothing, LeftFacts, StepTags
     DEF OperandNode, Callables
<1>3. CASE DeclaratorStands(f, w)
  <2>0. \A r \in AfterDims : Word(r) \in {"params", "if"}
    BY ONLY StepTags DEF AfterDims
  <2> QED
    BY ONLY <1>3, <2>0, Word(Foremost(f.todo)) = "call", f.todo # Nothing, LeftFacts, StepTags
       DEF DeclaratorStands, Naming, Dimension, Parametric, Callables
<1>4. CASE DeclStands(f, w) \/ VarDeclStands(f, w) \/ IfStands(f, w)
  BY ONLY <1>4, Word(Foremost(f.todo)) = "call", f.todo # Nothing, LeftFacts, StepTags
     DEF DeclStands, VarDeclStands, IfStands, Others, OtherVariables, Semi, Else, Callables
<1>5. CASE f.todo \in Seq(PlainStep)
  <2>1. Foremost(f.todo) \in PlainStep
    BY ONLY <1>5, f.todo # Nothing DEF Foremost, Nothing
  <2> QED
    BY ONLY <2>1, Word(Foremost(f.todo)) = "call", StepTags DEF PlainStep, Callables
<1>6. CASE f.todo \in {Left1(Do("words")), Left1(Do("statement")), Left1(Call("COMPOUND"))}
  BY ONLY <1>6, Word(Foremost(f.todo)) = "call", LeftFacts, StepTags DEF Callables
<1> QED BY <1>1, <1>2, <1>3, <1>4, <1>5, <1>6, f.todo # Nothing DEF Stands, StatementStands

(* What goes on as the same call keeps what others expect of it.           *)
LEMMA AlikeKeeps ==
    ASSUME NEW f, NEW g, NEW w, NEW v, Reads(w, v), w.at \in Nat, f.at \in 1 .. w.at, f.min \in Nat,
           g.kind = f.kind, g.at = f.at, g.min = f.min, g.from = f.from
    PROVE  Keeps(f, g, w, v)
<1>1. OperatorOf(f, v) = OperatorOf(f, w)
  BY OperatorStays
<1>2. OperatorOf(g, v) = OperatorOf(f, v)
  BY DEF OperatorOf
<1>3. Gives(g, v) = Gives(f, w) /\ Stop(g, v) = Stop(f, w)
  BY ONLY <1>1, <1>2, g.kind = f.kind, g.min = f.min DEF Gives, Stop
<1> QED BY <1>3, GivesRange DEF Keeps

LEMMA AlikeRooted ==
    ASSUME NEW f, NEW g, NEW w, NEW v, Moves(w, v), Rooted(f, w), Alike(f, g)
    PROVE  Rooted(g, v)
  BY KidsMove DEF Rooted, Alike

(* It looks for the token of an if or of a loop.                           *)
Looks(f) == f.todo # Nothing /\ Word(Foremost(f.todo)) \in {"if", "again"}

LEMMA LooksCases ==
    ASSUME NEW f, NEW w, Stands(f, w), Looks(f)
    PROVE  \/ /\ f.kind \in DeclaratorKinds \ {"variable"} /\ f.todo = Left1(Initializer)
           \/ f.kind = "IF" /\ f.todo = Left1(Else) /\ Len(f.kids) = 2
           \/ /\ f.kind = "CALL" /\ First(f.kids, w, 15)
              /\ f.todo = Left2(Again(Comma, "assignment"), Token(")"))
           \/ f.kind = "DECL" /\ f.todo = Left2(Others, Semi) /\ All(f.kids, w, 0)
           \/ /\ f.kind = "var_decl" /\ f.todo = Left2(OtherVariables, Semi)
              /\ All(f.kids, w, 14) /\ f.kids # Nothing
<1>0. f.todo # Nothing /\ Word(Foremost(f.todo)) \in {"if", "again"}
  BY DEF Looks
<1>1. CASE OperandCall(f, w)
  BY ONLY <1>0, <1>1, LeftFacts, StepTags DEF OperandCall
<1>2. CASE OperandNode(f, w)
  BY ONLY <1>0, <1>2, LeftFacts, StepTags DEF OperandNode
<1>3. CASE f.kind \in DeclaratorKinds /\ DeclaratorStands(f, w)
  <2>1. ~Naming(f) /\ ~Parametric(f, w) /\ f.todo # Left3(Do("stars"), Do("dims"), Initializer)
        /\ f.todo # Left1(Call("assignment"))
    BY ONLY <1>0, LeftFacts, StepTags DEF Naming, Parametric
  <2>2. PICK r \in AfterDims : f.todo = Left1(r)
    BY ONLY <1>0, <1>3, <2>1, LeftFacts, StepTags DEF DeclaratorStands, Dimension
  <2>3. r = Initializer
    BY ONLY <1>0, <2>2, LeftFacts, StepTags DEF AfterDims, Initializer
  <2> QED BY ONLY <1>0, <1>3, <2>1, <2>2, <2>3 DEF DeclaratorStands
<1>4. CASE DeclStands(f, w) \/ VarDeclStands(f, w) \/ IfStands(f, w)
  BY ONLY <1>0, <1>4, LeftFacts, StepTags
     DEF DeclStands, VarDeclStands, IfStands, Others, OtherVariables, Semi, Else
<1>5. CASE f.todo \in Seq(PlainStep)
  <2>1. Foremost(f.todo) \in PlainStep
    BY ONLY <1>0, <1>5 DEF Foremost, Nothing
  <2>2. Word(Foremost(f.todo)) \notin {"if", "again"}
    BY ONLY <2>1, PlainCalls
  <2> QED BY ONLY <1>0, <2>2
<1>6. CASE f.todo \in {Left1(Do("words")), Left1(Do("statement")), Left1(Call("COMPOUND"))}
  BY ONLY <1>0, <1>6, LeftFacts, StepTags
<1> QED BY <1>0, <1>1, <1>2, <1>3, <1>4, <1>5, <1>6 DEF Stands, StatementStands

(* The token is there: the call is made; the loop stays.                   *)
LEMMA MatchFound ==
    ASSUME NEW f, NEW g, NEW w, NEW v, Moves(w, v), Stands(f, w), Looks(f), Alike(f, g),
           LET s == Foremost(f.todo) IN
               g.todo = IF Word(s) = "again" THEN Onto(Call(Callee(s)), Onto(s, Rest(f.todo)))
                        ELSE Onto(Call(Callee(s)), Rest(f.todo))
    PROVE  Stands(g, v)
<1> PICK s : s = Foremost(f.todo)
  OBVIOUS
<1>0. /\ g.kind = f.kind /\ g.kids = f.kids
      /\ g.todo = IF Word(s) = "again" THEN Onto(Call(Callee(s)), Onto(s, Rest(f.todo)))
                  ELSE Onto(Call(Callee(s)), Rest(f.todo))
  BY DEF Alike
<1>1. /\ First(f.kids, w, 15) => First(g.kids, v, 15)
      /\ All(f.kids, w, 0) => All(g.kids, v, 0)
      /\ All(f.kids, w, 14) => All(g.kids, v, 14)
  BY <1>0, KidsMove
<1>2. \A a, b, c : /\ Onto(a, Nothing) = Left1(a)
                   /\ Onto(a, Onto(b, Left1(c))) = Left3(a, b, c)
  BY Zenon DEF Left1, Left3, Nothing
<1>3. CASE f.kind \in DeclaratorKinds \ {"variable"} /\ f.todo = Left1(Initializer)
  <2>1. g.todo = Left1(Call("assignment"))
    BY ONLY <1>0, <1>2, <1>3, s = Foremost(f.todo), LeftFacts, StepTags DEF Initializer
  <2> QED BY ONLY <1>0, <1>3, <2>1 DEF Stands, DeclaratorStands
<1>4. CASE f.kind = "IF" /\ f.todo = Left1(Else) /\ Len(f.kids) = 2
  <2>1. g.todo = Left1(Call("statement"))
    BY ONLY <1>0, <1>2, <1>4, s = Foremost(f.todo), LeftFacts, StepTags DEF Else
  <2> QED BY ONLY <1>0, <1>4, <2>1 DEF Stands, StatementStands, IfStands
<1>5. CASE f.kind = "CALL" /\ First(f.kids, w, 15)
        /\ f.todo = Left2(Again(Comma, "assignment"), Token(")"))
  <2>1. g.todo = Left3(Call("assignment"), Again(Comma, "assignment"), Token(")"))
    BY ONLY <1>0, <1>2, <1>5, s = Foremost(f.todo), LeftFacts, StepTags
  <2> QED BY ONLY <1>0, <1>1, <1>5, <2>1 DEF Stands, OperandNode
<1>6. CASE f.kind = "DECL" /\ f.todo = Left2(Others, Semi) /\ All(f.kids, w, 0)
  <2>1. g.todo = Left3(Call("declarator"), Others, Semi)
    BY ONLY <1>0, <1>2, <1>6, s = Foremost(f.todo), LeftFacts, StepTags DEF Others
  <2> QED BY ONLY <1>0, <1>1, <1>6, <2>1 DEF Stands, StatementStands, DeclStands
<1>7. CASE /\ f.kind = "var_decl" /\ f.todo = Left2(OtherVariables, Semi)
           /\ All(f.kids, w, 14) /\ f.kids # Nothing
  <2>1. g.todo = Left3(Call("variable"), OtherVariables, Semi)
    BY ONLY <1>0, <1>2, <1>7, s = Foremost(f.todo), LeftFacts, StepTags DEF OtherVariables
  <2> QED BY ONLY <1>0, <1>1, <1>7, <2>1 DEF Stands, StatementStands, VarDeclStands
<1> QED BY <1>3, <1>4, <1>5, <1>6, <1>7, LooksCases

(* It is not there: NULL is taken for the kid, or the loop is left.        *)
LEMMA MatchMissing ==
    ASSUME NEW f, NEW g, NEW w, Stands(f, w), Looks(f), NEW S, f.kids \in Seq(S),
           w.kind[w.at] # Target(Foremost(f.todo)),
           g.kind = f.kind, g.todo = Rest(f.todo),
           g.kids = IF Word(Foremost(f.todo)) = "if" THEN Append(f.kids, 0) ELSE f.kids
    PROVE  /\ Stands(g, w)
           /\ g.kids # f.kids => Word(Foremost(f.todo)) = "if" /\ f.kind \notin OperandKinds
<1> PICK s : s = Foremost(f.todo)
  OBVIOUS
<1>0. /\ g.kind = f.kind /\ g.todo = Rest(f.todo) /\ w.kind[w.at] # Target(s)
      /\ g.kids = IF Word(s) = "if" THEN Append(f.kids, 0) ELSE f.kids
  OBVIOUS
<1>3. CASE f.kind \in DeclaratorKinds \ {"variable"} /\ f.todo = Left1(Initializer)
  <2>1. g.todo = Nothing /\ Word(s) = "if"
    BY ONLY <1>0, <1>3, s = Foremost(f.todo), LeftFacts, StepTags DEF Initializer
  <2> QED BY ONLY <1>0, <1>3, <2>1, s = Foremost(f.todo) DEF Stands, DeclaratorStands,
                  DeclaratorKinds, OperandKinds
<1>4. CASE f.kind = "IF" /\ f.todo = Left1(Else) /\ Len(f.kids) = 2
  <2>1. g.todo = Nothing /\ Word(s) = "if" /\ Target(s) = "else"
    BY ONLY <1>0, <1>4, s = Foremost(f.todo), LeftFacts, StepTags DEF Else
  <2>2. Len(g.kids) = 3
    <3> PICK T : T = S \cup {0}
      OBVIOUS
    <3> PICK k : k = f.kids
      OBVIOUS
    <3>1. k \in Seq(T) /\ 0 \in T
      OBVIOUS
    <3>2. Len(Append(k, 0)) = Len(k) + 1
      BY ONLY <3>1, AppendProperties
    <3>3. g.kids = Append(k, 0) /\ Len(k) = 2
      BY ONLY <1>0, <1>4, <2>1, k = f.kids
    <3> QED BY ONLY <3>2, <3>3
  <2> QED BY ONLY <1>0, <1>4, <2>1, <2>2, s = Foremost(f.todo) DEF Stands, StatementStands,
                  IfStands, OperandKinds
<1>5. CASE f.kind = "CALL" /\ First(f.kids, w, 15)
        /\ f.todo = Left2(Again(Comma, "assignment"), Token(")"))
  <2>1. g.todo = Left1(Token(")")) /\ Word(s) = "again"
    BY ONLY <1>0, <1>5, s = Foremost(f.todo), LeftFacts, StepTags
  <2> QED BY ONLY <1>0, <1>5, <2>1, s = Foremost(f.todo) DEF Stands, OperandNode
<1>6. CASE f.kind = "DECL" /\ f.todo = Left2(Others, Semi) /\ All(f.kids, w, 0)
  <2>1. g.todo = Left1(Semi) /\ Word(s) = "again"
    BY ONLY <1>0, <1>6, s = Foremost(f.todo), LeftFacts, StepTags DEF Others
  <2> QED BY ONLY <1>0, <1>6, <2>1, s = Foremost(f.todo) DEF Stands, StatementStands, DeclStands
<1>7. CASE /\ f.kind = "var_decl" /\ f.todo = Left2(OtherVariables, Semi)
           /\ All(f.kids, w, 14) /\ f.kids # Nothing
  <2>1. g.todo = Left1(Semi) /\ Word(s) = "again"
    BY ONLY <1>0, <1>7, s = Foremost(f.todo), LeftFacts, StepTags DEF OtherVariables
  <2> QED BY ONLY <1>0, <1>7, <2>1, s = Foremost(f.todo) DEF Stands, StatementStands, VarDeclStands
<1> QED BY <1>3, <1>4, <1>5, <1>6, <1>7, LooksCases

-----------------------------------------------------------------------------
(* unless and until.                                                       *)

Checks(f) == f.todo # Nothing /\ Word(Foremost(f.todo)) \in {"unless", "until"}

LEMMA ChecksCases ==
    ASSUME NEW f, NEW w, Stands(f, w), Checks(f)
    PROVE  \/ /\ f.kind \in DeclaratorKinds \ {"variable"}
              /\ \E r \in AfterDims, k \in 1 .. w.at :
                    f.todo = Left5(Unless("]", "primary"), Token("]"), ArrayOf(k), Do("dims"), r)
           \/ f.kind \in Simple /\ f.todo \in Seq(PlainStep) /\ Foremost(f.todo) \in PlainStep
<1>0. f.todo # Nothing /\ Word(Foremost(f.todo)) \in {"unless", "until"}
  BY DEF Checks
<1>1. CASE OperandCall(f, w)
  BY ONLY <1>0, <1>1, LeftFacts, StepTags DEF OperandCall
<1>2. CASE OperandNode(f, w)
  BY ONLY <1>0, <1>2, LeftFacts, StepTags DEF OperandNode
<1>3. CASE f.kind \in DeclaratorKinds /\ DeclaratorStands(f, w)
  <2>0. \A r \in AfterDims : Word(r) \in {"params", "if"}
    BY ONLY StepTags DEF AfterDims
  <2>1. ~Naming(f) /\ ~Parametric(f, w) /\ f.todo # Left3(Do("stars"), Do("dims"), Initializer)
        /\ f.todo # Left1(Call("assignment"))
    BY ONLY <1>0, LeftFacts, StepTags DEF Naming, Parametric
  <2>2. \E r \in AfterDims, k \in 1 .. w.at :
            f.todo = Left5(Unless("]", "primary"), Token("]"), ArrayOf(k), Do("dims"), r)
    BY ONLY <1>0, <1>3, <2>0, <2>1, LeftFacts, StepTags DEF DeclaratorStands, Dimension
  <2> QED BY ONLY <1>0, <1>3, <2>1, <2>2 DEF DeclaratorStands
<1>4. CASE DeclStands(f, w) \/ VarDeclStands(f, w) \/ IfStands(f, w)
  BY ONLY <1>0, <1>4, LeftFacts, StepTags
     DEF DeclStands, VarDeclStands, IfStands, Others, OtherVariables, Semi, Else
<1>5. CASE f.kind \in Simple /\ f.todo \in Seq(PlainStep)
  <2>1. Foremost(f.todo) \in PlainStep
    BY ONLY <1>0, <1>5 DEF Foremost, Nothing
  <2> QED BY ONLY <1>5, <2>1
<1>6. CASE f.todo \in {Left1(Do("words")), Left1(Do("statement")), Left1(Call("COMPOUND"))}
  BY ONLY <1>0, <1>6, LeftFacts, StepTags
<1> QED BY <1>0, <1>1, <1>2, <1>3, <1>4, <1>5, <1>6 DEF Stands, StatementStands

(* The token of unless is there: NULL is the kid.                          *)
LEMMA CheckFound ==
    ASSUME NEW f, NEW g, NEW w, Stands(f, w), Checks(f), NEW S, f.kids \in Seq(S),
           Word(Foremost(f.todo)) = "unless",
           g.kind = f.kind, g.todo = Rest(f.todo), g.kids = Append(f.kids, 0)
    PROVE  Stands(g, w) /\ Rooted(g, w)
<1>1. CASE /\ f.kind \in DeclaratorKinds \ {"variable"}
           /\ \E r \in AfterDims, k \in 1 .. w.at :
                    f.todo = Left5(Unless("]", "primary"), Token("]"), ArrayOf(k), Do("dims"), r)
  <2> PICK r \in AfterDims, k \in 1 .. w.at :
              f.todo = Left5(Unless("]", "primary"), Token("]"), ArrayOf(k), Do("dims"), r)
    BY <1>1
  <2>1. g.todo = Left4(Token("]"), ArrayOf(k), Do("dims"), r)
    BY LeftFacts
  <2>2. g.kids # Nothing
    <3>1. f.kids \in Seq(S \cup {0}) /\ 0 \in S \cup {0}
      OBVIOUS
    <3>2. Grows(g.kids, f.kids, 0, w)
      BY ONLY <3>1, g.kids = Append(f.kids, 0), KidsGrow
    <3> QED BY ONLY <3>2 DEF Grows
  <2>3. Dimension(g, w)
    BY ONLY <2>1, <2>2, r \in AfterDims, k \in 1 .. w.at DEF Dimension
  <2>4. g.kind \in DeclaratorKinds \ {"variable"}
    BY <1>1
  <2> QED BY ONLY <2>3, <2>4 DEF Stands, DeclaratorStands, Rooted, DeclaratorKinds, OperandKinds
<1>2. CASE f.kind \in Simple /\ f.todo \in Seq(PlainStep)
  <2>1. Rest(f.todo) \in Seq(PlainStep)
    BY ONLY <1>2, Checks(f) DEF Rest, Nothing, Checks
  <2>2. g.kind \in Simple /\ g.todo \in Seq(PlainStep)
    BY <1>2, <2>1
  <2> QED BY ONLY <2>2 DEF Stands, StatementStands, Rooted, Simple, OperandKinds
<1> QED BY <1>1, <1>2, ChecksCases

(* It is not: the function is called.                                      *)
LEMMA CheckMissing ==
    ASSUME NEW f, NEW g, NEW w, Stands(f, w), Checks(f), Word(Foremost(f.todo)) = "unless",
           Alike(f, g), g.todo = Onto(Call(Callee(Foremost(f.todo))), Rest(f.todo))
    PROVE  Stands(g, w)
<1> PICK s : s = Foremost(f.todo)
  OBVIOUS
<1>0. g.kind = f.kind /\ g.kids = f.kids /\ g.todo = Onto(Call(Callee(s)), Rest(f.todo))
  BY DEF Alike
<1>1. CASE /\ f.kind \in DeclaratorKinds \ {"variable"}
           /\ \E r \in AfterDims, k \in 1 .. w.at :
                    f.todo = Left5(Unless("]", "primary"), Token("]"), ArrayOf(k), Do("dims"), r)
  <2> PICK r \in AfterDims, k \in 1 .. w.at :
              f.todo = Left5(Unless("]", "primary"), Token("]"), ArrayOf(k), Do("dims"), r)
    BY <1>1
  <2>1. Callee(s) = "primary" /\ Rest(f.todo) = Left4(Token("]"), ArrayOf(k), Do("dims"), r)
    BY ONLY LeftFacts, StepTags, s = Foremost(f.todo),
            f.todo = Left5(Unless("]", "primary"), Token("]"), ArrayOf(k), Do("dims"), r)
  <2>2. \A a, b, c, d, e : Onto(a, Left4(b, c, d, e)) = Left5(a, b, c, d, e)
    BY Zenon DEF Left4, Left5
  <2>3. g.todo = Left5(Call("primary"), Token("]"), ArrayOf(k), Do("dims"), r)
    BY ONLY <1>0, <2>1, <2>2
  <2>4. Dimension(g, w)
    BY ONLY <2>3, r \in AfterDims, k \in 1 .. w.at DEF Dimension
  <2>5. g.kind \in DeclaratorKinds \ {"variable"}
    BY <1>0, <1>1
  <2> QED BY ONLY <2>4, <2>5 DEF Stands, DeclaratorStands
<1>2. CASE f.kind \in Simple /\ f.todo \in Seq(PlainStep) /\ s \in PlainStep
  <2>1. Rest(f.todo) \in Seq(PlainStep)
    BY ONLY <1>2, Checks(f) DEF Rest, Nothing, Checks
  <2>2. Callee(s) = "expression"
    BY <1>2, PlainCalls
  <2>3. Call(Callee(s)) \in PlainStep
    BY <2>2, Zenon DEF PlainStep
  <2>4. g.todo \in Seq(PlainStep)
    <3>1. ASSUME NEW a, NEW t, a \in PlainStep, t \in Seq(PlainStep)
            PROVE Onto(a, t) \in Seq(PlainStep)
      <4>1. <<a>> \in Seq(PlainStep)
        BY <3>1
      <4> QED BY ONLY <3>1, <4>1, ConcatProperties DEF Onto
    <3> QED BY ONLY <1>0, <2>1, <2>3, <3>1
  <2>5. g.kind \in Simple
    BY <1>0, <1>2
  <2> QED BY ONLY <2>4, <2>5 DEF Stands, StatementStands
<1> QED BY <1>1, <1>2, ChecksCases

(* until: its token is there, and the loop is left.                        *)
LEMMA UntilLeft ==
    ASSUME NEW f, NEW g, NEW w, Stands(f, w), Checks(f), Word(Foremost(f.todo)) = "until",
           Alike(f, g), g.todo = Rest(f.todo)
    PROVE  Stands(g, w)
<1>1. f.kind \in Simple /\ f.todo \in Seq(PlainStep)
  <2>1. \A r, k : Word(Foremost(Left5(Unless("]", "primary"), Token("]"), ArrayOf(k), Do("dims"),
            r))) = "unless"
    BY ONLY LeftFacts, StepTags
  <2> QED BY <2>1, ChecksCases
<1>2. Rest(f.todo) \in Seq(PlainStep)
  BY ONLY <1>1, Checks(f) DEF Rest, Nothing, Checks
<1> QED BY <1>1, <1>2 DEF Stands, StatementStands, Alike

LEMMA UntilCalls ==
    ASSUME NEW f, NEW c, NEW w, Stands(f, w), Checks(f), Word(Foremost(f.todo)) = "until"
    PROVE  Callee(Foremost(f.todo)) \in {"statement", "DECL"} /\ Awaits(f, c, w)
<1>1. f.kind \in Simple /\ f.todo \in Seq(PlainStep) /\ Foremost(f.todo) \in PlainStep
  <2>1. \A r, k : Word(Foremost(Left5(Unless("]", "primary"), Token("]"), ArrayOf(k), Do("dims"),
            r))) = "unless"
    BY ONLY LeftFacts, StepTags
  <2> QED BY <2>1, ChecksCases
<1> QED BY <1>1, PlainCalls DEF Awaits, StatementAwaits

-----------------------------------------------------------------------------
(* Where the code decides by what it sees.                                 *)

Places ==
    {"words", "semi", "body", "stars", "name", "id", "dims", "params", "list", "param", "next",
     "statement", "commas", "assigns", "asks", "operators", "unary", "sizeof", "suffixes", "args",
     "primary"}

Declaring(f) == f.kind \in DeclaratorKinds \ {"variable"}

OperandPlace(f, x, w) ==
    LET left == f.todo
        next == Precedence(w.kind[w.at])
    IN
        \/ x = "commas" /\ f.kind = "expression" /\ left = Left1(Do(x)) /\ One(f.kids, w, 1)
        \/ x = "assigns" /\ f.kind = "assignment" /\ left = Left1(Do(x)) /\ One(f.kids, w, 3)
        \/ x = "asks" /\ f.kind = "conditional" /\ left = Left1(Do(x)) /\ One(f.kids, w, 4)
        \/ /\ x = "operators" /\ f.kind = "binary" /\ left = Left1(Do(x))
           /\ One(f.kids, w, 3 + Lowest(f.min)) /\ One(f.kids, w, 3 + next)
        \/ x = "unary" /\ f.kind = "unary" /\ left = Left1(Do(x)) /\ f.kids = Nothing
        \/ x = "suffixes" /\ f.kind = "postfix" /\ left = Left1(Do(x)) /\ One(f.kids, w, 15)
        \/ x = "primary" /\ f.kind = "primary" /\ left = Left1(Do(x)) /\ f.kids = Nothing
        \/ x = "sizeof" /\ f.kind = "SIZEOF" /\ left = Left1(Do(x)) /\ f.kids = Nothing /\ w.at > f.at
        \/ x = "args" /\ f.kind = "CALL" /\ left = Left2(Do(x), Token(")")) /\ First(f.kids, w, 15)

DeclaratorPlace(f, x, w) ==
    \/ x = "id" /\ f.kind = "variable" /\ f.todo = Left4(Do(x), Do("stars"), Do("dims"), Initializer)
    \/ x = "stars" /\ f.kind = "declarator"
         /\ f.todo = Left4(Do(x), Do("name"), Do("dims"), Do("params"))
    \/ x = "name" /\ f.kind = "declarator" /\ f.todo = Left3(Do(x), Do("dims"), Do("params"))
    \/ /\ Declaring(f)
       /\ \/ x = "stars" /\ f.todo = Left3(Do(x), Do("dims"), Initializer)
          \/ x = "dims" /\ \E r \in AfterDims : f.todo = Left2(Do(x), r)
          \/ x = "params" /\ f.todo = Left1(Do(x))
          \/ x \in {"list", "param", "next"}
               /\ \E k \in 1 .. w.at : f.todo = Left3(Do(x), Token(")"), FuncOf(k))

StatementPlace(f, x, w) ==
    \/ x = "words" /\ f.kind = "specifiers" /\ f.todo = Left1(Do(x))
    \/ /\ f.kind = "DECL" /\ All(f.kids, w, 0)
       /\ \/ x = "semi" /\ f.todo = Left5(Do(x), Call("declarator"), Do("body"), Others, Semi)
          \/ x = "body" /\ f.todo = Left3(Do(x), Others, Semi)
    \/ x = "statement" /\ f.kind = "statement" /\ f.todo = Left1(Do(x)) /\ f.kids = Nothing

LEMMA PlaceCases ==
    ASSUME NEW f, NEW w, NEW x \in Places, Stands(f, w), f.todo # Nothing, Foremost(f.todo) = Do(x)
    PROVE  OperandPlace(f, x, w) \/ DeclaratorPlace(f, x, w) \/ StatementPlace(f, x, w)
<1>0. f.todo # Nothing /\ Foremost(f.todo) = Do(x) /\ Word(Do(x)) = x
        /\ x \notin {"expect", "call", "if", "again", "unless", "until", "array", "func"}
  BY StepTags DEF Places
<1>1. CASE OperandCall(f, w)
  <2>1. CASE f.kind \in {"expression", "assignment", "conditional", "parens"}
    BY ONLY <1>0, <1>1, <2>1, LeftFacts, StepTags DEF OperandCall, OperandPlace
  <2>2. CASE f.kind \in {"binary", "unary", "postfix", "primary"}
    BY ONLY <1>0, <1>1, <2>2, LeftFacts, StepTags DEF OperandCall, OperandPlace
  <2> QED BY ONLY <1>1, <2>1, <2>2 DEF OperandCall
<1>2. CASE OperandNode(f, w)
  BY ONLY <1>0, <1>2, LeftFacts, StepTags DEF OperandNode, OperandPlace
<1>3. CASE f.kind \in DeclaratorKinds /\ DeclaratorStands(f, w)
  <2>1. CASE Naming(f)
    BY ONLY <1>0, <2>1, LeftFacts, StepTags DEF Naming, DeclaratorPlace
  <2>2. CASE Declaring(f) /\ Parametric(f, w)
    BY ONLY <1>0, <2>2, LeftFacts, StepTags DEF Parametric, DeclaratorPlace
  <2>3. CASE Declaring(f) /\ Dimension(f, w)
    <3>1. CASE \E r \in AfterDims : f.todo = Left1(r)
      BY ONLY <1>0, <2>3, <3>1, LeftFacts, StepTags DEF AfterDims, DeclaratorPlace
    <3>2. \A r, k : /\ f.todo # Left5(Unless("]", "primary"), Token("]"), ArrayOf(k), Do("dims"), r)
                    /\ f.todo # Left5(Call("primary"), Token("]"), ArrayOf(k), Do("dims"), r)
                    /\ f.todo # Left4(Token("]"), ArrayOf(k), Do("dims"), r)
                    /\ f.todo # Left3(ArrayOf(k), Do("dims"), r)
      BY ONLY <1>0, LeftFacts, StepTags
    <3>3. CASE \E r \in AfterDims : f.todo = Left2(Do("dims"), r)
      <4> PICK r \in AfterDims : f.todo = Left2(Do("dims"), r)
        BY <3>3
      <4>1. x = "dims"
        BY ONLY <1>0, f.todo = Left2(Do("dims"), r), LeftFacts, StepTags
      <4> QED BY ONLY <2>3, <4>1, r \in AfterDims, f.todo = Left2(Do("dims"), r) DEF DeclaratorPlace
    <3> QED BY ONLY <2>3, <3>1, <3>2, <3>3 DEF Dimension
  <2>4. CASE Declaring(f)
          /\ f.todo \in {Left3(Do("stars"), Do("dims"), Initializer), Left1(Call("assignment")),
                 Nothing}
    BY ONLY <1>0, <2>4, LeftFacts, StepTags DEF DeclaratorPlace
  <2> QED BY ONLY <1>3, <2>1, <2>2, <2>3, <2>4 DEF DeclaratorStands, Declaring
<1>4. CASE DeclStands(f, w) \/ VarDeclStands(f, w) \/ IfStands(f, w)
  BY ONLY <1>0, <1>4, LeftFacts, StepTags
     DEF DeclStands, VarDeclStands, IfStands, Others, OtherVariables, Semi, Else, StatementPlace
<1>5. CASE f.kind \in Simple /\ f.todo \in Seq(PlainStep)
  <2>1. Foremost(f.todo) \in PlainStep
    BY ONLY <1>0, <1>5 DEF Foremost, Nothing
  <2>2. Word(Foremost(f.todo)) \in {"expect", "call", "unless", "until"}
    BY ONLY <2>1, PlainCalls
  <2> QED BY ONLY <1>0, <2>2
<1>6. CASE \/ f.kind = "specifiers" /\ f.todo = Left1(Do("words"))
           \/ f.kind = "statement" /\ f.todo = Left1(Do("statement")) /\ f.kids = Nothing
           \/ f.todo = Left1(Call("COMPOUND"))
  BY ONLY <1>0, <1>6, LeftFacts, StepTags DEF StatementPlace
<1> QED BY <1>0, <1>1, <1>2, <1>3, <1>4, <1>5, <1>6 DEF Stands, StatementStands

LEMMA DeriveCases ==
    ASSUME NEW f, NEW w, Stands(f, w), f.todo # Nothing, Word(Foremost(f.todo)) \in {"array",
    "func"}
    PROVE  /\ Declaring(f)
           /\ \/ \E r \in AfterDims, k \in 1 .. w.at : f.todo = Left3(ArrayOf(k), Do("dims"), r) /\ f.kids # Nothing
              \/ \E k \in 1 .. w.at : f.todo = Left1(FuncOf(k))
<1>0. f.todo # Nothing /\ Word(Foremost(f.todo)) \in {"array", "func"}
  OBVIOUS
<1>1. CASE OperandCall(f, w)
  BY ONLY <1>0, <1>1, LeftFacts, StepTags DEF OperandCall
<1>2. CASE OperandNode(f, w)
  BY ONLY <1>0, <1>2, LeftFacts, StepTags DEF OperandNode
<1>3. CASE f.kind \in DeclaratorKinds /\ DeclaratorStands(f, w)
  <2>1. CASE Naming(f)
    BY ONLY <1>0, <2>1, LeftFacts, StepTags DEF Naming
  <2>2. CASE Declaring(f) /\ Parametric(f, w)
    BY ONLY <1>0, <2>2, LeftFacts, StepTags DEF Parametric
  <2>3. CASE Declaring(f) /\ Dimension(f, w)
    <3>1. \A r \in AfterDims : f.todo # Left1(r) /\ f.todo # Left2(Do("dims"), r)
      BY ONLY <1>0, LeftFacts, StepTags DEF AfterDims
    <3>2. \A r, k : /\ f.todo # Left5(Unless("]", "primary"), Token("]"), ArrayOf(k), Do("dims"), r)
                    /\ f.todo # Left5(Call("primary"), Token("]"), ArrayOf(k), Do("dims"), r)
                    /\ f.todo # Left4(Token("]"), ArrayOf(k), Do("dims"), r)
      BY ONLY <1>0, LeftFacts, StepTags
    <3> QED BY ONLY <2>3, <3>1, <3>2 DEF Dimension
  <2>4. CASE Declaring(f)
          /\ f.todo \in {Left3(Do("stars"), Do("dims"), Initializer), Left1(Call("assignment")),
                 Nothing}
    BY ONLY <1>0, <2>4, LeftFacts, StepTags
  <2> QED BY ONLY <1>3, <2>1, <2>2, <2>3, <2>4 DEF DeclaratorStands, Declaring
<1>4. CASE DeclStands(f, w) \/ VarDeclStands(f, w) \/ IfStands(f, w)
  BY ONLY <1>0, <1>4, LeftFacts, StepTags
     DEF DeclStands, VarDeclStands, IfStands, Others, OtherVariables, Semi, Else
<1>5. CASE f.kind \in Simple /\ f.todo \in Seq(PlainStep)
  <2>1. Foremost(f.todo) \in PlainStep
    BY ONLY <1>0, <1>5 DEF Foremost, Nothing
  <2>2. Word(Foremost(f.todo)) \in {"expect", "call", "unless", "until"}
    BY ONLY <2>1, PlainCalls
  <2> QED BY ONLY <1>0, <2>2
<1>6. CASE f.todo \in {Left1(Do("words")), Left1(Do("statement")), Left1(Call("COMPOUND"))}
  BY ONLY <1>0, <1>6, LeftFacts, StepTags
<1> QED BY <1>0, <1>1, <1>2, <1>3, <1>4, <1>5, <1>6 DEF Stands, StatementStands

(* The array or function is put on the type.                               *)
LEMMA DeriveStands ==
    ASSUME NEW f, NEW g, NEW w, Stands(f, w), f.todo # Nothing, Word(Foremost(f.todo)) \in {"array",
    "func"},
           g.kind = f.kind, g.todo = Rest(f.todo)
    PROVE  Stands(g, w) /\ Rooted(g, w)
<1>1. Declaring(g)
  BY DeriveCases DEF Declaring
<1>2. CASE \E r \in AfterDims, k \in 1 .. w.at : f.todo = Left3(ArrayOf(k), Do("dims"), r)
  <2>1. \E r \in AfterDims : g.todo = Left2(Do("dims"), r)
    BY ONLY <1>2, g.todo = Rest(f.todo), LeftFacts
  <2> QED BY ONLY <1>1, <2>1 DEF Declaring, Stands, DeclaratorStands, Dimension, Rooted,
                  DeclaratorKinds, OperandKinds
<1>3. CASE \E k \in 1 .. w.at : f.todo = Left1(FuncOf(k))
  <2>1. g.todo = Nothing
    BY ONLY <1>3, g.todo = Rest(f.todo), LeftFacts
  <2> QED BY ONLY <1>1, <2>1 DEF Declaring, Stands, DeclaratorStands, Rooted, DeclaratorKinds,
                  OperandKinds
<1> QED BY <1>2, <1>3, DeriveCases

(* The code sees nothing that it takes, or a token that it skips.          *)
LEMMA Skips ==
    ASSUME NEW f, NEW g, NEW w, NEW v, NEW x \in Places \ {"words", "id", "statement", "unary",
    "primary", "sizeof"},
           Stands(f, w), f.min \in Nat, f.todo # Nothing, Foremost(f.todo) = Do(x), Moves(w, v),
           Sound(w),
           v = w \/ x \in {"list", "param"},
           x = "operators" => Precedence(w.kind[w.at]) < Lowest(f.min),
           g.kind = f.kind, g.kids = f.kids, g.min = f.min,
           x # "semi" => g.at = f.at, g.todo = Rest(f.todo)
    PROVE  Stands(g, v)
<1>0. g.kind = f.kind /\ g.kids = f.kids /\ g.min = f.min /\ g.todo = Rest(f.todo)
  OBVIOUS
<1>4. \A j \in 1 .. w.at : j \in 1 .. v.at
  BY DEF Moves, Reads
<1>1. CASE OperandPlace(f, x, w)
  <2>1. v = w
    BY <1>1 DEF OperandPlace
  <2>2. /\ One(f.kids, w, 3) => One(f.kids, w, 2)
        /\ One(f.kids, w, 4) => One(f.kids, w, 3)
    BY OneLess
  <2>3. CASE x = "operators"
    <3>1. Precedence(w.kind[w.at]) < Lowest(f.min)
      BY <2>3
    <3>2. f.kind = "binary" /\ f.todo = Left1(Do(x)) /\ One(f.kids, w, 3 + Lowest(f.min))
            /\ One(f.kids, w, 3 + Precedence(w.kind[w.at]))
      BY ONLY <1>1, <2>3 DEF OperandPlace
    <3>3. g.todo = Nothing
      BY ONLY <1>0, <3>2, LeftFacts
    <3>4. OperandCall(g, w)
      BY ONLY <1>0, <3>1, <3>2, <3>3 DEF OperandCall
    <3> QED BY <2>1, <3>4 DEF Stands
  <2>4. CASE x = "args"
    <3>1. f.kind = "CALL" /\ f.todo = Left2(Do(x), Token(")")) /\ First(f.kids, w, 15)
      BY ONLY <1>1, <2>4 DEF OperandPlace
    <3>2. g.todo = Left1(Token(")"))
      BY ONLY <1>0, <3>1, LeftFacts
    <3>3. OperandNode(g, w)
      BY ONLY <1>0, <3>1, <3>2 DEF OperandNode
    <3> QED BY <2>1, <3>3 DEF Stands
  <2>5. CASE x \in {"commas", "assigns", "asks", "suffixes"}
    <3>1. OperandCall(g, w)
      BY ONLY <1>0, <1>1, <2>2, <2>5, LeftFacts DEF OperandPlace, OperandCall
    <3> QED BY <2>1, <3>1 DEF Stands
  <2> QED BY <1>1, <2>3, <2>4, <2>5 DEF OperandPlace
<1>2. CASE DeclaratorPlace(f, x, w)
  <2>1. CASE f.kind = "declarator" /\ x = "stars"
          /\ f.todo = Left4(Do(x), Do("name"), Do("dims"), Do("params"))
    <3>1. Naming(g)
      BY ONLY <1>0, <2>1, LeftFacts DEF Naming
    <3> QED BY ONLY <1>0, <2>1, <3>1 DEF Stands, DeclaratorStands, DeclaratorKinds
  <2>2. CASE f.kind = "declarator" /\ x = "name" /\ f.todo = Left3(Do(x), Do("dims"), Do("params"))
    <3>1. g.todo = Left2(Do("dims"), Do("params")) /\ Do("params") \in AfterDims
      BY ONLY <1>0, <2>2, LeftFacts DEF AfterDims
    <3>2. Dimension(g, v)
      BY ONLY <3>1 DEF Dimension
    <3> QED BY ONLY <1>0, <2>2, <3>2 DEF Stands, DeclaratorStands, DeclaratorKinds
  <2>3. CASE Declaring(f) /\ x = "stars" /\ f.todo = Left3(Do(x), Do("dims"), Initializer)
    <3>1. g.todo = Left2(Do("dims"), Initializer) /\ Initializer \in AfterDims
      BY ONLY <1>0, <2>3, LeftFacts DEF AfterDims, Initializer
    <3>2. Dimension(g, v)
      BY ONLY <3>1 DEF Dimension
    <3> QED BY ONLY <1>0, <2>3, <3>2 DEF Stands, DeclaratorStands, Declaring
  <2>4. CASE Declaring(f) /\ x = "dims" /\ \E r \in AfterDims : f.todo = Left2(Do(x), r)
    <3>1. \E r \in AfterDims : g.todo = Left1(r)
      BY ONLY <1>0, <2>4, LeftFacts
    <3>2. Dimension(g, v)
      BY ONLY <3>1 DEF Dimension
    <3> QED BY ONLY <1>0, <2>4, <3>2 DEF Stands, DeclaratorStands, Declaring
  <2>5. CASE Declaring(f) /\ x = "params" /\ f.todo = Left1(Do(x))
    <3>1. g.todo = Nothing
      BY ONLY <1>0, <2>5, LeftFacts
    <3> QED BY ONLY <1>0, <2>5, <3>1 DEF Stands, DeclaratorStands, Declaring
  <2>6. CASE Declaring(f) /\ x \in {"list", "param", "next"}
          /\ \E k \in 1 .. w.at : f.todo = Left3(Do(x), Token(")"), FuncOf(k))
    <3>1. \E k \in 1 .. v.at : g.todo = Left2(Token(")"), FuncOf(k))
      BY ONLY <1>0, <1>4, <2>6, LeftFacts
    <3>2. Parametric(g, v)
      BY ONLY <3>1 DEF Parametric
    <3> QED BY ONLY <1>0, <2>6, <3>2 DEF Stands, DeclaratorStands, Declaring
  <2> QED BY <1>2, <2>1, <2>2, <2>3, <2>4, <2>5, <2>6 DEF DeclaratorPlace
<1>3. CASE StatementPlace(f, x, w)
  <2>1. v = w
    BY <1>3 DEF StatementPlace
  <2>2. /\ f.kind = "DECL" /\ All(f.kids, w, 0)
        /\ \/ g.todo = Left4(Call("declarator"), Do("body"), Others, Semi)
           \/ g.todo = Left2(Others, Semi)
    BY ONLY <1>0, <1>3, x \in Places \ {"words", "id", "statement", "unary", "primary", "sizeof"},
            LeftFacts
       DEF StatementPlace
  <2> QED BY ONLY <1>0, <2>1, <2>2 DEF Stands, StatementStands, DeclStands
<1> QED BY <1>1, <1>2, <1>3, PlaceCases

-----------------------------------------------------------------------------
(* Operators and suffixes: what was read becomes the first kid of a node.  *)

LEMMA NodeSteps ==
    /\ Steps("COMMA_EXPR") = Left1(Call("assignment"))
    /\ Steps("ASSIGN") = Left1(Call("assignment"))
    /\ Steps("CONDITIONAL") = Left3(Call("expression"), Token(":"), Call("conditional"))
    /\ Steps("BINARY") = Left1(Call("binary"))
    /\ Steps("UNARY") = Left1(Call("unary"))
    /\ Steps("SIZEOF") = Left1(Call("unary"))
    /\ Steps("INDEX") = Left2(Call("expression"), Token("]"))
    /\ Steps("CALL") = Left2(Do("args"), Token(")"))
    /\ Steps("MEMBER") = Left1(Token("id"))
    /\ Steps("POSTFIX") = Nothing
    /\ Steps("postfix") = Left2(Call("primary"), Do("suffixes"))
    /\ Steps("parens") = Left2(Call("expression"), Token(")"))
    /\ Steps("FUNC_DEF") = Left1(Call("COMPOUND"))
<1>1. /\ Steps("COMMA_EXPR") = <<Call("assignment")>>
      /\ Steps("ASSIGN") = <<Call("assignment")>>
      /\ Steps("CONDITIONAL") = <<Call("expression"), Token(":"), Call("conditional")>>
      /\ Steps("BINARY") = <<Call("binary")>>
      /\ Steps("UNARY") = <<Call("unary")>>
      /\ Steps("SIZEOF") = <<Call("unary")>>
  BY Zenon DEF Steps, StatementSteps, ExpressionSteps
<1>2. /\ Steps("INDEX") = <<Call("expression"), Token("]")>>
      /\ Steps("CALL") = <<Do("args"), Token(")")>>
      /\ Steps("MEMBER") = <<Token("id")>>
      /\ Steps("POSTFIX") = <<>>
      /\ Steps("postfix") = <<Call("primary"), Do("suffixes")>>
      /\ Steps("parens") = <<Call("expression"), Token(")")>>
      /\ Steps("FUNC_DEF") = <<Call("COMPOUND")>>
  BY Zenon DEF Steps, StatementSteps, ExpressionSteps
<1>3. Nothing = <<>>
  BY DEF Nothing
<1> QED BY ONLY <1>1, <1>2, <1>3, ListsAre

(* The frame c builds the node k of what f has read; d waits for it.       *)
Wraps(f, c, d, k, w) ==
    /\ c.kind = k /\ c.at = w.at /\ c.kids = f.kids /\ c.from = f.from /\ c.min = f.min
    /\ c.todo = Steps(k)
    /\ d.kind = f.kind /\ d.at = f.at /\ d.kids = Nothing /\ d.from = f.from /\ d.min = f.min

(* What an operator makes of what was read before it.                      *)
Operating(x, k, f, w) ==
    LET p == Precedence(w.kind[w.at]) IN
    \/ x = "commas" /\ k = "COMMA_EXPR"
    \/ x = "assigns" /\ k = "ASSIGN"
    \/ x = "asks" /\ k = "CONDITIONAL"
    \/ x = "operators" /\ k = "BINARY" /\ p >= 1 /\ p >= f.min
    \/ x = "suffixes" /\ k \in {"INDEX", "CALL", "MEMBER", "POSTFIX"}

LEMMA WrapsStand ==
    ASSUME NEW f, NEW c, NEW d, NEW w, NEW v, NEW x \in Places, NEW k, Stands(f, w), Rooted(f, w),
           f.todo # Nothing, Foremost(f.todo) = Do(x), f.at \in 1 .. w.at, f.min \in 0 .. 11,
           Moves(w, v), w.at \in Nat, Operating(x, k, f, w), Wraps(f, c, d, k, w),
           d.todo = IF x \in {"assigns", "asks"} THEN Rest(f.todo) ELSE f.todo
    PROVE  /\ Stands(c, v) /\ Rooted(c, v) /\ Awaits(d, c, v) /\ Rooted(d, v) /\ Keeps(f, d, w, v)
           /\ d.from = c.from
<1>0. /\ c.kind = k /\ c.at = w.at /\ c.kids = f.kids /\ c.from = f.from /\ c.min = f.min
      /\ c.todo = Steps(k)
      /\ d.kind = f.kind /\ d.at = f.at /\ d.kids = Nothing /\ d.from = f.from /\ d.min = f.min
  BY DEF Wraps
<1>1. Keeps(f, d, w, v)
  BY <1>0, AlikeKeeps DEF Moves
<1>2. Rooted(d, v)
  BY <1>0 DEF Rooted
<1> PICK p : p = Precedence(w.kind[w.at])
  OBVIOUS
<1> PICK l : l = Lowest(f.min)
  OBVIOUS
<1>3. p \in 0 .. 10 /\ l \in 1 .. 11 /\ (p >= 1 /\ p >= f.min => p >= l)
  BY PrecedenceRange DEF Lowest
<1>4. OperatorOf(c, v) = p
  BY <1>0 DEF OperatorOf, Moves, Reads
<1>5. OperandPlace(f, x, w)
  <2>1. x \in {"commas", "assigns", "asks", "operators", "suffixes"}
    BY DEF Operating
  <2> QED BY ONLY <2>1, x \in Places, Stands(f, w), f.todo # Nothing, Foremost(f.todo) = Do(x),
                  PlaceCases
             DEF DeclaratorPlace, StatementPlace
<1>6. /\ One(f.kids, w, 1) => One(c.kids, v, 1)
      /\ One(f.kids, w, 3) => One(c.kids, v, 3)
      /\ One(f.kids, w, 4) => One(c.kids, v, 4)
      /\ One(f.kids, w, 15) => One(c.kids, v, 15) /\ First(c.kids, v, 15)
      /\ One(f.kids, w, 3 + p) => One(c.kids, v, 3 + p)
  BY <1>0, KidsMove, FirstOfOne
<1>7. f.kind \in OperandKinds /\ f.kids # Nothing
  <2>1. f.kind \in OperandKinds /\ Len(f.kids) = 1
    <3>1. x \in {"commas", "assigns", "asks", "operators", "suffixes"}
      BY DEF Operating
    <3> QED BY ONLY <1>5, <3>1 DEF OperandPlace, OperandKinds, One
  <2>2. f.kids # Nothing
    BY ONLY <2>1, SomeKid
  <2> QED BY ONLY <2>1, <2>2
<1>8. Rooted(c, v)
  <2>1. Starts(f.kids[1], w, f.from)
    BY <1>7 DEF Rooted
  <2>2. Starts(c.kids[1], v, c.from)
    BY <1>0, <2>1, KidsMove
  <2> QED BY <2>2 DEF Rooted
<1>9. CASE x = "operators"
  <2>1. k = "BINARY" /\ p >= 1 /\ p >= l
    BY ONLY <1>3, <1>9, Operating(x, k, f, w), p = Precedence(w.kind[w.at]) DEF Operating
  <2>2. f.kind = "binary" /\ f.todo = Left1(Do("operators")) /\ One(f.kids, w, 3 + p)
    BY ONLY <1>5, <1>9, p = Precedence(w.kind[w.at]) DEF OperandPlace
  <2>3. d.todo = Left1(Do("operators"))
    BY <1>9, <2>2
  <2>4. c.todo = Left1(Call("binary"))
    BY <1>0, <2>1, NodeSteps
  <2>5. OperandNode(c, v)
    BY ONLY <1>0, <1>4, <1>6, <2>1, <2>2, <2>4 DEF OperandNode
  <2>6. Gives(c, v) = 3 + p /\ Stop(c, v) = p + 1
    BY ONLY <1>0, <1>4, <2>1 DEF Gives, Stop, LevelOf
  <2>7. OperandAwaits(d, c, v)
    BY ONLY <1>0, <1>3, <2>1, <2>2, <2>3, <2>6, l = Lowest(f.min) DEF OperandAwaits
  <2> QED BY <1>0, <1>1, <1>2, <1>8, <2>5, <2>7 DEF Stands, Awaits
<1>10. CASE x \in {"commas", "assigns", "asks"}
  <2>1. /\ x = "commas" => k = "COMMA_EXPR"
        /\ x = "assigns" => k = "ASSIGN"
        /\ x = "asks" => k = "CONDITIONAL"
    BY ONLY <1>10, Operating(x, k, f, w) DEF Operating
  <2>2. OperandNode(c, v)
    BY ONLY <1>0, <1>5, <1>6, <1>10, <2>1, NodeSteps DEF OperandPlace, OperandNode
  <2>3. (k = "COMMA_EXPR" /\ Gives(c, v) = 1) \/ (k = "ASSIGN" /\ Gives(c, v) = 2)
          \/ (k = "CONDITIONAL" /\ Gives(c, v) = 3)
    BY ONLY <1>0, <1>10, <2>1 DEF Gives, LevelOf
  <2>4. OperandAwaits(d, c, v)
    <3>1. CASE x = "commas"
      BY ONLY <1>0, <1>5, <2>1, <2>3, <3>1, d.todo = IF x \in {"assigns",
              "asks"} THEN Rest(f.todo) ELSE f.todo, LeftFacts DEF OperandPlace, OperandAwaits
    <3>2. CASE x = "assigns"
      BY ONLY <1>0, <1>5, <2>1, <2>3, <3>2, d.todo = IF x \in {"assigns",
              "asks"} THEN Rest(f.todo) ELSE f.todo, LeftFacts DEF OperandPlace, OperandAwaits
    <3>3. CASE x = "asks"
      BY ONLY <1>0, <1>5, <2>1, <2>3, <3>3, d.todo = IF x \in {"assigns",
              "asks"} THEN Rest(f.todo) ELSE f.todo, LeftFacts DEF OperandPlace, OperandAwaits
    <3> QED BY <1>10, <3>1, <3>2, <3>3
  <2> QED BY <1>0, <1>1, <1>2, <1>8, <2>2, <2>4 DEF Stands, Awaits
<1>11. CASE x = "suffixes"
  <2>1. k \in {"INDEX", "CALL", "MEMBER", "POSTFIX"}
    BY ONLY <1>11, Operating(x, k, f, w) DEF Operating
  <2>2. f.kind = "postfix" /\ f.todo = Left1(Do("suffixes")) /\ One(f.kids, w, 15)
    BY ONLY <1>5, <1>11 DEF OperandPlace
  <2>3. OperandNode(c, v)
    BY ONLY <1>0, <1>6, <2>1, <2>2, NodeSteps DEF OperandNode
  <2>4. Gives(c, v) = 15
    BY ONLY <1>0, <2>1 DEF Gives, LevelOf
  <2>5. d.todo = Left1(Do("suffixes"))
    BY <1>11, <2>2
  <2>6. OperandAwaits(d, c, v)
    BY ONLY <1>0, <2>2, <2>4, <2>5 DEF OperandAwaits
  <2> QED BY <1>0, <1>1, <1>2, <1>8, <2>3, <2>6 DEF Stands, Awaits
<1> QED BY <1>9, <1>10, <1>11 DEF Operating

-----------------------------------------------------------------------------
(* Statements, and the operands that are told by their first token.        *)

LEMMA PlainJoins ==
    /\ \A s, t \in Seq(PlainStep) : s \o t \in Seq(PlainStep)
    /\ \A a \in PlainStep : <<a>> \in Seq(PlainStep)
    /\ \A a, b \in PlainStep : <<a, b>> \in Seq(PlainStep)
    /\ \A a, b, c \in PlainStep : <<a, b, c>> \in Seq(PlainStep)
    /\ \A a, b, c, d, e, f, g, h \in PlainStep : <<a, b, c, d, e, f, g, h>> \in Seq(PlainStep)
<1> PICK S : S = PlainStep
  OBVIOUS
<1>1. \A s, t \in Seq(S) : s \o t \in Seq(S)
  BY ConcatProperties
<1>2. /\ \A a \in S : <<a>> \in Seq(S)
      /\ \A a, b \in S : <<a, b>> \in Seq(S)
      /\ \A a, b, c \in S : <<a, b, c>> \in Seq(S)
  OBVIOUS
<1>3. ASSUME NEW a \in S, NEW b \in S, NEW c \in S, NEW d \in S, NEW e \in S, NEW f \in S,
          NEW g \in S, NEW h \in S
      PROVE  <<a, b, c, d, e, f, g, h>> \in Seq(S)
  OBVIOUS
<1> QED BY ONLY <1>1, <1>2, <1>3, S = PlainStep

LEMMA StatementsPlain ==
    ASSUME NEW k \in {"COMPOUND", "WHILE", "SWITCH", "DO", "FOR", "CASE", "DEFAULT", "LABEL",
    "BREAK",
                      "CONTINUE", "GOTO", "RETURN", "EXPR_STMT"}
    PROVE  Steps(k) \in Seq(PlainStep)
<1>1. /\ Token("(") \in PlainStep /\ Token(")") \in PlainStep /\ Semi \in PlainStep
      /\ Token(":") \in PlainStep /\ Token("while") \in PlainStep /\ Token("id") \in PlainStep
      /\ Call("expression") \in PlainStep /\ Call("statement") \in PlainStep
      /\ Call("conditional") \in PlainStep
      /\ Unless(Semicolon, "expression") \in PlainStep /\ Unless(")", "expression") \in PlainStep
  BY Zenon DEF PlainStep, Semi
<1>2. Condition \in Seq(PlainStep)
  BY <1>1, PlainJoins DEF Condition
<1>3. CASE k = "COMPOUND"
  BY <1>3, PlainSteps
<1>4. CASE k \in {"WHILE", "SWITCH"}
  <2>1. Steps(k) = Condition \o <<Call("statement")>>
    BY <1>4, Zenon DEF Steps, StatementSteps
  <2>2. <<Call("statement")>> \in Seq(PlainStep)
    BY ONLY <1>1, PlainJoins
  <2> QED BY ONLY <1>2, <2>1, <2>2, PlainJoins
<1>5. CASE k = "DO"
  <2>1. Steps(k) = <<Call("statement"), Token("while")>> \o Condition \o <<Semi>>
    BY <1>5, Zenon DEF Steps, StatementSteps, Semi, Semicolon
  <2>2. <<Call("statement"), Token("while")>> \in Seq(PlainStep) /\ <<Semi>> \in Seq(PlainStep)
    BY ONLY <1>1, PlainJoins
  <2> QED BY ONLY <1>2, <2>1, <2>2, PlainJoins
<1>6. CASE k = "FOR"
  <2>1. Steps(k) = <<Token("("), Unless(Semicolon, "expression"), Semi, Unless(Semicolon,
            "expression"),
                     Semi, Unless(")", "expression"), Token(")"), Call("statement")>>
    BY <1>6, Zenon DEF Steps, StatementSteps, Semi, Semicolon
  <2> QED BY ONLY <1>1, <2>1, PlainJoins
<1>7. CASE k = "CASE"
  <2>1. Steps(k) = <<Call("conditional"), Token(":"), Call("statement")>>
    BY <1>7, Zenon DEF Steps, StatementSteps
  <2> QED BY ONLY <1>1, <2>1, PlainJoins
<1>8. CASE k \in {"DEFAULT", "LABEL"}
  <2>1. Steps(k) = <<Token(":"), Call("statement")>>
    BY <1>8, Zenon DEF Steps, StatementSteps
  <2> QED BY ONLY <1>1, <2>1, PlainJoins
<1>9. CASE k \in {"BREAK", "CONTINUE"}
  <2>1. Steps(k) = <<Semi>>
    BY <1>9, Zenon DEF Steps, StatementSteps, Semi, Semicolon
  <2> QED BY ONLY <1>1, <2>1, PlainJoins
<1>10. CASE k = "GOTO"
  <2>1. Steps(k) = <<Token("id"), Semi>>
    BY <1>10, Zenon DEF Steps, StatementSteps, Semi, Semicolon
  <2> QED BY ONLY <1>1, <2>1, PlainJoins
<1>11. CASE k = "RETURN"
  <2>1. Steps(k) = <<Unless(Semicolon, "expression"), Semi>>
    BY <1>11, Zenon DEF Steps, StatementSteps, Semi, Semicolon
  <2> QED BY ONLY <1>1, <2>1, PlainJoins
<1>12. CASE k = "EXPR_STMT"
  <2>1. Steps(k) = <<Call("expression"), Semi>>
    BY <1>12, Zenon DEF Steps, StatementSteps, Semi, Semicolon
  <2> QED BY ONLY <1>1, <2>1, PlainJoins
<1> QED BY <1>3, <1>4, <1>5, <1>6, <1>7, <1>8, <1>9, <1>10, <1>11, <1>12

LEMMA OtherStatements ==
    /\ Steps("IF") = Left5(Token("("), Call("expression"), Token(")"), Call("statement"), Else)
    /\ Steps("var_decl") = Left4(Call("specifiers"), Call("variable"), OtherVariables, Semi)
<1>1. Steps("IF") = Condition \o <<Call("statement"), Else>>
  BY Zenon DEF Steps, StatementSteps, Else
<1>2. IsSeq(<<Call("statement"), Else>>)
        /\ <<Call("statement"), Else>> = Onto(Call("statement"), Onto(Else, <<>>))
  <2>1. <<Call("statement"), Else>> = Left2(Call("statement"), Else)
    BY ListsAre
  <2>2. IsSeq(Left2(Call("statement"), Else))
    BY LeftFacts
  <2> QED BY ONLY <2>1, <2>2, Zenon DEF Left2
<1>3. Steps("IF") = Left5(Token("("), Call("expression"), Token(")"), Call("statement"), Else)
  <2>1. Steps("IF") = Onto(Token("("), Onto(Call("expression"), Onto(Token(")"),
            <<Call("statement"), Else>>)))
    <3> PICK q : q = <<Call("statement"), Else>>
      OBVIOUS
    <3>1. IsSeq(q) /\ Steps("IF") = Condition \o q
      BY ONLY <1>1, <1>2, q = <<Call("statement"), Else>>
    <3>2. Steps("IF") = Onto(Token("("), Onto(Call("expression"), Onto(Token(")"), q)))
      BY ONLY <3>1, JoinThree DEF Condition
    <3> QED BY ONLY <3>2, q = <<Call("statement"), Else>>
  <2> QED BY ONLY <1>2, <2>1, Zenon DEF Left5
<1>4. Steps("var_decl") = <<Call("specifiers"), Call("variable"), OtherVariables, Semi>>
  BY Zenon DEF Steps, OtherVariables, Semi, Comma, Semicolon
<1>5. Steps("var_decl") = Left4(Call("specifiers"), Call("variable"), OtherVariables, Semi)
  BY ONLY <1>4, ListsAre
<1> QED BY <1>3, <1>5

(* What a frame may become of what it sees.                                *)
Becoming(x, k, t) ==
    \/ x = "unary" /\ k \in {"UNARY", "postfix"} /\ t = Steps(k)
    \/ x = "unary" /\ k = "SIZEOF" /\ t = Left1(Do("sizeof"))
    \/ x = "primary" /\ k = "parens" /\ t = Steps(k)
    \/ x = "primary" /\ k \in {"IDENT", "INT_LIT", "FLOAT_LIT", "CHAR_LIT", "STR_LIT"} /\ t = Nothing
    \/ x = "statement" /\ k = "EXPR_STMT" /\ t = Nothing
    \/ /\ x = "statement" /\ t = Steps(k)
       /\ k \in {"IF", "var_decl", "COMPOUND", "WHILE", "SWITCH", "DO", "FOR", "CASE", "DEFAULT",
              "LABEL",
                 "BREAK", "CONTINUE", "GOTO", "RETURN", "EXPR_STMT"}

LEMMA BecomesStands ==
    ASSUME NEW f, NEW g, NEW w, NEW v, NEW x \in Places, NEW k, NEW t, Stands(f, w),
           f.todo # Nothing, Foremost(f.todo) = Do(x), Becoming(x, k, t),
           w.at \in Nat, v.at \in Nat, k = "SIZEOF" => v.at > w.at,
           g.kind = k, g.at = w.at, g.kids = f.kids, g.from = f.from, g.min = f.min, g.todo = t
    PROVE  Stands(g, v) /\ Rooted(g, v) /\ Keeps(f, g, w, v)
<1>0. g.kind = k /\ g.at = w.at /\ g.kids = f.kids /\ g.todo = t /\ v.at \in Nat
        /\ (k = "SIZEOF" => v.at > w.at)
  OBVIOUS
<1>1. x \in {"unary", "primary", "statement"}
  BY DEF Becoming
<1>2. f.kind = x /\ f.kids = Nothing
  BY ONLY <1>1, x \in Places, Stands(f, w), f.todo # Nothing, Foremost(f.todo) = Do(x), PlaceCases
     DEF OperandPlace, DeclaratorPlace, StatementPlace
<1>3. Rooted(g, v)
  BY ONLY <1>0, <1>2 DEF Rooted
<1>4. CASE x = "unary"
  <2>1. k \in {"UNARY", "SIZEOF", "postfix"}
    BY <1>4 DEF Becoming
  <2>5. Keeps(f, g, w, v)
    <3>1. Gives(f, w) = 14 /\ Gives(g, v) \in {14, 15} /\ Stop(f, w) = 11 /\ Stop(g, v) = 11
      BY ONLY <1>0, <1>2, <1>4, <2>1 DEF Gives, Stop, LevelOf
    <3> QED BY <1>2, <1>4, <3>1 DEF Keeps
  <2>6. Stands(g, v)
    <3>2. CASE k = "postfix"
      <4>1. g.todo = Left2(Call("primary"), Do("suffixes"))
        BY <1>0, <1>4, <3>2, NodeSteps DEF Becoming
      <4> QED BY ONLY <1>0, <1>2, <3>2, <4>1 DEF Stands, OperandCall
    <3>3. CASE k = "UNARY"
      <4>1. g.todo = Left1(Call("unary"))
        BY <1>0, <1>4, <3>3, NodeSteps DEF Becoming
      <4> QED BY ONLY <1>0, <1>2, <3>3, <4>1 DEF Stands, OperandNode
    <3>4. CASE k = "SIZEOF"
      <4>1. g.todo = Left1(Do("sizeof"))
        BY <1>0, <1>4, <3>4 DEF Becoming
      <4> QED BY ONLY <1>0, <1>2, <3>4, <4>1 DEF Stands, OperandNode
    <3> QED BY <2>1, <3>2, <3>3, <3>4
  <2> QED BY <1>3, <2>5, <2>6
<1>5. CASE x = "primary"
  <2>1. k \in {"parens", "IDENT", "INT_LIT", "FLOAT_LIT", "CHAR_LIT", "STR_LIT"}
    BY <1>5 DEF Becoming
  <2>2. Keeps(f, g, w, v)
    <3>1. Gives(f, w) = 16 /\ Gives(g, v) = 16 /\ Stop(f, w) = 11 /\ Stop(g, v) = 11
      BY ONLY <1>0, <1>2, <1>5, <2>1 DEF Gives, Stop, LevelOf
    <3> QED BY <1>2, <1>5, <3>1 DEF Keeps
  <2>3. Stands(g, v)
    <3>1. CASE k = "parens"
      <4>1. g.todo = Left2(Call("expression"), Token(")"))
        BY <1>0, <1>5, <3>1, NodeSteps DEF Becoming
      <4> QED BY ONLY <1>0, <1>2, <3>1, <4>1 DEF Stands, OperandCall
    <3>2. CASE k # "parens"
      <4>1. g.todo = Nothing
        BY <1>0, <1>5, <3>2 DEF Becoming
      <4> QED BY ONLY <1>0, <1>2, <2>1, <3>2, <4>1 DEF Stands, OperandNode, DeclaratorStands,
                      DeclaratorKinds
    <3> QED BY <3>1, <3>2
  <2> QED BY <1>3, <2>2, <2>3
<1>6. CASE x = "statement"
  <2>1. /\ k \in {"IF", "var_decl", "COMPOUND", "WHILE", "SWITCH", "DO", "FOR", "CASE", "DEFAULT",
               "LABEL",
                  "BREAK", "CONTINUE", "GOTO", "RETURN", "EXPR_STMT"}
        /\ t = Steps(k) \/ (k = "EXPR_STMT" /\ t = Nothing)
    BY <1>6 DEF Becoming
  <2>2. Keeps(f, g, w, v)
    <3>1. Gives(f, w) = 0 /\ Gives(g, v) = 0 /\ Stop(f, w) = 11 /\ Stop(g, v) = 11
      BY ONLY <1>0, <1>2, <1>6, <2>1 DEF Gives, Stop, LevelOf
    <3> QED BY <1>2, <1>6, <3>1 DEF Keeps
  <2>3. Stands(g, v)
    <3>1. CASE k = "IF"
      <4>1. g.todo = Left5(Token("("), Call("expression"), Token(")"), Call("statement"), Else)
        BY <1>0, <2>1, <3>1, OtherStatements
      <4> QED BY ONLY <1>0, <1>2, <3>1, <4>1 DEF Stands, StatementStands, IfStands
    <3>2. CASE k = "var_decl"
      <4>1. g.todo = Left4(Call("specifiers"), Call("variable"), OtherVariables, Semi)
        BY <1>0, <2>1, <3>2, OtherStatements
      <4> QED BY ONLY <1>0, <1>2, <3>2, <4>1, AllNothing DEF Stands, StatementStands, VarDeclStands
    <3>3. CASE k \notin {"IF", "var_decl"}
      <4>1. t \in Seq(PlainStep)
        <5>1. Nothing \in Seq(PlainStep)
          BY DEF Nothing
        <5> QED BY <2>1, <3>3, <5>1, StatementsPlain
      <4> QED BY ONLY <1>0, <2>1, <3>3, <4>1 DEF Stands, StatementStands, Simple
    <3> QED BY <3>1, <3>2, <3>3
  <2> QED BY <1>3, <2>2, <2>3
<1> QED BY <1>1, <1>4, <1>5, <1>6

-----------------------------------------------------------------------------
(* What a place leads to.                                                  *)

LEMMA ConsLeft ==
    /\ \A a : Onto(a, Nothing) = Left1(a)
    /\ \A a, b : Onto(a, Left1(b)) = Left2(a, b)
    /\ \A a, b, c : Onto(a, Left2(b, c)) = Left3(a, b, c)
    /\ \A a, b, c, d : Onto(a, Left3(b, c, d)) = Left4(a, b, c, d)
    /\ \A a, b, c, d, e : Onto(a, Left4(b, c, d, e)) = Left5(a, b, c, d, e)
<1>1. /\ \A a : Onto(a, Nothing) = Left1(a)
      /\ \A a, b : Onto(a, Left1(b)) = Left2(a, b)
      /\ \A a, b, c : Onto(a, Left2(b, c)) = Left3(a, b, c)
  BY Zenon DEF Nothing, Left1, Left2, Left3
<1>2. \A a, b, c, d : Onto(a, Left3(b, c, d)) = Left4(a, b, c, d)
  BY Zenon DEF Left3, Left4
<1>3. \A a, b, c, d, e : Onto(a, Left4(b, c, d, e)) = Left5(a, b, c, d, e)
  BY Zenon DEF Left4, Left5
<1> QED BY ONLY <1>1, <1>2, <1>3

(* sizeof and arguments.                                                   *)
LEMMA OperandLeads ==
    ASSUME NEW f, NEW g, NEW w, NEW v, NEW x \in {"sizeof", "args"}, Stands(f, w), f.todo # Nothing,
           Foremost(f.todo) = Do(x), Moves(w, v), f.at \in Nat, Alike(f, g),
           \/ /\ x = "sizeof" /\ v.at = w.at + 1
              /\ g.todo = Onto(Call("expression"), Onto(Token(")"), Rest(f.todo)))
           \/ x = "sizeof" /\ g.todo = Onto(Call("unary"), Rest(f.todo))
           \/ x = "args" /\ g.todo = Onto(Call("assignment"), Onto(Again(Comma, "assignment"),
                  Rest(f.todo)))
    PROVE  Stands(g, v)
<1>0. g.kind = f.kind /\ g.kids = f.kids /\ g.at = f.at /\ w.at \in Nat
  BY DEF Alike, Moves
<1>1. x \in Places
  BY DEF Places
<1>2. OperandPlace(f, x, w)
  BY ONLY <1>1, x \in {"sizeof", "args"}, Stands(f, w), f.todo # Nothing, Foremost(f.todo) = Do(x),
          PlaceCases
     DEF DeclaratorPlace, StatementPlace
<1>3. CASE x = "sizeof"
  <2>1. f.kind = "SIZEOF" /\ f.kids = Nothing /\ w.at > f.at /\ Rest(f.todo) = Nothing
    BY ONLY <1>2, <1>3, LeftFacts DEF OperandPlace
  <2>2. \/ g.todo = Left1(Call("unary"))
        \/ g.todo = Left2(Call("expression"), Token(")")) /\ v.at = w.at + 1
    BY <1>3, <2>1, ConsLeft
  <2>3. CASE g.todo = Left1(Call("unary"))
    BY ONLY <1>0, <2>1, <2>3 DEF Stands, OperandNode
  <2>4. CASE g.todo = Left2(Call("expression"), Token(")")) /\ v.at = w.at + 1
    <3>1. v.at > g.at + 1
      BY ONLY <1>0, <2>1, <2>4, f.at \in Nat
    <3> QED BY ONLY <1>0, <2>1, <2>4, <3>1 DEF Stands, OperandNode
  <2> QED BY <2>2, <2>3, <2>4
<1>4. CASE x = "args"
  <2>1. f.kind = "CALL" /\ First(f.kids, w, 15) /\ Rest(f.todo) = Left1(Token(")"))
    BY ONLY <1>2, <1>4, LeftFacts DEF OperandPlace
  <2>2. g.todo = Left3(Call("assignment"), Again(Comma, "assignment"), Token(")"))
    BY <1>4, <2>1, ConsLeft
  <2>3. First(g.kids, v, 15)
    BY <1>0, <2>1, KidsMove
  <2> QED BY ONLY <1>0, <2>1, <2>2, <2>3 DEF Stands, OperandNode
<1> QED BY <1>3, <1>4

(* Names, stars, brackets and parameters.                                  *)
LEMMA DeclaratorLeads ==
    ASSUME NEW f, NEW g, NEW w, NEW v, NEW x \in Places, Stands(f, w), f.todo # Nothing,
           Foremost(f.todo) = Do(x), Reads(w, v), w.at \in Nat, v.at \in Nat, w.at \in 1 .. v.at,
           \/ x = "stars" /\ g.kind = f.kind /\ g.todo = f.todo
           \/ x = "name" /\ g.kind = "IDENT" /\ g.todo = Rest(f.todo)
           \/ x = "id" /\ g.kind = "VAR_DECL" /\ g.todo = Rest(f.todo)
           \/ /\ x = "dims" /\ g.kind = f.kind
              /\ g.todo = Onto(Unless("]", "primary"), Onto(Token("]"), Onto(ArrayOf(w.at),
                     Onto(Do(x), Rest(f.todo)))))
           \/ /\ x = "params" /\ g.kind = f.kind
              /\ g.todo = Onto(Do("list"), Onto(Token(")"), Onto(FuncOf(w.at), Rest(f.todo))))
           \/ x \in {"list", "next"} /\ g.kind = f.kind /\ g.todo = Onto(Do("param"), Rest(f.todo))
    PROVE  Stands(g, v) /\ Rooted(g, v) /\ f.kind \in DeclaratorKinds
<1>1. DeclaratorPlace(f, x, w)
  <2>1. x \in {"stars", "name", "id", "dims", "params", "list", "next"}
    OBVIOUS
  <2> QED BY ONLY <2>1, x \in Places, Stands(f, w), f.todo # Nothing, Foremost(f.todo) = Do(x),
                  PlaceCases
          DEF OperandPlace, StatementPlace
<1>0. \A k \in 1 .. w.at : k \in 1 .. v.at
  OBVIOUS
<1>2. CASE x = "stars"
  <2>1. g.kind = f.kind /\ g.todo = f.todo
    BY <1>2
  <2>2. \/ f.kind = "declarator" /\ g.todo = Left4(Do("stars"), Do("name"), Do("dims"), Do("params"))
        \/ Declaring(f) /\ g.todo = Left3(Do("stars"), Do("dims"), Initializer)
    BY ONLY <1>1, <1>2, <2>1 DEF DeclaratorPlace
  <2> QED BY ONLY <2>1, <2>2 DEF Stands, DeclaratorStands, Naming, Declaring, DeclaratorKinds,
                  Rooted, OperandKinds
<1>3. CASE x = "name"
  <2>1. f.kind = "declarator" /\ g.kind = "IDENT" /\ g.todo = Rest(f.todo)
    BY ONLY <1>1, <1>3, g.kind = "IDENT" /\ g.todo = Rest(f.todo) DEF DeclaratorPlace
  <2>2. g.todo = Left2(Do("dims"), Do("params")) /\ Do("params") \in AfterDims
    BY ONLY <1>1, <1>3, <2>1, LeftFacts DEF DeclaratorPlace, AfterDims
  <2>3. Dimension(g, v)
    BY ONLY <2>2 DEF Dimension
  <2> QED BY ONLY <2>1, <2>3 DEF Stands, DeclaratorStands, DeclaratorKinds, Rooted, OperandKinds
<1>4. CASE x = "id"
  <2>1. f.kind = "variable" /\ g.kind = "VAR_DECL" /\ g.todo = Rest(f.todo)
    BY ONLY <1>1, <1>4, g.kind = "VAR_DECL" /\ g.todo = Rest(f.todo) DEF DeclaratorPlace
  <2>2. g.todo = Left3(Do("stars"), Do("dims"), Initializer)
    BY ONLY <1>1, <1>4, <2>1, LeftFacts DEF DeclaratorPlace
  <2> QED BY ONLY <2>1, <2>2 DEF Stands, DeclaratorStands, DeclaratorKinds, Rooted, OperandKinds
<1>5. CASE x = "dims"
  <2>1. PICK r \in AfterDims : Declaring(f) /\ f.todo = Left2(Do(x), r)
    BY ONLY <1>1, <1>5 DEF DeclaratorPlace
  <2>2. g.todo = Left5(Unless("]", "primary"), Token("]"), ArrayOf(w.at), Do("dims"),
            r) /\ g.kind = f.kind
    <3>1. g.todo = Onto(Unless("]", "primary"), Onto(Token("]"), Onto(ArrayOf(w.at), Onto(Do(x),
              Rest(f.todo)))))
          /\ g.kind = f.kind
      BY <1>5
    <3>2. Rest(f.todo) = Left1(r)
      BY ONLY <2>1, LeftFacts
    <3> QED BY ONLY <1>5, <3>1, <3>2, ConsLeft
  <2>3. Dimension(g, v)
    BY ONLY <2>2, r \in AfterDims, w.at \in 1 .. v.at DEF Dimension
  <2> QED BY ONLY <2>1, <2>2, <2>3 DEF Stands, DeclaratorStands, Declaring, DeclaratorKinds, Rooted,
                  OperandKinds
<1>6. CASE x = "params"
  <2>1. Declaring(f) /\ f.todo = Left1(Do(x))
    BY ONLY <1>1, <1>6 DEF DeclaratorPlace
  <2>2. g.todo = Left3(Do("list"), Token(")"), FuncOf(w.at)) /\ g.kind = f.kind
    <3>1. g.todo = Onto(Do("list"), Onto(Token(")"), Onto(FuncOf(w.at),
              Rest(f.todo)))) /\ g.kind = f.kind
      BY <1>6
    <3>2. Rest(f.todo) = Nothing
      BY ONLY <2>1, LeftFacts
    <3> QED BY ONLY <3>1, <3>2, ConsLeft
  <2>3. Parametric(g, v)
    BY ONLY <2>2, w.at \in 1 .. v.at DEF Parametric
  <2> QED BY ONLY <2>1, <2>2, <2>3 DEF Stands, DeclaratorStands, Declaring, DeclaratorKinds, Rooted,
                  OperandKinds
<1>7. CASE x \in {"list", "next"}
  <2>1. PICK k \in 1 .. w.at : Declaring(f) /\ f.todo = Left3(Do(x), Token(")"), FuncOf(k))
    BY ONLY <1>1, <1>7 DEF DeclaratorPlace
  <2>2. g.todo = Left3(Do("param"), Token(")"), FuncOf(k)) /\ g.kind = f.kind
    <3>1. g.todo = Onto(Do("param"), Rest(f.todo)) /\ g.kind = f.kind
      BY <1>7
    <3>2. Rest(f.todo) = Left2(Token(")"), FuncOf(k))
      BY ONLY <2>1, LeftFacts
    <3> QED BY ONLY <3>1, <3>2, ConsLeft
  <2>3. Parametric(g, v)
    BY ONLY <1>0, <2>2, k \in 1 .. w.at DEF Parametric
  <2> QED BY ONLY <2>1, <2>2, <2>3 DEF Stands, DeclaratorStands, Declaring, DeclaratorKinds, Rooted,
                  OperandKinds
<1> QED BY <1>2, <1>3, <1>4, <1>5, <1>6, <1>7

(* A parameter is read.                                                    *)
LEMMA ParamAwaits ==
    ASSUME NEW f, NEW d, NEW c, NEW w, Stands(f, w), f.todo # Nothing,
    Foremost(f.todo) = Do("param"),
           d.kind = f.kind, d.todo = Onto(Do("next"), Rest(f.todo))
    PROVE  Awaits(d, c, w)
<1>1. DeclaratorPlace(f, "param", w)
  <2>1. "param" \in Places
    BY DEF Places
  <2> QED BY ONLY <2>1, Stands(f, w), f.todo # Nothing, Foremost(f.todo) = Do("param"), PlaceCases
          DEF OperandPlace, StatementPlace
<1>2. PICK k \in 1 .. w.at : Declaring(f) /\ f.todo = Left3(Do("param"), Token(")"), FuncOf(k))
  BY ONLY <1>1 DEF DeclaratorPlace
<1>3. d.todo = Left3(Do("next"), Token(")"), FuncOf(k))
  BY <1>2, LeftFacts, ConsLeft
<1>4. DeclaratorAwaits(d, c, w) /\ d.kind \in DeclaratorKinds
  BY ONLY <1>2, <1>3, k \in 1 .. w.at, d.kind = f.kind DEF DeclaratorAwaits, Declaring
<1> QED BY <1>4 DEF Awaits

(* The places of a declaration.                                            *)
LEMMA DeclPlaces ==
    ASSUME NEW f, NEW w, NEW x \in {"semi", "body", "words"}, Stands(f, w), f.todo # Nothing,
    Foremost(f.todo) = Do(x)
    PROVE  IF x = "words" THEN f.kind = "specifiers" ELSE f.kind = "DECL" /\ All(f.kids, w, 0)
<1>1. StatementPlace(f, x, w)
  <2>1. x \in Places
    BY DEF Places
  <2> QED BY ONLY <2>1, x \in {"semi", "body", "words"}, Stands(f, w), f.todo # Nothing,
                  Foremost(f.todo) = Do(x), PlaceCases
          DEF OperandPlace, DeclaratorPlace
<1> QED BY ONLY <1>1, x \in {"semi", "body", "words"} DEF StatementPlace

-----------------------------------------------------------------------------
(* What a call that has done everything returns.                           *)

LEMMA Low ==
    ASSUME NEW f, NEW w, f.kind # "binary", f.kind # "BINARY"
    PROVE  Precedence(w.kind[w.at]) < Stop(f, w)
<1>1. Stop(f, w) = 11
  BY DEF Stop
<1> QED BY <1>1, PrecedenceRange

LEMMA PassKid ==
    ASSUME NEW f, NEW w, f.min \in Nat, Stands(f, w),
           f.todo = Nothing, f.kind \in PassedOn
    PROVE  One(f.kids, w, Gives(f, w)) /\ Precedence(w.kind[w.at]) < Stop(f, w)
<1>1. OperandCall(f, w)
  BY ONLY Stands(f, w), f.kind \in PassedOn
     DEF PassedOn, Stands, OperandNode, StatementStands, DeclStands, VarDeclStands, IfStands,
     DeclaratorKinds, Simple
<1> PICK l : l = Lowest(f.min)
  OBVIOUS
<1> PICK p : p = Precedence(w.kind[w.at])
  OBVIOUS
<1>2. l \in Nat /\ l >= 1 /\ p \in 0 .. 10
  BY PrecedenceRange DEF Lowest
<1>3. /\ f.kind = "expression" => One(f.kids, w, 1)
      /\ f.kind = "assignment" => One(f.kids, w, 2)
      /\ f.kind = "conditional" => One(f.kids, w, 3)
      /\ f.kind = "binary" => One(f.kids, w, 3 + l) /\ p < l
      /\ f.kind = "postfix" => One(f.kids, w, 15)
  BY ONLY <1>1, f.todo = Nothing, LeftFacts, l = Lowest(f.min), p = Precedence(w.kind[w.at])
     DEF OperandCall
<1>4. One(f.kids, w, Gives(f, w)) /\ p < Stop(f, w)
  BY ONLY <1>2, <1>3, f.kind \in PassedOn, l = Lowest(f.min) DEF PassedOn, Gives, Stop
<1> QED BY ONLY <1>4, p = Precedence(w.kind[w.at])

LEMMA PassResult ==
    ASSUME NEW f, NEW w, Sound(w), 0 \notin DOMAIN w.level, f.min \in Nat, Stands(f, w),
           Rooted(f, w), f.todo = Nothing, f.kind \in PassedOn
    PROVE  Result(f, f.kids[1], w, w)
<1> PICK p : p = Precedence(w.kind[w.at])
  OBVIOUS
<1>1. One(f.kids, w, Gives(f, w)) /\ p < Stop(f, w)
  BY ONLY f.min \in Nat, Stands(f, w), f.todo = Nothing, f.kind \in PassedOn, PassKid,
          p = Precedence(w.kind[w.at])
<1>2. Fit(f.kids[1], w, Gives(f, w)) /\ Len(f.kids) = 1
  BY <1>1 DEF One
<1>3. f.kids[1] # 0
  BY <1>2 DEF Fit
<1>4. Starts(f.kids[1], w, f.from)
  <2>1. f.kids # Nothing
    BY ONLY <1>2, SomeKid
  <2>2. f.kind \in OperandKinds
    BY ONLY f.kind \in PassedOn DEF PassedOn, OperandKinds
  <2> QED BY <2>1, <2>2 DEF Rooted
<1>5. f.kind # "specifiers"
  BY DEF PassedOn
<1> QED BY ONLY <1>1, <1>2, <1>3, <1>4, <1>5, p = Precedence(w.kind[w.at]) DEF Result

LEMMA NamelessResult ==
    ASSUME NEW f, NEW w, NEW v, v.kind[v.at] = w.kind[w.at] \/ f.kind # "binary",
           f.kind \in {"declarator", "specifiers", "DECL"}
    PROVE  Result(f, 0, w, v)
<1>1. Gives(f, w) = -1 /\ Stop(f, w) = 11
  BY ONLY f.kind \in {"declarator", "specifiers", "DECL"} DEF Gives, Stop
<1>2. Precedence(v.kind[v.at]) \in 0 .. 10
  BY PrecedenceRange
<1> QED BY ONLY <1>1, <1>2, f.kind \in {"declarator", "specifiers", "DECL"} DEF Result

(* Parentheses, and the one variable of a declaration.                     *)
LEMMA WrappedKid ==
    ASSUME NEW f, NEW w, Stands(f, w), f.todo = Nothing, NEW S, f.kids \in Seq(S),
           f.kind = "parens" \/ (f.kind = "var_decl" /\ Len(f.kids) = 1)
    PROVE  One(f.kids, w, IF f.kind = "parens" THEN 1 ELSE 14)
<1>1. CASE f.kind = "parens"
  <2>1. OperandCall(f, w)
    BY ONLY Stands(f, w), <1>1
       DEF Stands, OperandNode, StatementStands, DeclStands, VarDeclStands, IfStands,
       DeclaratorKinds, Simple
  <2> QED BY ONLY <1>1, <2>1, f.todo = Nothing, LeftFacts DEF OperandCall
<1>2. CASE f.kind = "var_decl" /\ Len(f.kids) = 1
  <2>1. VarDeclStands(f, w)
    BY ONLY Stands(f, w), <1>2
       DEF Stands, OperandCall, OperandNode, StatementStands, DeclStands, IfStands, DeclaratorKinds,
       Simple
  <2>2. All(f.kids, w, 14)
    BY ONLY <2>1 DEF VarDeclStands
  <2>3. 1 \in DOMAIN f.kids
    BY <1>2
  <2> QED BY ONLY <1>2, <2>2, <2>3 DEF All, One
<1> QED BY <1>1, <1>2

LEMMA WrappedResult ==
    ASSUME NEW f, NEW w, NEW v, Stands(f, w), f.todo = Nothing, NEW S, f.kids \in Seq(S),
           f.kind = "parens" \/ (f.kind = "var_decl" /\ Len(f.kids) = 1),
           Later(w, v), Sound(w), Sound(v), 0 \notin DOMAIN v.level,
           f.kind = "parens" /\ w.level[f.kids[1]] >= 1 => v.level[f.kids[1]] = 16
    PROVE  Result(f, f.kids[1], w, v)
<1> PICK n : n = f.kids[1]
  OBVIOUS
<1>1. n \in DOMAIN w.level /\ w.level[n] >= (IF f.kind = "parens" THEN 1 ELSE 14)
  BY WrappedKid DEF One, Fit
<1>2. n \in DOMAIN v.level /\ v.level[n] >= w.level[n]
  BY <1>1 DEF Later
<1>7. w.level[n] \in 0 .. 16 /\ v.level[n] \in 0 .. 16
  BY ONLY <1>1, <1>2, Sound(w), Sound(v) DEF Sound
<1>3. v.level[n] >= 14 /\ (f.kind = "parens" => v.level[n] >= 16)
  BY ONLY <1>1, <1>2, <1>7, n = f.kids[1],
          f.kind = "parens" /\ w.level[f.kids[1]] >= 1 => v.level[f.kids[1]] = 16
<1>4. Gives(f, w) = (IF f.kind = "parens" THEN 16 ELSE 0) /\ Stop(f, w) = 11 /\ f.kind # "specifiers"
  BY DEF Gives, Stop, LevelOf
<1>5. Precedence(v.kind[v.at]) \in 0 .. 10
  BY PrecedenceRange
<1>6. v.level[n] >= 0 /\ n # 0
  BY ONLY <1>2, <1>7, 0 \notin DOMAIN v.level
<1> QED
  BY ONLY <1>2, <1>3, <1>4, <1>5, <1>6, n = f.kids[1] DEF Result, Fit, Starts

(* A node of its own.                                                      *)
Unfinished == {"unary", "primary", "statement", "specifiers", "variable"}

LEMMA NodeKinds ==
    ASSUME NEW f, NEW w, Stands(f, w), f.todo = Nothing
    PROVE  f.kind \notin Unfinished
<1>1. ~Naming(f)
  BY ONLY f.todo = Nothing, LeftFacts DEF Naming
<1>2. ASSUME f.kind \in Unfinished PROVE FALSE
  <2>1. CASE OperandCall(f, w)
    BY ONLY <1>2, <2>1, f.todo = Nothing, LeftFacts DEF OperandCall, Unfinished
  <2>2. CASE ~OperandCall(f, w)
    BY ONLY <1>1, <1>2, <2>2, Stands(f, w), f.todo = Nothing, LeftFacts
       DEF Stands, OperandNode, DeclaratorStands, DeclaratorKinds, StatementStands, DeclStands,
       VarDeclStands,
           IfStands, Simple, Unfinished
  <2> QED BY <2>1, <2>2
<1> QED BY <1>2

LEMMA NodeResult ==
    ASSUME NEW f, NEW n, NEW w, NEW v, Stands(f, w), f.todo = Nothing,
    f.kind \notin PassedOn \cup {"declarator", "parens"},
           v.kind = w.kind, v.at = w.at, n # 0, n \in DOMAIN v.level, v.start[n] = f.from,
               f.from \in Int,
           NEW k, k = IF f.kind = "var_decl" THEN "COMPOUND" ELSE f.kind,
           NEW p, f.kind # "var_decl" => p = OperatorOf(f, w), v.level[n] = LevelOf(k, p),
           p \in 0 .. 10
    PROVE  Result(f, n, w, v)
<1>1. f.kind \notin Unfinished
  BY NodeKinds
<1>2. Gives(f, w) = v.level[n] \/ (Gives(f, w) = -1 /\ v.level[n] >= 0)
        \/ (Gives(f, w) = 0 /\ v.level[n] = 0)
  <2>1. CASE f.kind = "var_decl"
    BY <2>1 DEF Gives, LevelOf
  <2>2. CASE f.kind # "var_decl"
    <3>1. k = f.kind /\ p = OperatorOf(f, w)
      BY <2>2
    <3>2. LevelOf(k, p) \in Nat
      BY ONLY p \in 0 .. 10 DEF LevelOf
    <3>3. Gives(f, w) = LevelOf(k, p) \/ Gives(f, w) = -1
      BY ONLY <1>1, <3>1, f.kind \notin PassedOn \cup {"declarator", "parens"} DEF Unfinished,
              PassedOn, Gives
    <3> QED BY <3>2, <3>3
  <2> QED BY <2>1, <2>2
<1>3. v.level[n] \in Nat
  BY ONLY p \in 0 .. 10, v.level[n] = LevelOf(k, p) DEF LevelOf
<1>4. Precedence(w.kind[w.at]) < Stop(f, w)
  <2>1. CASE f.kind = "BINARY"
    <3>1. OperandNode(f, w)
      BY ONLY Stands(f, w), <2>1
         DEF Stands, OperandCall, StatementStands, DeclStands, VarDeclStands, IfStands,
         DeclaratorKinds, Simple
    <3>2. Precedence(w.kind[w.at]) <= OperatorOf(f, w)
      BY ONLY <2>1, <3>1, f.todo = Nothing, LeftFacts DEF OperandNode
    <3>3. OperatorOf(f, w) \in Int /\ Precedence(w.kind[w.at]) \in Int
      BY PrecedenceRange DEF OperatorOf
    <3>4. Stop(f, w) = OperatorOf(f, w) + 1
      BY <2>1 DEF Stop
    <3> QED BY ONLY <3>2, <3>3, <3>4
  <2>2. CASE f.kind # "BINARY"
    <3>1. f.kind # "binary"
      BY DEF PassedOn
    <3> QED BY <2>2, <3>1, Low
  <2> QED BY <2>1, <2>2
<1>5. f.kind # "specifiers"
  BY <1>1 DEF Unfinished
<1>6. Fit(n, v, Gives(f, w)) /\ Starts(n, v, f.from)
  BY ONLY <1>2, <1>3, n \in DOMAIN v.level, v.start[n] = f.from, f.from \in Int DEF Fit, Starts
<1>7. Precedence(v.kind[v.at]) < Stop(f, w)
  BY <1>4
<1> QED BY ONLY <1>5, <1>6, <1>7, n # 0 DEF Result

LEMMA NodeBinds ==
    ASSUME NEW f, NEW u, NEW w, Stands(f, w), f.todo = Nothing,
    f.kind \notin PassedOn \cup {"declarator", "parens"},
           u.kind = IF f.kind = "var_decl" THEN "COMPOUND" ELSE f.kind,
           f.kind # "var_decl" => u.tok = f.at, u.kids = f.kids, u.to = w.at - 1, w.at \in Nat
    PROVE  Binds(u, w)
<1>1. u.to + 1 = w.at
  OBVIOUS
<1>2. CASE u.kind \in {"COMMA_EXPR", "ASSIGN", "CONDITIONAL", "BINARY", "UNARY", "SIZEOF", "INDEX",
          "CALL", "MEMBER", "POSTFIX"}
  <2>1. u.kind = f.kind /\ u.tok = f.at
    BY <1>2
  <2>2. OperandNode(f, w)
    BY ONLY Stands(f, w), <1>2, <2>1
         DEF Stands, OperandCall, StatementStands, DeclStands, VarDeclStands, IfStands,
         DeclaratorKinds, Simple
  <2> PICK p : p = Precedence(w.kind[u.tok])
    OBVIOUS
  <2>3. p = OperatorOf(f, w)
    BY <2>1 DEF OperatorOf
  <2>4. /\ f.kind = "COMMA_EXPR" => Two(f.kids, w, 1, 2)
        /\ f.kind = "ASSIGN" => Two(f.kids, w, 3, 2)
        /\ f.kind = "CONDITIONAL" => Three(f.kids, w, 4, 1, 3)
        /\ f.kind = "BINARY" => p >= 1 /\ Two(f.kids, w, 3 + p, 4 + p)
        /\ f.kind = "UNARY" => One(f.kids, w, 14)
        /\ f.kind = "SIZEOF" => One(f.kids, w, 1) /\ Starts(f.kids[1], w, f.at + 2)
        /\ f.kind \in {"INDEX", "CALL", "MEMBER", "POSTFIX"} => First(f.kids, w, 15)
    BY ONLY <2>2, <2>3, f.todo = Nothing, LeftFacts DEF OperandNode
  <2> QED BY ONLY <1>2, <2>1, <2>4, u.kids = f.kids, p = Precedence(w.kind[u.tok]) DEF Binds
<1>3. CASE u.kind = "IF"
  <2>1. f.kind = "IF"
    BY <1>3
  <2>2. IfStands(f, w)
    BY ONLY Stands(f, w), <2>1
         DEF Stands, OperandCall, OperandNode, StatementStands, DeclStands, VarDeclStands,
         DeclaratorKinds, Simple
  <2>3. f.kids[3] # 0 \/ w.kind[w.at] # "else"
    BY ONLY <2>2, f.todo = Nothing, LeftFacts DEF IfStands
  <2> QED BY ONLY <1>1, <1>3, <2>3, u.kids = f.kids DEF Binds
<1> QED BY ONLY <1>2, <1>3 DEF Binds

-----------------------------------------------------------------------------
(* The stack after a step: the innermost call goes on, calls another, or   *)
(* returns to the one that waits for it.                                   *)

LEMMA FrameRange ==
    ASSUME NEW f, NEW n, NEW a, IsFrame(f, n, a)
    PROVE  /\ f.min \in Nat /\ f.min \in 0 .. 11 /\ f.at \in Int /\ f.from \in Int
           /\ f.at \in 1 .. a /\ f.from \in 1 .. a /\ IsType(f.type, n, a)
<1>1. f.min \in 0 .. 11 /\ f.at \in 1 .. a /\ f.from \in 1 .. a /\ IsType(f.type, n, a)
  BY DEF IsFrame
<1>2. f.at \in Int /\ f.from \in Int /\ f.min \in Nat
  BY ONLY <1>1
<1> QED BY <1>1, <1>2

LEMMA FrameKids ==
    ASSUME NEW f, NEW n, NEW a, IsFrame(f, n, a)
    PROVE  f.kids \in Seq(0 .. n)
  BY DEF IsFrame

LEMMA Top ==
    ASSUME NEW st, NEW n, NEW w, StackSound(st, n, w), st # <<>>
    PROVE  /\ IsFrame(Head(st), n, w.at) /\ Rooted(Head(st), w) /\ Stands(Head(st), w)
           /\ Under(Head(st), Tail(st), n, w) /\ IsSeq(Tail(st)) /\ st = Onto(Head(st), Tail(st))
  BY Uncons DEF StackSound

LEMMA Stacked ==
    ASSUME NEW g, NEW t, NEW n, NEW w, IsFrame(g, n, w.at), Rooted(g, w), Stands(g, w), Under(g, t,
    n, w)
    PROVE  StackSound(Onto(g, t), n, w)
<1>1. IsSeq(t)
  BY DEF Under
<1> PICK c : c = Onto(g, t)
  OBVIOUS
<1>2. IsSeq(c) /\ Head(c) = g /\ Tail(c) = t
  BY ONLY <1>1, ConsIs, c = Onto(g, t)
<1> QED BY <1>2 DEF StackSound

LEMMA Replaces ==
    ASSUME NEW st, NEW n \in Nat, NEW m \in Nat, n <= m, NEW w, NEW v, Later(w, v), Sound(w),
    Sound(v),
           StackSound(st, n, w), st # <<>>,
           NEW g, IsFrame(g, m, v.at), Rooted(g, v), Stands(g, v), Keeps(Head(st), g, w, v)
    PROVE  StackSound(<<g>> \o Tail(st), m, v)
<1> PICK f : f = Head(st)
  OBVIOUS
<1> PICK t : t = Tail(st)
  OBVIOUS
<1>1. IsFrame(f, n, w.at) /\ Under(f, t, n, w) /\ IsSeq(t)
  BY Top
<1>2. f.min \in Nat /\ g.min \in Nat
  BY ONLY <1>1, IsFrame(g, m, v.at), FrameRange
<1>3. Under(g, t, m, v)
  BY ONLY <1>1, <1>2, UnderKeeps, Later(w, v), Sound(w), Sound(v), n \in Nat, m \in Nat, n <= m,
          Keeps(Head(st), g, w, v), f = Head(st)
<1>0. IsSeq(t)
  BY <1>1
<1>4. <<g>> \o t = Onto(g, t)
  BY ONLY <1>0, JoinOne
<1>5. StackSound(Onto(g, t), m, v)
  BY ONLY <1>3, IsFrame(g, m, v.at), Rooted(g, v), Stands(g, v), Stacked
<1> QED BY ONLY <1>4, <1>5, t = Tail(st)

LEMMA Pushes ==
    ASSUME NEW st, NEW n \in Nat, NEW m \in Nat, n <= m, NEW w, NEW v, Later(w, v), Sound(w),
    Sound(v),
           StackSound(st, n, w), st # <<>>,
           NEW c, IsFrame(c, m, v.at), Rooted(c, v), Stands(c, v),
           NEW d, IsFrame(d, m, v.at), Rooted(d, v), Awaits(d, c, v), d.from <= c.from,
           Keeps(Head(st), d, w, v)
    PROVE  StackSound(<<c, d>> \o Tail(st), m, v)
<1> PICK f : f = Head(st)
  OBVIOUS
<1> PICK t : t = Tail(st)
  OBVIOUS
<1>1. IsFrame(f, n, w.at) /\ Under(f, t, n, w) /\ IsSeq(t)
  BY Top
<1>2. f.min \in Nat /\ d.min \in Nat
  BY ONLY <1>1, IsFrame(d, m, v.at), FrameRange
<1>3. Under(d, t, m, v)
  BY ONLY <1>1, <1>2, UnderKeeps, Later(w, v), Sound(w), Sound(v), n \in Nat, m \in Nat, n <= m,
          Keeps(Head(st), d, w, v), f = Head(st)
<1>0. IsSeq(t)
  BY <1>1
<1>4. <<c, d>> \o t = Onto(c, Onto(d, t)) /\ <<d>> \o t = Onto(d, t)
  <2>1. <<c, d>> \o t = Onto(c, Onto(d, t))
    BY ONLY <1>0, JoinTwo
  <2>2. <<d>> \o t = Onto(d, t)
    BY ONLY <1>0, JoinOne
  <2> QED BY <2>1, <2>2
<1>5. Bears(d, c, m, v)
  BY DEF Bears
<1>6. Under(c, <<d>> \o t, m, v)
  BY ONLY <1>3, <1>5, UnderGrows
<1>7. StackSound(Onto(c, <<d>> \o t), m, v)
  BY ONLY <1>6, IsFrame(c, m, v.at), Rooted(c, v), Stands(c, v), Stacked
<1> QED BY ONLY <1>4, <1>7, t = Tail(st)

(* The caller goes on with what was returned.                              *)
LEMMA Pops ==
    ASSUME NEW st, NEW n \in Nat, NEW m \in Nat, n <= m, NEW w, NEW v, Later(w, v), Sound(w),
    Sound(v),
           StackSound(st, n, w), st # <<>>, Tail(st) # <<>>,
           NEW k \in 0 .. m, Result(Head(st), k, w, v),
           NEW type, IsType(type, m, v.at),
           NEW g, g = [Head(Tail(st)) EXCEPT !.type = type, !.kids = IF k = 0 THEN @ ELSE Append(@,
           k)]
    PROVE  StackSound(<<g>> \o Tail(Tail(st)), m, v)
<1> PICK c : c = Head(st)
  OBVIOUS
<1> PICK t : t = Tail(st)
  OBVIOUS
<1> PICK f : f = Head(t)
  OBVIOUS
<1> PICK u : u = Tail(t)
  OBVIOUS
<1>1. IsFrame(c, n, w.at) /\ Under(c, t, n, w) /\ t # <<>>
  BY Top
<1>2. Bears(f, c, n, w) /\ Under(f, u, n, w) /\ IsSeq(u)
  BY <1>1, UnderShrinks
<1>3. w.at \in Nat /\ v.at \in Nat /\ w.at <= v.at /\ Reads(w, v)
  BY ONLY Sound(w), Sound(v), Later(w, v) DEF Sound, Later, Reads
<1>4. IsFrame(f, n, w.at) /\ IsFrame(f, m, v.at)
  <2>1. IsFrame(f, n, w.at)
    BY <1>2 DEF Bears
  <2> QED BY ONLY <1>3, <2>1, FrameStays, n \in Nat, m \in Nat, n <= m
<1>5. /\ g.kind = f.kind /\ g.at = f.at /\ g.min = f.min /\ g.todo = f.todo /\ g.from = f.from
      /\ g.type = type
      /\ g.kids = IF k = 0 THEN f.kids ELSE Append(f.kids, k)
      /\ g = [kind |-> g.kind, from |-> g.from, at |-> g.at, kids |-> g.kids,
              todo |-> g.todo, type |-> g.type, min |-> g.min]
  BY <1>4 DEF IsFrame
<1>6. f.at \in 1 .. w.at /\ f.min \in Nat /\ f.from \in Int /\ c.min \in Nat /\ c.from \in Int
        /\ f.kids \in Seq(0 .. n)
  BY ONLY <1>1, <1>4, FrameRange, FrameKids
<1>7. f.kids \in Seq(0 .. m)
  BY ONLY <1>4 DEF IsFrame
<1>8. g.kids \in Seq(0 .. m)
  <2> PICK S : S = 0 .. m
    OBVIOUS
  <2>1. f.kids \in Seq(S) /\ k \in S
    BY <1>7
  <2>2. Append(f.kids, k) \in Seq(S)
    BY ONLY <2>1
  <2>3. g.kids = f.kids \/ g.kids = Append(f.kids, k)
    BY ONLY <1>5
  <2> QED BY ONLY <2>1, <2>2, <2>3, S = 0 .. m
<1>9. IsFrame(g, m, v.at)
  BY ONLY <1>4, <1>5, <1>8, IsType(type, m, v.at) DEF IsFrame
<1>10. f.from <= c.from /\ Rooted(f, w) /\ Awaits(f, c, w)
  BY <1>2 DEF Bears
<1>11. Stands(g, v) /\ Rooted(g, v)
  <2> PICK S : S = 0 .. m
    OBVIOUS
  <2>1. f.kids \in Seq(S) /\ k \in S /\ Result(c, k, w, v)
    BY <1>7
  <2> QED BY ONLY <1>5, <1>6, <1>10, <2>1, Later(w, v), Sound(w), Sound(v), Resume
<1>12. Keeps(f, g, w, v)
  BY ONLY <1>3, <1>5, <1>6, AlikeKeeps
<1>13. Under(g, u, m, v)
  <2>1. g.min \in Nat
    BY <1>5, <1>6
  <2> QED BY ONLY <1>2, <1>6, <1>12, <2>1, UnderKeeps, Later(w, v), Sound(w), Sound(v), n \in Nat,
                  m \in Nat, n <= m
<1>14. StackSound(Onto(g, u), m, v)
  BY ONLY <1>9, <1>11, <1>13, Stacked
<1>0. IsSeq(u)
  BY <1>2
<1>15. <<g>> \o u = Onto(g, u)
  BY ONLY <1>0, JoinOne
<1> QED BY ONLY <1>14, <1>15, u = Tail(t), t = Tail(st)

-----------------------------------------------------------------------------
(* The world of a state, and how the steps change it.                      *)

LEMMA LevelRange ==
    ASSUME NEW k, NEW p \in 0 .. 10
    PROVE  LevelOf(k, p) \in 0 .. 16
  BY DEF LevelOf

(* Only expressions and variables have a level.                            *)
LEMMA Leveled ==
    ASSUME NEW k, NEW p, LevelOf(k, p) >= 1
    PROVE  k \in Valued
  BY DEF LevelOf, Valued

LEMMA WorldIs ==
    ASSUME NEW ns, NEW ts, NEW a, NEW w, w = WorldOf(ns, ts, a)
    PROVE  /\ w.at = a /\ w.kind = KindsOf(ts) /\ w.level = LevelsOf(ns, ts)
           /\ DOMAIN w.level = DOMAIN ns /\ w.start = [n \in DOMAIN ns |-> ns[n].from]
           /\ w.derived = {n \in DOMAIN ns : ns[n].type.by # <<>>}
  BY DEF WorldOf, LevelsOf

LEMMA LevelIs ==
    ASSUME NEW ns, NEW ts, NEW n \in DOMAIN ns
    PROVE  LevelsOf(ns, ts)[n] =
              IF ns[n].kind \in Valued /\ ns[n].closed > 0 THEN 16
              ELSE LevelOf(ns[n].kind, Precedence(Kind(ts[ns[n].tok])))
  BY DEF LevelsOf

LEMMA NodeRange ==
    ASSUME NEW v, NEW n, NEW a, IsNode(v, n, a)
    PROVE  /\ v.tok \in 1 .. a /\ v.from \in 1 .. a /\ v.to \in Int /\ v.to + 1 \in 1 .. a
           /\ v.closed \in Nat
           /\ v.kids \in Seq(0 .. n) /\ IsType(v.type, n, a)
  BY DEF IsNode

LEMMA NodeStays ==
    ASSUME NEW u, NEW n \in Nat, NEW m \in Nat, n <= m, NEW a \in Nat, NEW b \in Nat, a <= b,
           IsNode(u, n, a)
    PROVE  IsNode(u, m, b)
<1>1. /\ u.tok \in 1 .. a /\ u.from \in 1 .. a /\ u.to \in Int /\ u.to + 1 \in 1 .. a
      /\ u.closed \in Nat
      /\ u.kids \in Seq(0 .. n) /\ IsType(u.type, n, a)
  BY NodeRange
<1>2. IsType(u.type, m, b)
  BY <1>1, TypeStays
<1>3. u.tok \in 1 .. b /\ u.from \in 1 .. b /\ u.to \in Int /\ u.to + 1 \in 1 .. b
  BY ONLY <1>1, a \in Nat, b \in Nat, a <= b
<1>4. u.kids \in Seq(0 .. m)
  <2> PICK S : S = 0 .. n
    OBVIOUS
  <2> PICK T : T = 0 .. m
    OBVIOUS
  <2>1. S \subseteq T
    BY ONLY S = 0 .. n, T = 0 .. m, n \in Nat, m \in Nat, n <= m
  <2>2. u.kids \in Seq(S)
    BY <1>1
  <2>3. u.kids \in Seq(T)
    BY ONLY <2>1, <2>2
  <2> QED BY <2>3
<1> QED BY ONLY <1>1, <1>2, <1>3, <1>4, IsNode(u, n, a) DEF IsNode

LEMMA HeldSound ==
    ASSUME NEW ns, NEW ts, NEW a, Held(ns, ts, a), NEW w, w = WorldOf(ns, ts, a)
    PROVE  /\ Sound(w) /\ w.at = a /\ a \in Nat \ {0} /\ Len(ns) \in Nat /\ DOMAIN w.level = 1 .. Len(ns)
           /\ DOMAIN ns = 1 .. Len(ns) /\ 0 \notin DOMAIN w.level
           /\ \A i \in 1 .. (a + 1) : w.kind[i] = Kind(ts[i])
           /\ IsSeq(ts) /\ IsSeq(ns) /\ Len(ts) = a + 1
           /\ \A n \in DOMAIN ns : IsNode(ns[n], n - 1, a) /\ Binds(ns[n], w)
<1>1. a \in Nat \ {0} /\ IsSeq(ts) /\ Len(ts) = a + 1 /\ NodesSound(ns, w)
  BY DEF Held
<1>2. /\ w.at = a /\ w.kind = KindsOf(ts) /\ w.level = LevelsOf(ns, ts)
      /\ DOMAIN w.level = DOMAIN ns /\ w.start = [n \in DOMAIN ns |-> ns[n].from]
      /\ w.derived = {n \in DOMAIN ns : ns[n].type.by # <<>>}
  BY ONLY w = WorldOf(ns, ts, a), WorldIs
<1>3. IsSeq(ns) /\ \A n \in DOMAIN ns : IsNode(ns[n], n - 1, a) /\ Binds(ns[n], w)
  BY ONLY <1>1, <1>2 DEF NodesSound
<1>4. Len(ns) \in Nat /\ DOMAIN ns = 1 .. Len(ns)
  BY ONLY <1>3 DEF IsSeq
<1>5. \A i \in 1 .. (a + 1) : w.kind[i] = Kind(ts[i])
  BY ONLY <1>1, <1>2 DEF KindsOf, IsSeq
<1>6. 0 \notin DOMAIN w.level
  BY ONLY <1>2, <1>4
<1>7. ASSUME NEW n \in DOMAIN w.level PROVE w.level[n] \in 0 .. 16 /\ w.start[n] \in Nat
  <2>1. n \in DOMAIN ns /\ IsNode(ns[n], n - 1, a)
    BY <1>2, <1>3
  <2>2. ns[n].from \in Nat
    <3>1. ns[n].from \in 1 .. a
      BY <2>1, NodeRange
    <3> QED BY ONLY <3>1, <1>1
  <2>0. w.start = [i \in DOMAIN ns |-> ns[i].from] /\ w.level = LevelsOf(ns, ts)
    BY ONLY w = WorldOf(ns, ts, a), WorldIs
  <2>3. w.start[n] = ns[n].from
    BY ONLY <2>0, <2>1
  <2>4. w.level[n] = LevelsOf(ns, ts)[n]
    BY ONLY <2>0
  <2> PICK p : p = Precedence(Kind(ts[ns[n].tok]))
    OBVIOUS
  <2>5. p \in 0 .. 10
    BY PrecedenceRange
  <2>6. LevelOf(ns[n].kind, p) \in 0 .. 16
    BY ONLY <2>5, LevelRange
  <2>7. w.level[n] = 16 \/ w.level[n] = LevelOf(ns[n].kind, p)
    BY <2>1, <2>4, LevelIs
  <2> QED BY ONLY <2>2, <2>3, <2>6, <2>7
<1>8. Sound(w)
  BY ONLY <1>1, <1>2, <1>7 DEF Sound
<1> QED BY ONLY <1>1, <1>2, <1>3, <1>4, <1>5, <1>6, <1>8

(* What a node takes it takes later, too.                                  *)
LEMMA BindsLater ==
    ASSUME NEW u, NEW n, NEW w, NEW v, Later(w, v), Sound(w), Sound(v), IsNode(u, n, w.at), Binds(u,
    w)
    PROVE  Binds(u, v)
<1> PICK k : k = u.kids
  OBVIOUS
<1>1. u.tok \in 1 .. w.at /\ u.to + 1 \in 1 .. w.at
  BY NodeRange
<1>2. Reads(w, v) /\ w.at \in Nat
  BY DEF Later, Sound
<1>3. v.kind[u.tok] = w.kind[u.tok] /\ v.kind[u.to + 1] = w.kind[u.to + 1]
  BY ONLY <1>1, <1>2 DEF Reads
<1>4. u.tok \in Int
  BY ONLY <1>1
<1> PICK p : p = Precedence(w.kind[u.tok])
  OBVIOUS
<1>5. p \in 0 .. 10
  BY PrecedenceRange
<1>6. 3 + p \in Int /\ 4 + p \in Int /\ u.tok + 2 \in Int
  BY ONLY <1>4, <1>5
<1>7. /\ \A i, l : l \in Int /\ One(i, w, l) => One(i, v, l)
      /\ \A i, l, m : l \in Int /\ m \in Int /\ Two(i, w, l, m) => Two(i, v, l, m)
      /\ \A i, l, m, o : l \in Int /\ m \in Int /\ o \in Int /\ Three(i, w, l, m, o)
           => Three(i, v, l, m, o)
      /\ \A i, l : l \in Int /\ First(i, w, l) => First(i, v, l)
      /\ \A i, b : b \in Int /\ Starts(i, w, b) => Starts(i, v, b)
  BY KidsLater
<1>8. Precedence(v.kind[u.tok]) = p
  BY <1>3
<1>a. CASE u.kind \in {"COMMA_EXPR", "ASSIGN", "CONDITIONAL"}
  BY ONLY <1>a, <1>7, Binds(u, w) DEF Binds
<1>b. CASE u.kind = "BINARY"
  BY ONLY <1>b, <1>6, <1>7, <1>8, Binds(u, w), p = Precedence(w.kind[u.tok]) DEF Binds
<1>c. CASE u.kind \in {"UNARY", "SIZEOF"}
  BY ONLY <1>c, <1>6, <1>7, Binds(u, w) DEF Binds
<1>d. CASE u.kind \in {"INDEX", "CALL", "MEMBER", "POSTFIX"}
  BY ONLY <1>d, <1>7, Binds(u, w) DEF Binds
<1>e. CASE u.kind = "IF"
  BY ONLY <1>e, <1>3, Binds(u, w) DEF Binds
<1>f. CASE u.kind \notin {"COMMA_EXPR", "ASSIGN", "CONDITIONAL", "BINARY", "UNARY", "SIZEOF",
                         "INDEX", "CALL", "MEMBER", "POSTFIX", "IF"}
  BY ONLY <1>f DEF Binds
<1> QED BY ONLY <1>a, <1>b, <1>c, <1>d, <1>e, <1>f

-----------------------------------------------------------------------------
(* A token is read.                                                        *)
LEMMA WorldReads ==
    ASSUME NEW ns, NEW ts, NEW a, Held(ns, ts, a), NEW t, NEW ss, ss = Append(ts, t),
           NEW w, w = WorldOf(ns, ts, a), NEW v, v = WorldOf(ns, ss, a + 1)
    PROVE  Moves(w, v) /\ Later(w, v) /\ Held(ns, ss, a + 1)
<1>1. /\ Sound(w) /\ w.at = a /\ a \in Nat \ {0} /\ DOMAIN ns = 1 .. Len(ns) /\ Len(ns) \in Nat
      /\ IsSeq(ts) /\ IsSeq(ns) /\ Len(ts) = a + 1
  BY HeldSound
<1>2. \A n \in DOMAIN ns : IsNode(ns[n], n - 1, a) /\ Binds(ns[n], w)
  BY HeldSound
<1>3. /\ w.kind = KindsOf(ts) /\ w.level = LevelsOf(ns, ts)
      /\ DOMAIN w.level = DOMAIN ns /\ w.start = [n \in DOMAIN ns |-> ns[n].from]
      /\ w.derived = {n \in DOMAIN ns : ns[n].type.by # <<>>}
  BY ONLY w = WorldOf(ns, ts, a), WorldIs
<1>4. /\ v.at = a + 1 /\ v.kind = KindsOf(ss) /\ v.level = LevelsOf(ns, ss)
      /\ DOMAIN v.level = DOMAIN ns /\ v.start = [n \in DOMAIN ns |-> ns[n].from]
      /\ v.derived = {n \in DOMAIN ns : ns[n].type.by # <<>>}
  BY ONLY v = WorldOf(ns, ss, a + 1), WorldIs
<1>5. IsSeq(ss) /\ Len(ss) = a + 2 /\ \A i \in 1 .. (a + 1) : ss[i] = ts[i]
  <2> PICK S : S = Elements(ts) \cup {t}
    OBVIOUS
  <2>1. ts \in Seq(S) /\ t \in S
    BY ONLY <1>1, S = Elements(ts) \cup {t} DEF IsSeq
  <2>2. ss \in Seq(S) /\ Len(ss) = Len(ts) + 1 /\ \A i \in 1 .. Len(ts) : ss[i] = ts[i]
    BY ONLY <2>1, ss = Append(ts, t)
  <2>3. IsSeq(ss)
    BY ONLY <2>2, IsSeqOf
  <2> QED BY ONLY <1>1, <2>2, <2>3
<1>6. \A i \in 1 .. (a + 1) : v.kind[i] = w.kind[i]
  <2>1. DOMAIN ts = 1 .. (a + 1) /\ DOMAIN ss = 1 .. (a + 2)
    BY ONLY <1>1, <1>5 DEF IsSeq
  <2> QED BY ONLY <1>1, <1>3, <1>4, <1>5, <2>1 DEF KindsOf
<1>7. Reads(w, v)
  BY ONLY <1>1, <1>4, <1>6 DEF Reads
<1>8. v.level = w.level
  <2>1. ASSUME NEW n \in DOMAIN ns PROVE LevelsOf(ns, ss)[n] = LevelsOf(ns, ts)[n]
    <3>1. ns[n].tok \in 1 .. a
      BY <1>2, NodeRange
    <3>2. ss[ns[n].tok] = ts[ns[n].tok]
      BY ONLY <1>1, <1>5, <3>1
    <3> QED BY ONLY <2>1, <3>2, LevelIs
  <2> QED BY ONLY <1>3, <1>4, <2>1 DEF LevelsOf
<1>9. Moves(w, v)
  BY ONLY <1>1, <1>3, <1>4, <1>7, <1>8 DEF Moves
<1>10. Later(w, v) /\ Sound(v)
  <2>1. \A n \in DOMAIN w.level : w.level[n] >= w.level[n]
    <3> SUFFICES ASSUME NEW n \in DOMAIN w.level PROVE w.level[n] >= w.level[n]
      OBVIOUS
    <3>1. w.level[n] \in 0 .. 16
      BY ONLY <1>1, n \in DOMAIN w.level DEF Sound
    <3> QED BY ONLY <3>1
  <2>2. Later(w, v)
    BY ONLY <1>7, <1>8, <1>3, <1>4, <2>1 DEF Later
  <2>3. v.at \in Nat \ {0}
    BY ONLY <1>1, <1>4
  <2> QED BY ONLY <1>1, <1>3, <1>4, <1>8, <2>2, <2>3 DEF Sound
<1>11. NodesSound(ns, v)
  <2> SUFFICES ASSUME NEW n \in DOMAIN ns PROVE IsNode(ns[n], n - 1, v.at) /\ Binds(ns[n], v)
    BY <1>1 DEF NodesSound
  <2>1. IsNode(ns[n], n - 1, a) /\ Binds(ns[n], w)
    BY <1>2
  <2>2. n - 1 \in Nat /\ a \in Nat /\ a + 1 \in Nat /\ a <= a + 1 /\ n - 1 <= n - 1
    BY ONLY <1>1, n \in DOMAIN ns
  <2>3. IsNode(ns[n], n - 1, a + 1)
    BY ONLY <2>1, <2>2, NodeStays
  <2>4. IsNode(ns[n], n - 1, w.at)
    BY ONLY <2>1, <1>1
  <2>5. Binds(ns[n], v)
    BY ONLY <2>1, <2>4, <1>1, <1>10, BindsLater
  <2> QED BY ONLY <2>3, <2>5, <1>4
<1>12. a + 1 \in Nat \ {0} /\ Len(ss) = a + 1 + 1
  BY ONLY <1>1, <1>5
<1> QED BY ONLY <1>5, <1>9, <1>10, <1>11, <1>12, v = WorldOf(ns, ss, a + 1) DEF Held

(* A node is built.                                                        *)
Adds(ns, u, ms, n) == ms = Append(ns, u) /\ n = Len(ns) + 1

LEMMA WorldGrows ==
    ASSUME NEW ns, NEW ts, NEW a, Held(ns, ts, a),
           NEW w, w = WorldOf(ns, ts, a),
           NEW u, IsNode(u, Len(ns), a), Binds(u, w), u.closed = 0,
           NEW ms, NEW n, Adds(ns, u, ms, n), NEW v, v = WorldOf(ms, ts, a)
    PROVE  /\ Later(w, v) /\ Held(ms, ts, a) /\ v.kind = w.kind /\ v.at = w.at
           /\ Len(ms) = n /\ n # 0 /\ n \in DOMAIN v.level /\ v.start[n] = u.from
           /\ v.level[n] = LevelOf(u.kind, Precedence(w.kind[u.tok]))
<1> /\ ms = Append(ns, u) /\ n = Len(ns) + 1
  BY DEF Adds
<1>1. /\ Sound(w) /\ w.at = a /\ a \in Nat \ {0} /\ DOMAIN ns = 1 .. Len(ns) /\ Len(ns) \in Nat
      /\ IsSeq(ts) /\ IsSeq(ns) /\ Len(ts) = a + 1
  BY HeldSound
<1>0. \A i \in 1 .. (a + 1) : w.kind[i] = Kind(ts[i])
  BY HeldSound
<1>2. \A i \in DOMAIN ns : IsNode(ns[i], i - 1, a) /\ Binds(ns[i], w)
  BY HeldSound
<1>3. /\ w.kind = KindsOf(ts) /\ w.level = LevelsOf(ns, ts)
      /\ DOMAIN w.level = DOMAIN ns /\ w.start = [i \in DOMAIN ns |-> ns[i].from]
      /\ w.derived = {i \in DOMAIN ns : ns[i].type.by # <<>>}
  BY ONLY w = WorldOf(ns, ts, a), WorldIs
<1>4. /\ v.at = a /\ v.kind = KindsOf(ts) /\ v.level = LevelsOf(ms, ts)
      /\ DOMAIN v.level = DOMAIN ms /\ v.start = [i \in DOMAIN ms |-> ms[i].from]
      /\ v.derived = {i \in DOMAIN ms : ms[i].type.by # <<>>}
  BY ONLY v = WorldOf(ms, ts, a), WorldIs
<1>5. /\ IsSeq(ms) /\ Len(ms) = n /\ DOMAIN ms = 1 .. n /\ ms[n] = u
      /\ \A i \in DOMAIN ns : ms[i] = ns[i]
  <2> PICK S : S = Elements(ns) \cup {u}
    OBVIOUS
  <2>1. ns \in Seq(S) /\ u \in S
    BY ONLY <1>1, S = Elements(ns) \cup {u} DEF IsSeq
  <2>2. /\ ms \in Seq(S) /\ Len(ms) = Len(ns) + 1 /\ ms[Len(ns) + 1] = u
        /\ \A i \in 1 .. Len(ns) : ms[i] = ns[i]
    BY ONLY <2>1, ms = Append(ns, u)
  <2>3. IsSeq(ms)
    BY ONLY <2>2, IsSeqOf
  <2>4. DOMAIN ms = 1 .. Len(ms)
    BY ONLY <2>2
  <2> QED BY ONLY <1>1, <2>2, <2>3, <2>4, n = Len(ns) + 1
<1>6. n # 0 /\ n \in DOMAIN ms /\ \A i \in DOMAIN ns : i \in DOMAIN ms
  BY ONLY <1>1, <1>5, n = Len(ns) + 1
<1>7. ASSUME NEW i \in DOMAIN ns PROVE v.level[i] = w.level[i] /\ v.start[i] = w.start[i]
  <2>1. ms[i] = ns[i] /\ i \in DOMAIN ms
    BY <1>5, <1>6
  <2>2. LevelsOf(ms, ts)[i] = LevelsOf(ns, ts)[i]
    BY ONLY <2>1, i \in DOMAIN ns, LevelIs
  <2> QED BY ONLY <1>3, <1>4, <2>1, <2>2, i \in DOMAIN ns
<1>8. w.derived \subseteq v.derived
  BY ONLY <1>3, <1>4, <1>5, <1>6
<1>9. Reads(w, v)
  <2>1. v.at >= w.at
    BY ONLY <1>1, <1>4
  <2> QED BY ONLY <1>3, <1>4, <2>1 DEF Reads
<1>10. Later(w, v)
  <2>1. ASSUME NEW i \in DOMAIN w.level PROVE i \in DOMAIN v.level /\ v.level[i] >= w.level[i]
          /\ v.start[i] = w.start[i]
    <3>1. w.level[i] \in 0 .. 16
      BY ONLY <1>1, i \in DOMAIN w.level DEF Sound
    <3>2. i \in DOMAIN ns
      BY ONLY <1>3, i \in DOMAIN w.level
    <3>3. v.level[i] = w.level[i] /\ v.start[i] = w.start[i]
      BY ONLY <3>2, <1>7
    <3>4. i \in DOMAIN v.level
      BY ONLY <3>2, <1>4, <1>6
    <3> QED BY ONLY <3>1, <3>3, <3>4
  <2> QED BY ONLY <2>1, <1>8, <1>9 DEF Later
<1>11. v.start[n] = u.from /\ v.level[n] = LevelOf(u.kind, Precedence(w.kind[u.tok]))
  <2>1. u.tok \in 1 .. a
    BY NodeRange
  <2>2. w.kind[u.tok] = Kind(ts[u.tok])
    BY ONLY <2>1, <1>0, <1>1
  <2>3. ~(u.closed > 0)
    BY ONLY u.closed = 0
  <2>4. LevelsOf(ms, ts)[n] = LevelOf(u.kind, Precedence(Kind(ts[u.tok])))
    BY ONLY <1>5, <1>6, <2>3, LevelIs
  <2> QED BY ONLY <1>4, <1>5, <1>6, <2>2, <2>4
<1>12. Sound(v)
  <2>1. ASSUME NEW i \in DOMAIN v.level PROVE v.level[i] \in 0 .. 16 /\ v.start[i] \in Nat
    <3>1. CASE i \in DOMAIN ns
      <4>1. w.level[i] \in 0 .. 16 /\ w.start[i] \in Nat
        BY ONLY <1>1, <1>3, <3>1 DEF Sound
      <4> QED BY ONLY <4>1, <1>7, <3>1
    <3>2. CASE i = n
      <4> PICK p : p = Precedence(w.kind[u.tok])
        OBVIOUS
      <4>1. p \in 0 .. 10
        BY PrecedenceRange
      <4>2. LevelOf(u.kind, p) \in 0 .. 16
        BY ONLY <4>1, LevelRange
      <4>3. u.from \in 1 .. a
        BY NodeRange
      <4>4. u.from \in Nat
        BY ONLY <4>3
      <4> QED BY ONLY <3>2, <4>2, <4>4, <1>11, p = Precedence(w.kind[u.tok])
    <3> QED BY ONLY <3>1, <3>2, <1>1, <1>4, <1>5, i \in DOMAIN v.level, n = Len(ns) + 1
  <2> QED BY ONLY <2>1, <1>1, <1>4 DEF Sound
<1>13. NodesSound(ms, v)
  <2> SUFFICES ASSUME NEW i \in DOMAIN ms PROVE IsNode(ms[i], i - 1, v.at) /\ Binds(ms[i], v)
    BY <1>5 DEF NodesSound
  <2>0. IsNode(ms[i], i - 1, a) /\ Binds(ms[i], w)
    <3>1. CASE i \in DOMAIN ns
      BY ONLY <3>1, <1>2, <1>5
    <3>2. CASE i = n
      <4>1. i - 1 = Len(ns)
        BY ONLY <3>2, <1>1, n = Len(ns) + 1
      <4> QED BY ONLY <3>2, <4>1, <1>5, IsNode(u, Len(ns), a), Binds(u, w)
    <3> QED BY ONLY <3>1, <3>2, <1>1, <1>5, i \in DOMAIN ms, n = Len(ns) + 1
  <2>1. IsNode(ms[i], i - 1, w.at)
    BY ONLY <2>0, <1>1
  <2>2. Binds(ms[i], v)
    BY ONLY <2>0, <2>1, <1>1, <1>10, <1>12, BindsLater
  <2> QED BY ONLY <2>0, <2>2, <1>4
<1> QED BY ONLY <1>1, <1>3, <1>4, <1>5, <1>6, <1>10, <1>11, <1>13, v = WorldOf(ms, ts, a) DEF Held

(* Parentheses are put around an expression, or the one variable of a      *)
(* declaration stands for it.                                              *)
Closes(f, n, u, ns, w) ==
    /\ u.kind = ns[n].kind /\ u.tok = ns[n].tok /\ u.kids = ns[n].kids /\ u.type = ns[n].type
    /\ u.closed = IF f.kind = "parens" THEN ns[n].closed + 1 ELSE ns[n].closed
    /\ IF f.kind = "parens" THEN Fit(n, w, 1) ELSE Fit(n, w, 14)

Put(ns, n, u) == [ns EXCEPT ![n] = u]

LEMMA WorldWraps ==
    ASSUME NEW ns, NEW ts, NEW a, Held(ns, ts, a),
           NEW w, w = WorldOf(ns, ts, a), NEW n \in DOMAIN ns, NEW f,
           NEW u, IsNode(u, n - 1, a), Closes(f, n, u, ns, w),
           NEW ms, ms = Put(ns, n, u), NEW v, v = WorldOf(ms, ts, a)
    PROVE  /\ Later(w, v) /\ Held(ms, ts, a) /\ v.kind = w.kind /\ v.at = w.at
           /\ Len(ms) = Len(ns) /\ (f.kind = "parens" => v.level[n] = 16)
<1>0. /\ u.kind = ns[n].kind /\ u.tok = ns[n].tok /\ u.kids = ns[n].kids /\ u.type = ns[n].type
      /\ u.closed = IF f.kind = "parens" THEN ns[n].closed + 1 ELSE ns[n].closed
      /\ IF f.kind = "parens" THEN Fit(n, w, 1) ELSE Fit(n, w, 14)
  BY ONLY Closes(f, n, u, ns, w) DEF Closes
<1>1. /\ Sound(w) /\ w.at = a /\ a \in Nat \ {0} /\ DOMAIN ns = 1 .. Len(ns) /\ Len(ns) \in Nat
      /\ IsSeq(ts) /\ IsSeq(ns) /\ Len(ts) = a + 1
  BY HeldSound
<1>2. \A i \in DOMAIN ns : IsNode(ns[i], i - 1, a) /\ Binds(ns[i], w)
  BY HeldSound
<1>3. /\ w.kind = KindsOf(ts) /\ w.level = LevelsOf(ns, ts)
      /\ DOMAIN w.level = DOMAIN ns /\ w.start = [i \in DOMAIN ns |-> ns[i].from]
      /\ w.derived = {i \in DOMAIN ns : ns[i].type.by # <<>>}
  BY ONLY w = WorldOf(ns, ts, a), WorldIs
<1>4. /\ v.at = a /\ v.kind = KindsOf(ts) /\ v.level = LevelsOf(ms, ts)
      /\ DOMAIN v.level = DOMAIN ms /\ v.start = [i \in DOMAIN ms |-> ms[i].from]
      /\ v.derived = {i \in DOMAIN ms : ms[i].type.by # <<>>}
  BY ONLY v = WorldOf(ms, ts, a), WorldIs
<1>5. /\ IsSeq(ms) /\ Len(ms) = Len(ns) /\ DOMAIN ms = DOMAIN ns /\ ms[n] = u
      /\ \A i \in DOMAIN ns \ {n} : ms[i] = ns[i]
  <2> PICK S : S = Elements(ns) \cup {u}
    OBVIOUS
  <2>1. ns \in Seq(S) /\ u \in S
    BY ONLY <1>1, S = Elements(ns) \cup {u} DEF IsSeq
  <2>2. ms \in Seq(S) /\ Len(ms) = Len(ns)
    BY ONLY <2>1, ms = Put(ns, n, u), n \in DOMAIN ns DEF Put
  <2>3. IsSeq(ms)
    BY ONLY <2>2, IsSeqOf
  <2>4. DOMAIN ms = DOMAIN ns /\ ms[n] = u /\ \A i \in DOMAIN ns \ {n} : ms[i] = ns[i]
    BY ONLY ms = Put(ns, n, u), n \in DOMAIN ns DEF Put
  <2> QED BY ONLY <2>2, <2>3, <2>4
<1>6. w.level[n] \in 0 .. 16 /\ w.start[n] \in Nat /\ n \in DOMAIN w.level
  BY ONLY <1>1, <1>3, n \in DOMAIN ns DEF Sound
<1>7. ns[n].closed \in Nat
  BY ONLY <1>2, n \in DOMAIN ns, NodeRange
<1>8. /\ w.level[n] >= 1 /\ ns[n].kind \in Valued
      /\ v.level[n] \in {w.level[n], 16} /\ v.level[n] >= 14 /\ (f.kind = "parens" => v.level[n] = 16)
  <2> PICK p : p = Precedence(Kind(ts[ns[n].tok]))
    OBVIOUS
  <2> PICK l : l = LevelOf(ns[n].kind, p)
    OBVIOUS
  <2>1. w.level[n] = IF ns[n].kind \in Valued /\ ns[n].closed > 0 THEN 16 ELSE l
    BY ONLY n \in DOMAIN ns, <1>3, p = Precedence(Kind(ts[ns[n].tok])), l = LevelOf(ns[n].kind, p),
            LevelIs
  <2>2. v.level[n] = IF u.kind \in Valued /\ u.closed > 0 THEN 16 ELSE l
    BY ONLY <1>0, n \in DOMAIN ns, <1>4, <1>5, p = Precedence(Kind(ts[ns[n].tok])),
            l = LevelOf(ns[n].kind, p), LevelIs
  <2>3. w.level[n] >= 1 /\ (f.kind = "parens" \/ w.level[n] >= 14)
    BY ONLY <1>0, <1>6 DEF Fit
  <2>4. ns[n].kind \in Valued
    <3>1. CASE w.level[n] = l
      BY ONLY <2>3, <3>1, l = LevelOf(ns[n].kind, p), Leveled
    <3> QED BY ONLY <2>1, <3>1
  <2>5. CASE f.kind = "parens"
    <3>1. u.closed > 0
      BY ONLY <1>0, <2>5, <1>7
    <3>2. v.level[n] = 16
      BY ONLY <1>0, <2>2, <2>4, <3>1
    <3> QED BY ONLY <2>3, <2>4, <3>2
  <2>6. CASE f.kind # "parens"
    <3>1. u.closed = ns[n].closed
      BY ONLY <1>0, <2>6
    <3>2. v.level[n] = w.level[n]
      BY ONLY <1>0, <2>1, <2>2, <3>1
    <3> QED BY ONLY <2>3, <2>4, <2>6, <3>2
  <2> QED BY ONLY <2>5, <2>6
<1>9. ASSUME NEW i \in DOMAIN ns, i # n PROVE v.level[i] = w.level[i] /\ v.start[i] = w.start[i]
  <2>1. ms[i] = ns[i] /\ i \in DOMAIN ms
    BY ONLY <1>5, <1>9
  <2>2. LevelsOf(ms, ts)[i] = LevelsOf(ns, ts)[i]
    BY ONLY <2>1, i \in DOMAIN ns, LevelIs
  <2> QED BY ONLY <1>3, <1>4, <2>1, <2>2, i \in DOMAIN ns
<1>10. w.derived \subseteq v.derived
  BY ONLY <1>0, <1>3, <1>4, <1>5
<1>11. Reads(w, v)
  <2>1. v.at >= w.at
    BY ONLY <1>1, <1>4
  <2> QED BY ONLY <1>3, <1>4, <2>1 DEF Reads
<1>12. Later(w, v)
  <2>1. ASSUME NEW i \in DOMAIN w.level
        PROVE i \in DOMAIN v.level /\ v.level[i] >= w.level[i]
          /\ (v.level[i] >= 14 \/ v.start[i] = w.start[i])
    <3>1. w.level[i] \in 0 .. 16
      BY ONLY <1>1, i \in DOMAIN w.level DEF Sound
    <3>2. i \in DOMAIN ns /\ i \in DOMAIN v.level
      BY ONLY <1>3, <1>4, <1>5, i \in DOMAIN w.level
    <3>3. CASE i = n
      BY ONLY <3>1, <3>2, <3>3, <1>8
    <3>4. CASE i # n
      BY ONLY <3>1, <3>2, <3>4, <1>9
    <3> QED BY ONLY <3>3, <3>4
  <2> QED BY ONLY <2>1, <1>10, <1>11 DEF Later
<1>13. Sound(v)
  <2>1. ASSUME NEW i \in DOMAIN v.level PROVE v.level[i] \in 0 .. 16 /\ v.start[i] \in Nat
    <3>1. CASE i # n
      <4>0. i \in DOMAIN ns
        BY ONLY <1>4, <1>5, i \in DOMAIN v.level
      <4>1. w.level[i] \in 0 .. 16 /\ w.start[i] \in Nat
        BY ONLY <1>1, <1>3, <4>0 DEF Sound
      <4> QED BY ONLY <4>0, <4>1, <1>9, <3>1
    <3>2. CASE i = n
      <4>1. v.level[n] \in 0 .. 16
        BY ONLY <1>6, <1>8
      <4>2. v.start[n] = u.from
        BY ONLY <1>4, <1>5, n \in DOMAIN ns
      <4>3. u.from \in 1 .. a
        BY NodeRange
      <4>4. u.from \in Nat
        BY ONLY <4>3
      <4> QED BY ONLY <3>2, <4>1, <4>2, <4>4
    <3> QED BY ONLY <3>1, <3>2
  <2> QED BY ONLY <2>1, <1>1, <1>4 DEF Sound
<1>14. NodesSound(ms, v)
  <2> SUFFICES ASSUME NEW i \in DOMAIN ms PROVE IsNode(ms[i], i - 1, v.at) /\ Binds(ms[i], v)
    BY <1>5 DEF NodesSound
  <2>1. IsNode(ms[i], i - 1, a) /\ Binds(ms[i], w)
    <3>1. CASE i # n
      BY ONLY <3>1, <1>2, <1>5, i \in DOMAIN ms
    <3>2. CASE i = n
      <4>1. Binds(ns[n], w)
        BY ONLY <1>2, n \in DOMAIN ns
      <4>2. u.kind # "IF"
        BY ONLY <1>0, <1>8 DEF Valued
      <4>3. Binds(u, w)
        BY ONLY <1>0, <4>1, <4>2 DEF Binds
      <4> QED BY ONLY <3>2, <4>3, <1>5, IsNode(u, n - 1, a)
    <3> QED BY ONLY <3>1, <3>2
  <2>2. IsNode(ms[i], i - 1, w.at)
    BY ONLY <2>1, <1>1
  <2>3. Binds(ms[i], v)
    BY ONLY <2>1, <2>2, <1>1, <1>12, <1>13, BindsLater
  <2> QED BY ONLY <2>1, <2>3, <1>4
<1> QED BY ONLY <1>1, <1>3, <1>4, <1>5, <1>8, <1>12, <1>14, v = WorldOf(ms, ts, a) DEF Held

-----------------------------------------------------------------------------
(* What an action does to the innermost call.                              *)

Edit(f, k, b, s, t, y) ==
    [kind |-> k, from |-> f.from, at |-> b, kids |-> s, todo |-> t, type |-> y, min |-> f.min]

LEMMA EditIs ==
    ASSUME NEW f, NEW k, NEW b, NEW s, NEW t, NEW y, NEW g, g = Edit(f, k, b, s, t, y)
    PROVE  /\ g.kind = k /\ g.from = f.from /\ g.at = b /\ g.kids = s /\ g.todo = t /\ g.type = y
           /\ g.min = f.min
  BY DEF Edit

LEMMA EditFrame ==
    ASSUME NEW f, NEW n, NEW a, IsFrame(f, n, a), NEW c, a \in Nat, c \in Nat, a <= c,
           NEW k, NEW b \in 1 .. c, NEW s \in Seq(0 .. n), NEW t, NEW y, IsType(y, n, c)
    PROVE  IsFrame(Edit(f, k, b, s, t, y), n, c)
<1>1. f.from \in 1 .. a /\ f.min \in 0 .. 11
  BY FrameRange
<1>2. f.from \in 1 .. c
  BY ONLY <1>1, a \in Nat, c \in Nat, a <= c
<1> PICK g : g = Edit(f, k, b, s, t, y)
  OBVIOUS
<1>3. /\ g.kind = k /\ g.from = f.from /\ g.at = b /\ g.kids = s /\ g.todo = t /\ g.type = y
      /\ g.min = f.min
  BY ONLY g = Edit(f, k, b, s, t, y), EditIs
<1>4. g = [kind |-> g.kind, from |-> g.from, at |-> g.at, kids |-> g.kids,
           todo |-> g.todo, type |-> g.type, min |-> g.min]
  BY ONLY <1>3, g = Edit(f, k, b, s, t, y) DEF Edit
<1>5. g.from \in 1 .. c /\ g.at \in 1 .. c /\ g.min \in 0 .. 11 /\ g.kids \in Seq(0 .. n)
        /\ IsType(g.type, n, c)
  BY ONLY <1>1, <1>2, <1>3, b \in 1 .. c, s \in Seq(0 .. n), IsType(y, n, c)
<1> QED BY ONLY <1>4, <1>5, g = Edit(f, k, b, s, t, y) DEF IsFrame

LEMMA Edits ==
    ASSUME NEW f, NEW n, NEW a, IsFrame(f, n, a)
    PROVE  /\ f = Edit(f, f.kind, f.at, f.kids, f.todo, f.type)
           /\ \A t : [f EXCEPT !.todo = t] = Edit(f, f.kind, f.at, f.kids, t, f.type)
           /\ \A s : [f EXCEPT !.kids = s] = Edit(f, f.kind, f.at, s, f.todo, f.type)
           /\ \A y : [f EXCEPT !.type = y] = Edit(f, f.kind, f.at, f.kids, f.todo, y)
<1>1. f = [kind |-> f.kind, from |-> f.from, at |-> f.at, kids |-> f.kids,
            todo |-> f.todo, type |-> f.type, min |-> f.min]
  BY ONLY IsFrame(f, n, a) DEF IsFrame
<1>3. f = Edit(f, f.kind, f.at, f.kids, f.todo, f.type)
  BY ONLY <1>1 DEF Edit
<1>4. ASSUME NEW t PROVE [f EXCEPT !.todo = t] = Edit(f, f.kind, f.at, f.kids, t, f.type)
  <2> PICK g : g = [f EXCEPT !.todo = t]
    OBVIOUS
  <2>1. /\ g = [kind |-> g.kind, from |-> g.from, at |-> g.at, kids |-> g.kids,
                todo |-> g.todo, type |-> g.type, min |-> g.min]
        /\ g.kind = f.kind /\ g.from = f.from /\ g.at = f.at /\ g.kids = f.kids /\ g.todo = t
        /\ g.type = f.type
        /\ g.min = f.min
    BY ONLY <1>1, g = [f EXCEPT !.todo = t]
  <2>2. g = Edit(f, f.kind, f.at, f.kids, t, f.type)
    BY ONLY <2>1 DEF Edit
  <2> QED BY <2>2
<1>6. ASSUME NEW s PROVE [f EXCEPT !.kids = s] = Edit(f, f.kind, f.at, s, f.todo, f.type)
  <2> PICK g : g = [f EXCEPT !.kids = s]
    OBVIOUS
  <2>1. /\ g = [kind |-> g.kind, from |-> g.from, at |-> g.at, kids |-> g.kids,
                todo |-> g.todo, type |-> g.type, min |-> g.min]
        /\ g.kind = f.kind /\ g.from = f.from /\ g.at = f.at /\ g.kids = s /\ g.todo = f.todo
        /\ g.type = f.type
        /\ g.min = f.min
    BY ONLY <1>1, g = [f EXCEPT !.kids = s]
  <2>2. g = Edit(f, f.kind, f.at, s, f.todo, f.type)
    BY ONLY <2>1 DEF Edit
  <2> QED BY <2>2
<1>8. ASSUME NEW y PROVE [f EXCEPT !.type = y] = Edit(f, f.kind, f.at, f.kids, f.todo, y)
  <2> PICK g : g = [f EXCEPT !.type = y]
    OBVIOUS
  <2>1. /\ g = [kind |-> g.kind, from |-> g.from, at |-> g.at, kids |-> g.kids,
                todo |-> g.todo, type |-> g.type, min |-> g.min]
        /\ g.kind = f.kind /\ g.from = f.from /\ g.at = f.at /\ g.kids = f.kids /\ g.todo = f.todo
        /\ g.type = y
        /\ g.min = f.min
    BY ONLY <1>1, g = [f EXCEPT !.type = y]
  <2>2. g = Edit(f, f.kind, f.at, f.kids, f.todo, y)
    BY ONLY <2>1 DEF Edit
  <2> QED BY <2>2
<1> QED BY ONLY <1>3, <1>4, <1>6, <1>8

LEMMA EditAll ==
    ASSUME NEW f, NEW n, NEW a, IsFrame(f, n, a), NEW k, NEW b, NEW t, NEW g,
    g = [f EXCEPT !.kind = k, !.at = b, !.todo = t]
    PROVE  g = Edit(f, k, b, f.kids, t, f.type)
<1>1. f = [kind |-> f.kind, from |-> f.from, at |-> f.at, kids |-> f.kids,
            todo |-> f.todo, type |-> f.type, min |-> f.min]
  BY ONLY IsFrame(f, n, a) DEF IsFrame
<1>2. /\ g = [kind |-> g.kind, from |-> g.from, at |-> g.at, kids |-> g.kids,
              todo |-> g.todo, type |-> g.type, min |-> g.min]
      /\ g.kind = k /\ g.from = f.from /\ g.at = b /\ g.kids = f.kids /\ g.todo = t /\ g.type = f.type
      /\ g.min = f.min
  BY ONLY <1>1, g = [f EXCEPT !.kind = k, !.at = b, !.todo = t]
<1> QED BY ONLY <1>2 DEF Edit

LEMMA EditTwo ==
    ASSUME NEW f, NEW n, NEW a, IsFrame(f, n, a), NEW k, NEW t, NEW g, g = [f EXCEPT !.kind = k,
    !.todo = t]
    PROVE  g = Edit(f, k, f.at, f.kids, t, f.type)
<1>1. f = [kind |-> f.kind, from |-> f.from, at |-> f.at, kids |-> f.kids,
            todo |-> f.todo, type |-> f.type, min |-> f.min]
  BY ONLY IsFrame(f, n, a) DEF IsFrame
<1>2. /\ g = [kind |-> g.kind, from |-> g.from, at |-> g.at, kids |-> g.kids,
              todo |-> g.todo, type |-> g.type, min |-> g.min]
      /\ g.kind = k /\ g.from = f.from /\ g.at = f.at /\ g.kids = f.kids /\ g.todo = t
      /\ g.type = f.type
      /\ g.min = f.min
  BY ONLY <1>1, g = [f EXCEPT !.kind = k, !.todo = t]
<1> QED BY ONLY <1>2 DEF Edit

LEMMA EditKids ==
    ASSUME NEW f, NEW k, NEW b, NEW s, NEW t, NEW y, NEW e, e = Edit(f, k, b, s, t, y), NEW z,
           NEW g, g = [e EXCEPT !.kids = z]
    PROVE  g = Edit(f, k, b, z, t, y)
<1>1. /\ e = [kind |-> e.kind, from |-> e.from, at |-> e.at, kids |-> e.kids,
              todo |-> e.todo, type |-> e.type, min |-> e.min]
      /\ e.kind = k /\ e.from = f.from /\ e.at = b /\ e.kids = s /\ e.todo = t /\ e.type = y
      /\ e.min = f.min
  BY ONLY e = Edit(f, k, b, s, t, y) DEF Edit
<1>2. /\ g = [kind |-> g.kind, from |-> g.from, at |-> g.at, kids |-> g.kids,
              todo |-> g.todo, type |-> g.type, min |-> g.min]
      /\ g.kind = k /\ g.from = f.from /\ g.at = b /\ g.kids = z /\ g.todo = t /\ g.type = y
      /\ g.min = f.min
  BY ONLY <1>1, g = [e EXCEPT !.kids = z]
<1> QED BY ONLY <1>2 DEF Edit

LEMMA EditAt ==
    ASSUME NEW f, NEW k, NEW b, NEW s, NEW t, NEW y, NEW e, e = Edit(f, k, b, s, t, y), NEW z,
           NEW g, g = [e EXCEPT !.at = z]
    PROVE  g = Edit(f, k, z, s, t, y)
<1>1. /\ e = [kind |-> e.kind, from |-> e.from, at |-> e.at, kids |-> e.kids,
              todo |-> e.todo, type |-> e.type, min |-> e.min]
      /\ e.kind = k /\ e.from = f.from /\ e.at = b /\ e.kids = s /\ e.todo = t /\ e.type = y
      /\ e.min = f.min
  BY ONLY e = Edit(f, k, b, s, t, y) DEF Edit
<1>2. /\ g = [kind |-> g.kind, from |-> g.from, at |-> g.at, kids |-> g.kids,
              todo |-> g.todo, type |-> g.type, min |-> g.min]
      /\ g.kind = k /\ g.from = f.from /\ g.at = z /\ g.kids = s /\ g.todo = t /\ g.type = y
      /\ g.min = f.min
  BY ONLY <1>1, g = [e EXCEPT !.at = z]
<1> QED BY ONLY <1>2 DEF Edit

(* What is left to do is a list.                                           *)
LEMMA TodoListed ==
    ASSUME NEW f, NEW w, Stands(f, w)
    PROVE  IsSeq(f.todo)
<1>1. CASE OperandCall(f, w)
  BY ONLY <1>1, LeftFacts DEF OperandCall
<1>2. CASE OperandNode(f, w)
  BY ONLY <1>2, LeftFacts DEF OperandNode
<1>3. CASE DeclaratorStands(f, w)
  <2>1. CASE Dimension(f, w)
    BY ONLY <2>1, LeftFacts DEF Dimension
  <2> QED BY ONLY <1>3, <2>1, LeftFacts DEF DeclaratorStands, Naming, Parametric
<1>4. CASE StatementStands(f, w)
  <2>1. CASE f.todo \in Seq(PlainStep)
    BY ONLY <2>1, IsSeqOf
  <2> QED BY ONLY <1>4, <2>1, LeftFacts DEF StatementStands, DeclStands, VarDeclStands, IfStands
<1> QED BY ONLY Stands(f, w), <1>1, <1>2, <1>3, <1>4 DEF Stands

(* The call that goes on, in a state.                                      *)
LEMMA Situation ==
    ASSUME Inv, Going, NEW f, f = top, NEW w, w = World
    PROVE  /\ IsFrame(f, Len(nodes), w.at) /\ Rooted(f, w) /\ Stands(f, w) /\ Sound(w)
           /\ w.at = at /\ at \in Nat \ {0} /\ w.at \in Nat /\ Len(nodes) \in Nat
           /\ DOMAIN w.level = 1 .. Len(nodes) /\ DOMAIN nodes = 1 .. Len(nodes)
           /\ 0 \notin DOMAIN w.level
           /\ Cur = w.kind[w.at] /\ IsSeq(f.todo) /\ IsSeq(Tail(goals))
           /\ StackSound(goals, Len(nodes), w)
           /\ Under(f, Tail(goals), Len(nodes), w) /\ goals # <<>> /\ IsSeq(goals)
<1>1. Held(nodes, toks, at) /\ StackSound(goals, Len(nodes), w) /\ goals # <<>>
  BY DEF Inv, Going
<1>2. /\ Sound(w) /\ w.at = at /\ at \in Nat \ {0} /\ Len(nodes) \in Nat
      /\ DOMAIN w.level = 1 .. Len(nodes)
      /\ DOMAIN nodes = 1 .. Len(nodes) /\ 0 \notin DOMAIN w.level
      /\ \A i \in 1 .. (at + 1) : w.kind[i] = Kind(toks[i])
  BY ONLY <1>1, w = World, HeldSound DEF World
<1>3. /\ IsFrame(Head(goals), Len(nodes), w.at) /\ Rooted(Head(goals), w) /\ Stands(Head(goals), w)
      /\ Under(Head(goals), Tail(goals), Len(nodes), w) /\ IsSeq(Tail(goals))
  BY ONLY <1>1, Top
<1>4. at \in 1 .. (at + 1) /\ w.at \in Nat
  BY ONLY <1>2
<1>5. Cur = w.kind[w.at]
  BY ONLY <1>2, <1>4 DEF Cur
<1>6. IsSeq(Head(goals).todo)
  BY ONLY <1>3, TodoListed
<1>7. IsSeq(goals)
  BY ONLY <1>1 DEF StackSound
<1> QED BY ONLY <1>1, <1>2, <1>3, <1>4, <1>5, <1>6, <1>7, f = top DEF top

(* P->cur moves on by a token, or stays.                                   *)
LEMMA Turn ==
    ASSUME Inv, UNCHANGED nodes, Stay \/ parse_advance, NEW w, w = World, NEW v, v = World'
    PROVE  /\ Moves(w, v) /\ Later(w, v) /\ Sound(w) /\ Sound(v) /\ Held(nodes, toks, at)'
           /\ w.at = at /\ v.at = at' /\ w.at <= v.at /\ v.at \in Nat /\ Len(nodes') = Len(nodes)
           /\ (Stay => v = w) /\ (parse_advance => v.at = w.at + 1)
<1>0. Held(nodes, toks, at)
  BY DEF Inv
<1>1. CASE Stay
  <2>1. v = w /\ Held(nodes, toks, at)'
    BY ONLY <1>0, <1>1, UNCHANGED nodes, w = World, v = World' DEF World, Stay
  <2>2. Sound(w) /\ w.at = at /\ at \in Nat \ {0}
    BY ONLY <1>0, w = World, HeldSound DEF World
  <2>3. at' = at
    BY ONLY <1>1 DEF Stay
  <2>4. w.at >= w.at /\ w.at \in Nat /\ w.at <= w.at /\ at # at + 1
    BY ONLY <2>2
  <2>5. Reads(w, v)
    BY ONLY <2>1, <2>4 DEF Reads
  <2>6. Moves(w, v)
    BY ONLY <2>1, <2>4, <2>5 DEF Moves
  <2>7. ASSUME NEW n \in DOMAIN w.level PROVE w.level[n] >= w.level[n]
    <3>1. w.level[n] \in 0 .. 16
      BY ONLY <2>2, n \in DOMAIN w.level DEF Sound
    <3> QED BY ONLY <3>1
  <2>8. Later(w, v)
    BY ONLY <2>1, <2>5, <2>7 DEF Later
  <2>9. ~parse_advance
    BY ONLY <2>3, <2>4 DEF parse_advance
  <2> QED BY ONLY <2>1, <2>2, <2>3, <2>4, <2>6, <2>8, <2>9, UNCHANGED nodes
<1>2. CASE parse_advance
  <2>1. PICK t : toks' = Append(toks, t)
    BY ONLY <1>2 DEF parse_advance
  <2>2. at' = at + 1
    BY ONLY <1>2 DEF parse_advance
  <2>3. w = WorldOf(nodes, toks, at) /\ v = WorldOf(nodes, toks', at + 1)
    BY ONLY <2>2, UNCHANGED nodes, w = World, v = World' DEF World
  <2>4. Moves(w, v) /\ Later(w, v) /\ Held(nodes, toks', at + 1)
    BY ONLY <1>0, <2>1, <2>3, WorldReads
  <2>5. Sound(w) /\ w.at = at /\ at \in Nat \ {0}
    BY ONLY <1>0, <2>3, HeldSound
  <2>6. Sound(v) /\ v.at = at + 1
    BY ONLY <2>3, <2>4, HeldSound
  <2>7. Held(nodes, toks, at)'
    BY ONLY <2>2, <2>4, UNCHANGED nodes
  <2>8. at <= at + 1 /\ at + 1 \in Nat /\ at # at + 1
    BY ONLY <2>5
  <2>9. ~Stay
    BY ONLY <2>2, <2>8 DEF Stay
  <2> QED BY ONLY <2>2, <2>4, <2>5, <2>6, <2>7, <2>8, <2>9, UNCHANGED nodes
<1> QED BY <1>1, <1>2

(* The second of several is the first of the rest.                         *)
LEMMA SecondOf ==
    ASSUME NEW s, IsSeq(s), s # <<>>, Len(s) # 1
    PROVE  Tail(s) # <<>> /\ s[2] = Head(Tail(s))
<1> PICK S : S = Elements(s)
  OBVIOUS
<1> PICK t : t = Tail(s)
  OBVIOUS
<1>1. s \in Seq(S)
  BY DEF IsSeq
<1>2. t \in Seq(S) /\ Len(t) = Len(s) - 1 /\ \A i \in 1 .. Len(t) : t[i] = s[i + 1]
  BY ONLY <1>1, s # <<>>, t = Tail(s), HeadTailProperties
<1>0. Len(s) \in Nat /\ Len(s) # 0
  BY ONLY <1>1, s # <<>>, EmptySeq
<1>3. Len(s) >= 2
  <2> PICK n : n = Len(s)
    OBVIOUS
  <2>1. n \in Nat /\ n # 0 /\ n # 1
    BY ONLY <1>0, Len(s) # 1, n = Len(s)
  <2>2. n >= 2
    BY ONLY <2>1
  <2> QED BY ONLY <2>2, n = Len(s)
<1>4. Len(t) >= 1 /\ t # <<>>
  BY ONLY <1>1, <1>2, <1>3
<1>5. 1 \in 1 .. Len(t) /\ 1 + 1 = 2
  BY ONLY <1>2, <1>4
<1>6. t[1] = s[2]
  BY ONLY <1>2, <1>5
<1>7. Head(t) = t[1]
  BY ONLY <1>2, <1>4
<1> QED BY ONLY <1>4, <1>6, <1>7, t = Tail(s)

(* The innermost call goes on as g.                                        *)
LEMMA GoesOn ==
    ASSUME Inv, Going, Stay \/ parse_advance, NEW f, f = top, NEW w, w = World, NEW v, v = World',
           NEW g, Go(<<g>>), IsFrame(g, Len(nodes), v.at), Rooted(g, v), Stands(g, v), Keeps(f, g,
           w, v)
    PROVE  Inv'
<1>0. UNCHANGED nodes /\ goals' = <<g>> \o Tail(goals) /\ UNCHANGED <<file, status>>
  BY DEF Go
<1>1. /\ Later(w, v) /\ Sound(w) /\ Sound(v) /\ Held(nodes, toks, at)' /\ Len(nodes') = Len(nodes)
  BY <1>0, Turn
<1>2. /\ Len(nodes) \in Nat /\ StackSound(goals, Len(nodes), w) /\ goals # <<>> /\ IsSeq(Tail(goals))
  BY ONLY Inv, Going, w = World, Situation
<1>3. f = Head(goals) /\ Len(nodes) <= Len(nodes)
  BY ONLY <1>2, f = top DEF top
<1>4. StackSound(<<g>> \o Tail(goals), Len(nodes), v)
  BY ONLY <1>1, <1>2, <1>3, IsFrame(g, Len(nodes), v.at), Rooted(g, v), Stands(g, v), Keeps(f, g, w,
          v), Replaces
<1>5. goals' # <<>>
  BY ONLY <1>0, <1>2, JoinOne, ConsIs
<1>6. status' = "going" /\ file' \in Files
  BY ONLY <1>0, Inv, Going DEF Inv, Going
<1> QED BY ONLY <1>0, <1>1, <1>4, <1>5, <1>6, v = World' DEF Inv

(* It calls c, and goes on as d.                                           *)
LEMMA CallsOn ==
    ASSUME Inv, Going, Stay \/ parse_advance, NEW f, f = top, NEW w, w = World, NEW v, v = World',
           NEW c, NEW d, Go(<<c, d>>),
           IsFrame(c, Len(nodes), v.at), Rooted(c, v), Stands(c, v),
           IsFrame(d, Len(nodes), v.at), Rooted(d, v), Awaits(d, c, v), d.from <= c.from,
           Keeps(f, d, w, v)
    PROVE  Inv'
<1>0. UNCHANGED nodes /\ goals' = <<c, d>> \o Tail(goals) /\ UNCHANGED <<file, status>>
  BY DEF Go
<1>1. /\ Later(w, v) /\ Sound(w) /\ Sound(v) /\ Held(nodes, toks, at)' /\ Len(nodes') = Len(nodes)
  BY <1>0, Turn
<1>2. /\ Len(nodes) \in Nat /\ StackSound(goals, Len(nodes), w) /\ goals # <<>> /\ IsSeq(Tail(goals))
  BY ONLY Inv, Going, w = World, Situation
<1>3. f = Head(goals) /\ Len(nodes) <= Len(nodes)
  BY ONLY <1>2, f = top DEF top
<1>4. StackSound(<<c, d>> \o Tail(goals), Len(nodes), v)
  BY ONLY <1>1, <1>2, <1>3, IsFrame(c, Len(nodes), v.at), Rooted(c, v), Stands(c, v),
          IsFrame(d, Len(nodes), v.at), Rooted(d, v), Awaits(d, c, v), d.from <= c.from,
          Keeps(f, d, w, v), Pushes
<1>5. goals' # <<>>
  <2>0. <<c, d>> \o Tail(goals) = Onto(c, Onto(d, Tail(goals)))
    <3> PICK t : t = Tail(goals)
      OBVIOUS
    <3>1. IsSeq(t)
      BY ONLY <1>2, t = Tail(goals)
    <3>2. <<c, d>> \o t = Onto(c, Onto(d, t))
      BY ONLY <3>1, JoinTwo
    <3> QED BY ONLY <3>2, t = Tail(goals)
  <2>1. goals' = Onto(c, Onto(d, Tail(goals)))
    BY ONLY <1>0, <2>0
  <2>2. IsSeq(Onto(d, Tail(goals)))
    BY ONLY <1>2, ConsIs
  <2> QED BY ONLY <2>1, <2>2, ConsIs
<1>6. status' = "going" /\ file' \in Files
  BY ONLY <1>0, Inv, Going DEF Inv, Going
<1> QED BY ONLY <1>0, <1>1, <1>4, <1>5, <1>6, v = World' DEF Inv

(* It returns node k, or nothing, to its caller.                           *)
LEMMA ReturnsOn ==
    ASSUME Inv, Going, NEW f, f = top, NEW w, w = World, NEW v, v = World',
           Later(w, v), Held(nodes, toks, at)', Len(nodes) <= Len(nodes'),
           NEW k \in 0 .. Len(nodes'), Result(f, k, w, v),
           NEW type, Len(goals) # 1 => IsType(type, Len(nodes'), v.at), Returns(k, type)
    PROVE  Inv'
<1>1. Sound(v) /\ Len(nodes') \in Nat
  <2>1. v = WorldOf(nodes', toks', at')
    BY DEF World
  <2>2. Held(nodes', toks', at')
    OBVIOUS
  <2> QED BY ONLY <2>1, <2>2, HeldSound
<1>2. /\ Len(nodes) \in Nat /\ StackSound(goals, Len(nodes), w) /\ goals # <<>> /\ IsSeq(goals)
      /\ IsSeq(Tail(goals)) /\ Sound(w)
  BY ONLY Inv, Going, w = World, Situation
<1>3. f = Head(goals) /\ file' \in Files /\ status = "going"
  BY ONLY f = top, Inv, Going, Returns(k, type) DEF top, Inv, Going, Returns
<1>4. CASE Len(goals) = 1
  <2>1. goals' = <<>> /\ status' = "done"
    BY ONLY <1>4, Returns(k, type) DEF Returns
  <2>2. StackSound(goals', Len(nodes'), v)
    BY ONLY <2>1, NilIsSeq DEF StackSound
  <2> QED BY ONLY <1>3, <2>1, <2>2, v = World', Held(nodes, toks, at)' DEF Inv
<1>5. CASE Len(goals) # 1
  <2>1. Tail(goals) # <<>> /\ goals[2] = Head(Tail(goals))
    BY ONLY <1>2, <1>5, SecondOf
  <2> PICK h : h = Head(Tail(goals))
    OBVIOUS
  <2> PICK g : g = [h EXCEPT !.type = type, !.kids = IF k = 0 THEN @ ELSE Append(@, k)]
    OBVIOUS
  <2>2. goals' = <<g>> \o Tail(Tail(goals)) /\ status' = status
    <3> PICK y : y = [h EXCEPT !.type = type]
      OBVIOUS
    <3>0. IsFrame(h, Len(nodes), w.at)
      <4>1. Under(f, Tail(goals), Len(nodes), w)
        BY ONLY <1>2, <1>3, Top
      <4>2. Bears(h, f, Len(nodes), w)
        BY ONLY <4>1, <2>1, UnderShrinks, h = Head(Tail(goals))
      <4> QED BY ONLY <4>2 DEF Bears
    <3>1. g = IF k = 0 THEN y ELSE WithKid(y, k)
      <4>0. h = [kind |-> h.kind, from |-> h.from, at |-> h.at, kids |-> h.kids,
                 todo |-> h.todo, type |-> h.type, min |-> h.min]
        BY ONLY <3>0 DEF IsFrame
      <4>1. CASE k = 0
        <5> PICK s : s = h.kids
          OBVIOUS
        <5>1. g = [h EXCEPT !.type = type, !.kids = s]
          BY ONLY <4>1, g = [h EXCEPT !.type = type, !.kids = IF k = 0 THEN @ ELSE Append(@, k)],
                  s = h.kids
        <5>2. /\ g.kind = h.kind /\ g.from = h.from /\ g.at = h.at /\ g.kids = s
              /\ g.todo = h.todo /\ g.type = type /\ g.min = h.min
              /\ g = [kind |-> g.kind, from |-> g.from, at |-> g.at, kids |-> g.kids,
                      todo |-> g.todo, type |-> g.type, min |-> g.min]
          BY ONLY <4>0, <5>1
        <5>3. y = Edit(h, h.kind, h.at, h.kids, h.todo, type)
          BY ONLY <3>0, Edits, y = [h EXCEPT !.type = type]
        <5>4. g = Edit(h, h.kind, h.at, s, h.todo, type)
          BY ONLY <5>2 DEF Edit
        <5> QED BY ONLY <4>1, <5>3, <5>4, s = h.kids
      <4>2. CASE k # 0
        <5> PICK s : s = Append(h.kids, k)
          OBVIOUS
        <5>1. g = [h EXCEPT !.type = type, !.kids = s]
          BY ONLY <4>2, g = [h EXCEPT !.type = type, !.kids = IF k = 0 THEN @ ELSE Append(@, k)],
                  s = Append(h.kids, k)
        <5>2. /\ g.kind = h.kind /\ g.from = h.from /\ g.at = h.at /\ g.kids = s
              /\ g.todo = h.todo /\ g.type = type /\ g.min = h.min
              /\ g = [kind |-> g.kind, from |-> g.from, at |-> g.at, kids |-> g.kids,
                      todo |-> g.todo, type |-> g.type, min |-> g.min]
          BY ONLY <4>0, <5>1
        <5>3. y = [kind |-> y.kind, from |-> y.from, at |-> y.at, kids |-> y.kids,
                   todo |-> y.todo, type |-> y.type, min |-> y.min]
              /\ y.kind = h.kind /\ y.from = h.from /\ y.at = h.at /\ y.kids = h.kids
              /\ y.todo = h.todo /\ y.type = type /\ y.min = h.min
          BY ONLY <4>0, y = [h EXCEPT !.type = type]
        <5> PICK x : x = WithKid(y, k)
          OBVIOUS
        <5>4. x = [y EXCEPT !.kids = s]
          BY ONLY <5>3, x = WithKid(y, k), s = Append(h.kids, k) DEF WithKid
        <5>5. /\ x.kind = y.kind /\ x.from = y.from /\ x.at = y.at /\ x.kids = s
              /\ x.todo = y.todo /\ x.type = y.type /\ x.min = y.min
              /\ x = [kind |-> x.kind, from |-> x.from, at |-> x.at, kids |-> x.kids,
                      todo |-> x.todo, type |-> x.type, min |-> x.min]
          BY ONLY <5>3, <5>4
        <5>6. x = g
          BY ONLY <5>2, <5>3, <5>5
        <5> QED BY ONLY <4>2, <5>6, x = WithKid(y, k)
      <4> QED BY ONLY <4>1, <4>2
    <3>2. goals' = <<IF k = 0 THEN y ELSE WithKid(y, k)>> \o Tail(Tail(goals)) /\ status' = status
      BY ONLY <1>5, <2>1, Returns(k, type), h = Head(Tail(goals)), y = [h EXCEPT !.type = type]
         DEF Returns
    <3> QED BY ONLY <3>1, <3>2
  <2>3. StackSound(<<g>> \o Tail(Tail(goals)), Len(nodes'), v)
    BY ONLY <1>1, <1>2, <1>3, <1>5, <2>1, Later(w, v), Len(nodes) <= Len(nodes'),
            k \in 0 .. Len(nodes'),
            Result(f, k, w, v), Len(goals) # 1 => IsType(type, Len(nodes'), v.at),
            h = Head(Tail(goals)),
            g = [h EXCEPT !.type = type, !.kids = IF k = 0 THEN @ ELSE Append(@, k)], Pops
  <2>4. goals' # <<>>
    <3>1. IsSeq(Tail(Tail(goals)))
      BY ONLY <1>2, <2>1, Uncons
    <3> QED BY ONLY <2>2, <3>1, JoinOne, ConsIs
  <2> QED BY ONLY <1>3, <2>2, <2>3, <2>4, v = World', Held(nodes, toks, at)' DEF Inv
<1> QED BY <1>4, <1>5

(* A return leaves the type of the caller as it is.                        *)
LEMMA ReturnOn ==
    ASSUME Inv, Going, NEW f, f = top, NEW w, w = World, NEW v, v = World',
           Later(w, v), Held(nodes, toks, at)', Len(nodes) <= Len(nodes'),
           NEW k \in 0 .. Len(nodes'), Result(f, k, w, v), Return(k)
    PROVE  Inv'
<1> PICK y : y = IF Len(goals) = 1 THEN NoType ELSE goals[2].type
  OBVIOUS
<1>1. Returns(k, y)
  BY ONLY Return(k), y = IF Len(goals) = 1 THEN NoType ELSE goals[2].type DEF Return
<1>2. Len(goals) # 1 => IsType(y, Len(nodes'), v.at)
  <2> SUFFICES ASSUME Len(goals) # 1 PROVE IsType(y, Len(nodes'), v.at)
    OBVIOUS
  <2>0. y = goals[2].type
    BY ONLY y = IF Len(goals) = 1 THEN NoType ELSE goals[2].type, Len(goals) # 1
  <2>1. /\ Len(nodes) \in Nat /\ StackSound(goals, Len(nodes), w) /\ goals # <<>> /\ IsSeq(goals)
        /\ w.at \in Nat
    BY ONLY Inv, Going, w = World, Situation
  <2>2. Under(Head(goals), Tail(goals), Len(nodes), w)
    BY ONLY <2>1, Top
  <2>3. Tail(goals) # <<>> /\ goals[2] = Head(Tail(goals))
    BY ONLY <2>1, Len(goals) # 1, SecondOf
  <2>4. Bears(goals[2], Head(goals), Len(nodes), w)
    <3>1. Bears(Head(Tail(goals)), Head(goals), Len(nodes), w)
      BY ONLY <2>2, <2>3, UnderShrinks
    <3> QED BY ONLY <2>3, <3>1
  <2>5. IsFrame(goals[2], Len(nodes), w.at)
    BY ONLY <2>4 DEF Bears
  <2>6. IsType(goals[2].type, Len(nodes), w.at)
    BY ONLY <2>5, FrameRange
  <2>7. Len(nodes') \in Nat /\ v.at \in Nat
    <3>1. v = WorldOf(nodes', toks', at')
      BY DEF World
    <3>2. Held(nodes', toks', at')
      OBVIOUS
    <3>3. Sound(v) /\ Len(nodes') \in Nat
      BY ONLY <3>1, <3>2, HeldSound
    <3> QED BY ONLY <3>3 DEF Sound
  <2>8. w.at <= v.at
    BY ONLY <2>1, <2>7, Later(w, v) DEF Later, Reads
  <2>9. IsType(goals[2].type, Len(nodes'), v.at)
    BY ONLY <2>1, <2>6, <2>7, <2>8, Len(nodes) <= Len(nodes'), TypeStays
  <2> QED BY ONLY <2>0, <2>9
<1> QED BY ONLY <1>1, <1>2, Inv, Going, f = top, w = World, v = World', Later(w, v), Held(nodes,
                toks, at)',
           Len(nodes) <= Len(nodes'), k \in 0 .. Len(nodes'), Result(f, k, w, v), ReturnsOn

-----------------------------------------------------------------------------
(* The actions.                                                            *)

LEMMA GoesEdit ==
    ASSUME Inv, Going, Stay \/ parse_advance, NEW f, f = top, NEW w, w = World, NEW v, v = World',
           NEW k, NEW b \in 1 .. v.at, NEW s \in Seq(0 .. Len(nodes)), NEW t, NEW y, IsType(y,
           Len(nodes), v.at),
           NEW g, g = Edit(f, k, b, s, t, y), Go(<<g>>), Rooted(g, v), Stands(g, v), Keeps(f, g, w,
           v)
    PROVE  Inv'
<1>1. UNCHANGED nodes
  BY DEF Go
<1>2. v.at \in Nat /\ w.at <= v.at
  BY ONLY <1>1, Inv, Stay \/ parse_advance, w = World, v = World', Turn
<1>3. IsFrame(f, Len(nodes), w.at) /\ w.at \in Nat
  BY ONLY Inv, Going, f = top, w = World, Situation
<1>4. IsFrame(g, Len(nodes), v.at)
  BY ONLY <1>2, <1>3, b \in 1 .. v.at, s \in Seq(0 .. Len(nodes)), IsType(y, Len(nodes), v.at),
          g = Edit(f, k, b, s, t, y), EditFrame
<1> QED BY ONLY <1>4, Inv, Going, Stay \/ parse_advance, f = top, w = World, v = World', Go(<<g>>),
            Rooted(g, v), Stands(g, v), Keeps(f, g, w, v), GoesOn

(* The same call goes on with other kids or other things to do.            *)
LEMMA GoesAlike ==
    ASSUME Inv, Going, Stay \/ parse_advance, NEW f, f = top, NEW w, w = World, NEW v, v = World',
           NEW s \in Seq(0 .. Len(nodes)), NEW t,
           NEW g, g = Edit(f, f.kind, f.at, s, t, f.type), Go(<<g>>), Rooted(g, v), Stands(g, v)
    PROVE  Inv'
<1>1. UNCHANGED nodes
  BY DEF Go
<1>2. v.at \in Nat /\ w.at <= v.at /\ Moves(w, v)
  BY ONLY <1>1, Inv, Stay \/ parse_advance, w = World, v = World', Turn
<1>3. IsFrame(f, Len(nodes), w.at) /\ w.at \in Nat /\ Len(nodes) \in Nat
  BY ONLY Inv, Going, f = top, w = World, Situation
<1>4. f.at \in 1 .. w.at /\ f.min \in Nat /\ IsType(f.type, Len(nodes), w.at)
  BY ONLY <1>3, FrameRange
<1>5. f.at \in 1 .. v.at
  BY ONLY <1>2, <1>3, <1>4
<1>6. IsType(f.type, Len(nodes), v.at)
  <2> PICK n : n = Len(nodes)
    OBVIOUS
  <2>1. n \in Nat /\ n <= n /\ IsType(f.type, n, w.at)
    BY ONLY <1>3, <1>4, n = Len(nodes)
  <2>2. IsType(f.type, n, v.at)
    BY ONLY <2>1, <1>2, <1>3, TypeStays
  <2> QED BY ONLY <2>2, n = Len(nodes)
<1>7. g.kind = f.kind /\ g.at = f.at /\ g.min = f.min /\ g.from = f.from
  BY ONLY g = Edit(f, f.kind, f.at, s, t, f.type), EditIs
<1>8. Reads(w, v)
  BY ONLY <1>2 DEF Moves
<1>9. Keeps(f, g, w, v)
  BY ONLY <1>3, <1>4, <1>7, <1>8, AlikeKeeps
<1> QED BY ONLY <1>5, <1>6, <1>9, Inv, Going, Stay \/ parse_advance, f = top, w = World, v = World',
            s \in Seq(0 .. Len(nodes)), g = Edit(f, f.kind, f.at, s, t, f.type), Go(<<g>>),
            Rooted(g, v), Stands(g, v), GoesEdit

LEMMA RejectInv ==
    ASSUME Inv, Going, Reject
    PROVE  Inv'
<1>1. UNCHANGED <<at, toks, file, goals, nodes>> /\ status' = "rejected" /\ goals # <<>>
  BY DEF Reject, Stay, Going
<1>2. World' = World
  BY ONLY <1>1 DEF World
<1>3. Held(nodes, toks, at)'
  BY ONLY <1>1, Inv DEF Inv
<1>4. StackSound(goals', Len(nodes'), World')
  BY ONLY <1>1, <1>2, Inv DEF Inv
<1> QED BY ONLY <1>1, <1>3, <1>4, Inv DEF Inv

(* What the innermost call is to do first.                                 *)
LEMMA TodoIs ==
    ASSUME top.todo # <<>>, NEW f, f = top
    PROVE  /\ f.todo # Nothing /\ todo = Foremost(f.todo) /\ todo[1] = Word(Foremost(f.todo))
           /\ todo[2] = Target(Foremost(f.todo)) /\ todo[3] = Callee(Foremost(f.todo))
  BY DEF todo, Nothing, Foremost, Word, Target, Callee

LEMMA DoneIs ==
    ASSUME Inv, Going, NEW f, f = top, NEW w, w = World
    PROVE  Done = Edit(f, f.kind, f.at, f.kids, Rest(f.todo), f.type)
<1>1. IsFrame(f, Len(nodes), w.at)
  BY ONLY Inv, Going, f = top, w = World, Situation
<1>2. [f EXCEPT !.todo = Rest(f.todo)] = Edit(f, f.kind, f.at, f.kids, Rest(f.todo), f.type)
  BY ONLY <1>1, Edits
<1> QED BY ONLY <1>2, f = top DEF Done, Rest

LEMMA InsteadIs ==
    ASSUME Inv, Going, NEW f, f = top, NEW w, w = World, NEW s
    PROVE  Instead(s) = Edit(f, f.kind, f.at, f.kids, s \o Rest(f.todo), f.type)
<1>1. IsFrame(f, Len(nodes), w.at)
  BY ONLY Inv, Going, f = top, w = World, Situation
<1>2. [f EXCEPT !.todo = s \o Rest(f.todo)] = Edit(f, f.kind, f.at, f.kids, s \o Rest(f.todo), f.type)
  BY ONLY <1>1, Edits
<1> QED BY ONLY <1>2, f = top DEF Instead, Rest

LEMMA RestListed ==
    ASSUME NEW f, IsSeq(f.todo), f.todo # Nothing
    PROVE  IsSeq(Rest(f.todo)) /\ f.todo = Onto(Foremost(f.todo), Rest(f.todo))
  BY Uncons DEF Rest, Foremost, Nothing

LEMMA ExpectInv ==
    ASSUME Inv, parse_expect
    PROVE  Inv'
<1> PICK f : f = top
  OBVIOUS
<1> PICK w : w = World
  OBVIOUS
<1> PICK v : v = World'
  OBVIOUS
<1> PICK g : g = Done
  OBVIOUS
<1>1. Going /\ top.todo # <<>> /\ todo[1] = "expect"
  BY ONLY parse_expect DEF parse_expect
<1>2. CASE Reject
  BY ONLY Inv, <1>1, <1>2, RejectInv
<1>3. CASE parse_advance /\ Go(<<Done>>)
  <2>1. /\ IsFrame(f, Len(nodes), w.at) /\ Rooted(f, w) /\ Stands(f, w)
    BY ONLY Inv, <1>1, f = top, w = World, Situation
  <2>2. UNCHANGED nodes
    BY ONLY <1>3 DEF Go
  <2>3. Moves(w, v)
    BY ONLY <2>2, Inv, <1>3, w = World, v = World', Turn
  <2>4. f.todo # Nothing /\ Word(Foremost(f.todo)) = "expect"
    BY ONLY <1>1, f = top, TodoIs
  <2>5. g = Edit(f, f.kind, f.at, f.kids, Rest(f.todo), f.type)
    BY ONLY Inv, <1>1, f = top, w = World, g = Done, DoneIs
  <2>6. Alike(f, g) /\ g.todo = Rest(f.todo)
    BY ONLY <2>5, EditIs DEF Alike
  <2>7. f.at \in 1 .. w.at /\ f.kids \in Seq(0 .. Len(nodes))
    BY ONLY <2>1, FrameRange, FrameKids
  <2>8. Stands(g, v)
    BY ONLY <2>1, <2>3, <2>4, <2>6, <2>7, Expect
  <2>9. Rooted(g, v)
    BY ONLY <2>1, <2>3, <2>6, AlikeRooted
  <2>10. Go(<<g>>)
    BY ONLY <1>3, g = Done
  <2> QED BY ONLY Inv, <1>1, <1>3, f = top, w = World, v = World', <2>5, <2>7, <2>8, <2>9, <2>10,
                  GoesAlike
<1> QED BY ONLY parse_expect, <1>2, <1>3 DEF parse_expect

LEMMA PlainType ==
    ASSUME NEW b, NEW n, NEW a
    PROVE  IsType(Plain(b), n, a)
<1> PICK S : S = [tok : 1 .. a, len : 0 .. n]
  OBVIOUS
<1>1. <<>> \in Seq(S)
  OBVIOUS
<1> QED BY <1>1 DEF Plain, IsType

(* A call as the code makes it.                                            *)
LEMMA EnterBegins ==
    ASSUME Inv, Going, NEW f, f = top, NEW w, w = World, NEW x \in Callables, NEW c, c = Enter(x)
    PROVE  /\ Begins(c, x, f, w) /\ IsFrame(c, Len(nodes), w.at) /\ Stands(c, w) /\ Rooted(c, w)
           /\ f.from <= c.from
<1>1. IsFrame(f, Len(nodes), w.at) /\ w.at = at /\ at \in Nat \ {0} /\ Sound(w)
  BY ONLY Inv, Going, f = top, w = World, Situation
<1>2. f.at \in 1 .. at /\ f.from \in 1 .. at /\ IsType(f.type, Len(nodes), w.at)
  BY ONLY <1>1, FrameRange
<1>3. \A i \in 1 .. (at + 1) : w.kind[i] = Kind(toks[i])
  BY ONLY Inv, w = World, HeldSound DEF Inv, World
<1>4. f.at \in 1 .. (at + 1) /\ at \in 1 .. at /\ f.from <= at
  BY ONLY <1>1, <1>2
<1>5. OperatorOf(f, w) = Precedence(Kind(toks[f.at]))
  BY ONLY <1>3, <1>4 DEF OperatorOf
<1> PICK m : m = IF f.kind = "BINARY" THEN Precedence(Kind(toks[f.at])) + 1 ELSE 0
  OBVIOUS
<1> PICK y : y = IF x \in {"declarator", "variable"} THEN f.type ELSE NoType
  OBVIOUS
<1>6. c = [kind |-> x, from |-> at, at |-> at, kids |-> <<>>, todo |-> Steps(x), type |-> y,
          min |-> m]
  BY ONLY c = Enter(x), f = top,
          m = IF f.kind = "BINARY" THEN Precedence(Kind(toks[f.at])) + 1 ELSE 0,
          y = IF x \in {"declarator", "variable"} THEN f.type ELSE NoType DEF Enter
<1>7. /\ c.kind = x /\ c.from = at /\ c.at = at /\ c.kids = <<>> /\ c.todo = Steps(x)
      /\ c.type = y /\ c.min = m
      /\ c = [kind |-> c.kind, from |-> c.from, at |-> c.at, kids |-> c.kids, todo |-> c.todo,
              type |-> c.type, min |-> c.min]
  BY ONLY <1>6
<1>8. Begins(c, x, f, w)
  BY ONLY <1>1, <1>5, <1>7, m = IF f.kind = "BINARY" THEN Precedence(Kind(toks[f.at])) + 1 ELSE 0
     DEF Begins, Nothing
<1>9. Stands(c, w) /\ Rooted(c, w) /\ c.min \in 0 .. 11
  BY ONLY <1>8, x \in Callables, BeginsStands
<1>10. IsType(y, Len(nodes), w.at)
  <2>1. IsType(NoType, Len(nodes), w.at)
    BY ONLY PlainType DEF NoType
  <2> QED BY ONLY <1>2, <2>1, y = IF x \in {"declarator", "variable"} THEN f.type ELSE NoType
<1>11. <<>> \in Seq(0 .. Len(nodes))
  <2> PICK S : S = 0 .. Len(nodes)
    OBVIOUS
  <2>1. <<>> \in Seq(S)
    OBVIOUS
  <2> QED BY ONLY <2>1, S = 0 .. Len(nodes)
<1>12. IsFrame(c, Len(nodes), w.at)
  BY ONLY <1>1, <1>4, <1>7, <1>9, <1>10, <1>11 DEF IsFrame
<1> QED BY ONLY <1>1, <1>2, <1>4, <1>7, <1>8, <1>9, <1>12

LEMMA CallsEdit ==
    ASSUME Inv, Going, Stay, NEW f, f = top, NEW w, w = World, NEW x \in Callables, NEW c,
    c = Enter(x),
           NEW t, NEW d, d = Edit(f, f.kind, f.at, f.kids, t, f.type), Go(<<c, d>>), Awaits(d, c, w)
    PROVE  Inv'
<1> PICK v : v = World'
  OBVIOUS
<1>1. UNCHANGED nodes
  BY DEF Go
<1>2. v = w /\ Moves(w, w)
  BY ONLY <1>1, Inv, Stay, w = World, v = World', Turn
<1>3. /\ IsFrame(f, Len(nodes), w.at) /\ w.at \in Nat /\ Rooted(f, w) /\ Len(nodes) \in Nat
  BY ONLY Inv, Going, f = top, w = World, Situation
<1>4. /\ f.at \in 1 .. w.at /\ f.min \in Nat /\ IsType(f.type, Len(nodes), w.at) /\ f.from \in Int
      /\ f.kids \in Seq(0 .. Len(nodes)) /\ w.at <= w.at
  BY ONLY <1>3, FrameRange, FrameKids
<1>5. /\ Begins(c, x, f, w) /\ IsFrame(c, Len(nodes), w.at) /\ Stands(c, w) /\ Rooted(c, w)
      /\ f.from <= c.from
  BY ONLY Inv, Going, f = top, w = World, x \in Callables, c = Enter(x), EnterBegins
<1>6. IsFrame(d, Len(nodes), w.at)
  BY ONLY <1>3, <1>4, d = Edit(f, f.kind, f.at, f.kids, t, f.type), EditFrame
<1>7. Alike(f, d)
  BY ONLY d = Edit(f, f.kind, f.at, f.kids, t, f.type), EditIs DEF Alike
<1>8. Rooted(d, w)
  BY ONLY <1>2, <1>3, <1>7, AlikeRooted
<1>9. d.from <= c.from
  BY ONLY <1>5, <1>7 DEF Alike
<1>10. Reads(w, w)
  BY ONLY <1>2 DEF Moves
<1>11. Keeps(f, d, w, w)
  BY ONLY <1>3, <1>4, <1>7, <1>10, AlikeKeeps DEF Alike
<1> QED BY ONLY Inv, Going, Stay, f = top, w = World, v = World', <1>2, <1>5, <1>6, <1>8, <1>9,
                <1>11,
            Awaits(d, c, w), Go(<<c, d>>), CallsOn

LEMMA CallInv ==
    ASSUME Inv, CallStep
    PROVE  Inv'
<1> PICK f : f = top
  OBVIOUS
<1> PICK w : w = World
  OBVIOUS
<1> PICK d : d = Done
  OBVIOUS
<1>1. Going /\ top.todo # <<>> /\ todo[1] = "call" /\ Stay /\ Go(<<Enter(todo[2]), Done>>)
  BY ONLY CallStep DEF CallStep
<1>2. IsFrame(f, Len(nodes), w.at) /\ Stands(f, w)
  BY ONLY Inv, <1>1, f = top, w = World, Situation
<1>3. f.todo # Nothing /\ Word(Foremost(f.todo)) = "call" /\ todo[2] = Target(Foremost(f.todo))
  BY ONLY <1>1, f = top, TodoIs
<1>4. PICK x \in Callables : Foremost(f.todo) = Call(x)
  BY ONLY <1>2, <1>3, CallsKnown
<1>5. todo[2] = x
  BY ONLY <1>3, <1>4, StepTags
<1> PICK c : c = Enter(x)
  OBVIOUS
<1>6. Go(<<c, d>>)
  BY ONLY <1>1, <1>5, c = Enter(x), d = Done
<1>7. d = Edit(f, f.kind, f.at, f.kids, Rest(f.todo), f.type)
  BY ONLY Inv, <1>1, f = top, w = World, d = Done, DoneIs
<1>8. Alike(f, d) /\ d.todo = Rest(f.todo)
  BY ONLY <1>7, EditIs DEF Alike
<1>9. Begins(c, x, f, w)
  BY ONLY Inv, <1>1, f = top, w = World, c = Enter(x), x \in Callables, EnterBegins
<1>10. f.min \in 0 .. 11
  BY ONLY <1>2, FrameRange
<1>11. Awaits(d, c, w)
  BY ONLY <1>2, <1>3, <1>4, <1>8, <1>9, <1>10, CallAwaits
<1> QED BY ONLY Inv, <1>1, <1>6, <1>7, <1>11, f = top, w = World, x \in Callables, c = Enter(x),
                CallsEdit

(* NULL becomes a kid.                                                     *)
LEMMA NullIs ==
    ASSUME Inv, Going, NEW f, f = top, NEW w, w = World
    PROVE  /\ WithKid(Done, 0) = Edit(f, f.kind, f.at, Append(f.kids, 0), Rest(f.todo), f.type)
           /\ Append(f.kids, 0) \in Seq(0 .. Len(nodes))
<1> PICK e : e = Done
  OBVIOUS
<1> PICK z : z = Append(f.kids, 0)
  OBVIOUS
<1> PICK r : r = Rest(f.todo)
  OBVIOUS
<1>0. IsFrame(f, Len(nodes), w.at) /\ Len(nodes) \in Nat
  BY ONLY Inv, Going, f = top, w = World, Situation
<1>1. e = Edit(f, f.kind, f.at, f.kids, r, f.type)
  BY ONLY Inv, Going, f = top, w = World, e = Done, r = Rest(f.todo), DoneIs
<1>2. e.kids = f.kids
  BY ONLY <1>1, EditIs
<1>3. WithKid(e, 0) = [e EXCEPT !.kids = z]
  BY ONLY <1>2, z = Append(f.kids, 0) DEF WithKid
<1>4. WithKid(e, 0) = Edit(f, f.kind, f.at, z, r, f.type)
  <2> PICK g : g = [e EXCEPT !.kids = z]
    OBVIOUS
  <2>1. g = Edit(f, f.kind, f.at, z, r, f.type)
    BY ONLY <1>1, g = [e EXCEPT !.kids = z], EditKids
  <2> QED BY ONLY <1>3, <2>1, g = [e EXCEPT !.kids = z]
<1>5. z \in Seq(0 .. Len(nodes))
  <2> PICK S : S = 0 .. Len(nodes)
    OBVIOUS
  <2>1. 0 \in S
    BY ONLY <1>0, S = 0 .. Len(nodes)
  <2>2. f.kids \in Seq(S)
    BY ONLY <1>0, FrameKids, S = 0 .. Len(nodes)
  <2>3. Append(f.kids, 0) \in Seq(S)
    BY ONLY <2>1, <2>2
  <2> QED BY ONLY <2>3, S = 0 .. Len(nodes), z = Append(f.kids, 0)
<1> QED BY ONLY <1>4, <1>5, e = Done, z = Append(f.kids, 0), r = Rest(f.todo)

LEMMA MatchInv ==
    ASSUME Inv, parse_match
    PROVE  Inv'
<1> PICK f : f = top
  OBVIOUS
<1> PICK w : w = World
  OBVIOUS
<1> PICK v : v = World'
  OBVIOUS
<1> PICK s : s = Foremost(f.todo)
  OBVIOUS
<1> PICK again : again = IF todo[1] = "again" THEN <<todo>> ELSE <<>>
  OBVIOUS
<1>1. /\ Going /\ top.todo # <<>> /\ todo[1] \in {"if", "again"}
      /\ \/ Cur = todo[2] /\ parse_advance /\ Go(<<Instead(<<Call(todo[3])>> \o again)>>)
         \/ Cur # todo[2] /\ Stay /\ Go(<<IF todo[1] = "if" THEN WithKid(Done, 0) ELSE Done>>)
  BY ONLY parse_match, again = IF todo[1] = "again" THEN <<todo>> ELSE <<>> DEF parse_match
<1>2. /\ IsFrame(f, Len(nodes), w.at) /\ Stands(f, w) /\ Rooted(f, w) /\ Cur = w.kind[w.at]
      /\ IsSeq(f.todo)
      /\ Len(nodes) \in Nat
  BY ONLY Inv, <1>1, f = top, w = World, Situation
<1>3. /\ f.todo # Nothing /\ todo[1] = Word(s) /\ todo[2] = Target(s) /\ todo[3] = Callee(s)
      /\ todo = s
  BY ONLY <1>1, f = top, s = Foremost(f.todo), TodoIs
<1>4. Looks(f)
  BY ONLY <1>1, <1>3, s = Foremost(f.todo) DEF Looks
<1>5. f.at \in 1 .. w.at /\ f.kids \in Seq(0 .. Len(nodes))
  BY ONLY <1>2, FrameRange, FrameKids
<1>6. IsSeq(Rest(f.todo))
  BY ONLY <1>2, <1>3, RestListed
<1>7. UNCHANGED nodes
  BY ONLY <1>1 DEF Go
<1>8. CASE parse_advance /\ Go(<<Instead(<<Call(todo[3])>> \o again)>>)
  <2> PICK g : g = Instead(<<Call(todo[3])>> \o again)
    OBVIOUS
  <2> PICK t : t = (<<Call(todo[3])>> \o again) \o Rest(f.todo)
    OBVIOUS
  <2>1. g = Edit(f, f.kind, f.at, f.kids, t, f.type) /\ Go(<<g>>)
    BY ONLY Inv, <1>1, <1>8, f = top, w = World, g = Instead(<<Call(todo[3])>> \o again),
            t = (<<Call(todo[3])>> \o again) \o Rest(f.todo), InsteadIs
  <2>2. t = IF Word(s) = "again" THEN Onto(Call(Callee(s)), Onto(s, Rest(f.todo)))
            ELSE Onto(Call(Callee(s)), Rest(f.todo))
    <3> PICK a : a = Call(Callee(s))
      OBVIOUS
    <3> PICK r : r = Rest(f.todo)
      OBVIOUS
    <3>0. IsSeq(r)
      BY ONLY <1>6, r = Rest(f.todo)
    <3>1. CASE Word(s) = "again"
      <4>1. <<a>> \o <<s>> = Onto(a, <<s>>) /\ IsSeq(<<s>>)
        BY ONLY Listed1, JoinOne
      <4>2. <<a>> \o <<s>> = <<a, s>>
        BY ONLY <4>1, Listed2
      <4>3. <<a, s>> \o r = Onto(a, Onto(s, r))
        BY ONLY <3>0, JoinTwo
      <4>4. t = (<<a>> \o <<s>>) \o r
        BY ONLY <1>3, <3>1, t = (<<Call(todo[3])>> \o again) \o Rest(f.todo), a = Call(Callee(s)),
                r = Rest(f.todo),
                again = IF todo[1] = "again" THEN <<todo>> ELSE <<>>
      <4>5. t = Onto(a, Onto(s, r))
        BY ONLY <4>2, <4>3, <4>4
      <4> QED BY ONLY <3>1, <4>5, a = Call(Callee(s)), r = Rest(f.todo)
    <3>2. CASE Word(s) # "again"
      <4>1. <<a>> \o <<>> = <<a>>
        OBVIOUS
      <4>2. <<a>> \o r = Onto(a, r)
        BY ONLY <3>0, JoinOne
      <4>4. t = (<<a>> \o <<>>) \o r
        BY ONLY <1>3, <3>2, t = (<<Call(todo[3])>> \o again) \o Rest(f.todo), a = Call(Callee(s)),
                r = Rest(f.todo),
                again = IF todo[1] = "again" THEN <<todo>> ELSE <<>>
      <4>5. t = Onto(a, r)
        BY ONLY <4>1, <4>2, <4>4
      <4> QED BY ONLY <3>2, <4>5, a = Call(Callee(s)), r = Rest(f.todo)
    <3> QED BY ONLY <3>1, <3>2
  <2>3. Moves(w, v)
    BY ONLY <1>7, Inv, <1>8, w = World, v = World', Turn
  <2>4. Alike(f, g) /\ g.todo = t
    BY ONLY <2>1, EditIs DEF Alike
  <2>5. Stands(g, v)
    BY ONLY <1>2, <1>4, <2>2, <2>3, <2>4, s = Foremost(f.todo), MatchFound
  <2>6. Rooted(g, v)
    BY ONLY <1>2, <2>3, <2>4, AlikeRooted
  <2> QED BY ONLY Inv, <1>1, <1>8, f = top, w = World, v = World', <1>5, <2>1, <2>5, <2>6, GoesAlike
<1>9. CASE Cur # todo[2] /\ Stay /\ Go(<<IF todo[1] = "if" THEN WithKid(Done, 0) ELSE Done>>)
  <2> PICK k : k = IF Word(s) = "if" THEN Append(f.kids, 0) ELSE f.kids
    OBVIOUS
  <2> PICK g : g = Edit(f, f.kind, f.at, k, Rest(f.todo), f.type)
    OBVIOUS
  <2>1. k \in Seq(0 .. Len(nodes))
    <3>1. Append(f.kids, 0) \in Seq(0 .. Len(nodes))
      BY ONLY Inv, <1>1, f = top, w = World, NullIs
    <3> QED BY ONLY <1>5, <3>1, k = IF Word(s) = "if" THEN Append(f.kids, 0) ELSE f.kids
  <2>2. Done = Edit(f, f.kind, f.at, f.kids, Rest(f.todo), f.type)
    BY ONLY Inv, <1>1, f = top, w = World, DoneIs
  <2>3. WithKid(Done, 0) = Edit(f, f.kind, f.at, Append(f.kids, 0), Rest(f.todo), f.type)
    BY ONLY Inv, <1>1, f = top, w = World, NullIs
  <2>4. Go(<<g>>)
    <3>1. g = IF todo[1] = "if" THEN WithKid(Done, 0) ELSE Done
      BY ONLY <1>3, <2>2, <2>3, g = Edit(f, f.kind, f.at, k, Rest(f.todo), f.type),
              k = IF Word(s) = "if" THEN Append(f.kids, 0) ELSE f.kids
    <3> QED BY ONLY <1>9, <3>1
  <2>5. v = w /\ Moves(w, w)
    BY ONLY <1>7, Inv, <1>9, w = World, v = World', Turn
  <2>6. g.kind = f.kind /\ g.todo = Rest(f.todo) /\ g.kids = k /\ g.from = f.from /\ g.at = f.at
          /\ g.min = f.min
    BY ONLY g = Edit(f, f.kind, f.at, k, Rest(f.todo), f.type), EditIs
  <2>7. w.kind[w.at] # Target(s)
    BY ONLY <1>2, <1>3, <1>9
  <2>8. Stands(g, w) /\ (g.kids # f.kids => f.kind \notin OperandKinds)
    BY ONLY <1>2, <1>4, <1>5, <2>6, <2>7, s = Foremost(f.todo),
            k = IF Word(s) = "if" THEN Append(f.kids, 0) ELSE f.kids, MatchMissing
  <2>9. Rooted(g, w)
    <3>1. CASE g.kids = f.kids
      BY ONLY <3>1, <1>2, <2>6 DEF Rooted
    <3>2. CASE f.kind \notin OperandKinds
      BY ONLY <3>2, <2>6 DEF Rooted
    <3> QED BY ONLY <2>8, <3>1, <3>2
  <2> QED BY ONLY Inv, <1>1, <1>9, f = top, w = World, v = World', g = Edit(f, f.kind, f.at, k,
                  Rest(f.todo), f.type),
              <2>1, <2>4, <2>5, <2>8, <2>9, GoesAlike
<1> QED BY ONLY <1>1, <1>8, <1>9

LEMMA CheckInv ==
    ASSUME Inv, parse_check
    PROVE  Inv'
<1> PICK f : f = top
  OBVIOUS
<1> PICK w : w = World
  OBVIOUS
<1> PICK v : v = World'
  OBVIOUS
<1> PICK s : s = Foremost(f.todo)
  OBVIOUS
<1>1. /\ Going /\ top.todo # <<>> /\ todo[1] \in {"unless", "until"} /\ Stay
      /\ \/ todo[1] = "unless" /\ Go(<<WithKid(Done, 0)>>)
         \/ todo[1] = "unless" /\ Go(<<Instead(<<Call(todo[3])>>)>>)
         \/ todo[1] = "until" /\ Go(<<Done>>)
         \/ todo[1] = "until" /\ Go(<<Enter(todo[3]), top>>)
  BY ONLY parse_check DEF parse_check
<1>2. /\ IsFrame(f, Len(nodes), w.at) /\ Stands(f, w) /\ Rooted(f, w) /\ IsSeq(f.todo)
  BY ONLY Inv, <1>1, f = top, w = World, Situation
<1>3. f.todo # Nothing /\ todo[1] = Word(s) /\ todo[3] = Callee(s)
  BY ONLY <1>1, f = top, s = Foremost(f.todo), TodoIs
<1>4. Checks(f)
  BY ONLY <1>1, <1>3, s = Foremost(f.todo) DEF Checks
<1>5. f.kids \in Seq(0 .. Len(nodes))
  BY ONLY <1>2, FrameKids
<1>6. IsSeq(Rest(f.todo))
  BY ONLY <1>2, <1>3, RestListed
<1>7. v = w /\ Moves(w, w)
  <2>1. UNCHANGED nodes
    BY ONLY <1>1 DEF Go
  <2> QED BY ONLY <2>1, Inv, <1>1, w = World, v = World', Turn
<1>8. CASE todo[1] = "unless" /\ Go(<<WithKid(Done, 0)>>)
  <2> PICK k : k = Append(f.kids, 0)
    OBVIOUS
  <2> PICK g : g = WithKid(Done, 0)
    OBVIOUS
  <2>1. g = Edit(f, f.kind, f.at, k, Rest(f.todo), f.type) /\ k \in Seq(0 .. Len(nodes))
    BY ONLY Inv, <1>1, f = top, w = World, g = WithKid(Done, 0), k = Append(f.kids, 0), NullIs
  <2>2. g.kind = f.kind /\ g.todo = Rest(f.todo) /\ g.kids = Append(f.kids, 0)
    <3>1. g.kind = f.kind /\ g.todo = Rest(f.todo) /\ g.kids = k
      BY ONLY <2>1, EditIs
    <3> QED BY ONLY <3>1, k = Append(f.kids, 0)
  <2>3. Stands(g, w) /\ Rooted(g, w)
    BY ONLY <1>2, <1>3, <1>4, <1>5, <1>8, <2>2, s = Foremost(f.todo), CheckFound
  <2>4. Go(<<g>>)
    BY ONLY <1>8, g = WithKid(Done, 0)
  <2> QED BY ONLY Inv, <1>1, f = top, w = World, v = World', <1>7, <2>1, <2>3, <2>4, GoesAlike
<1>9. CASE todo[1] = "unless" /\ Go(<<Instead(<<Call(todo[3])>>)>>)
  <2> PICK g : g = Instead(<<Call(todo[3])>>)
    OBVIOUS
  <2> PICK t : t = <<Call(todo[3])>> \o Rest(f.todo)
    OBVIOUS
  <2>1. g = Edit(f, f.kind, f.at, f.kids, t, f.type) /\ Go(<<g>>)
    BY ONLY Inv, <1>1, <1>9, f = top, w = World, g = Instead(<<Call(todo[3])>>),
            t = <<Call(todo[3])>> \o Rest(f.todo), InsteadIs
  <2>2. t = Onto(Call(Callee(s)), Rest(f.todo))
    <3> PICK r : r = Rest(f.todo)
      OBVIOUS
    <3> PICK a : a = Call(todo[3])
      OBVIOUS
    <3>1. <<a>> \o r = Onto(a, r)
      BY ONLY <1>6, r = Rest(f.todo), JoinOne
    <3>2. a = Call(Callee(s))
      BY ONLY <1>3, a = Call(todo[3])
    <3> QED BY ONLY <3>1, <3>2, r = Rest(f.todo), a = Call(todo[3]),
                    t = <<Call(todo[3])>> \o Rest(f.todo)
  <2>3. Alike(f, g) /\ g.todo = t
    BY ONLY <2>1, EditIs DEF Alike
  <2>4. Stands(g, w)
    BY ONLY <1>2, <1>3, <1>4, <1>9, <2>2, <2>3, s = Foremost(f.todo), CheckMissing
  <2>5. Rooted(g, w)
    BY ONLY <1>2, <1>7, <2>3, AlikeRooted
  <2> QED BY ONLY Inv, <1>1, f = top, w = World, v = World', <1>5, <1>7, <2>1, <2>4, <2>5, GoesAlike
<1>10. CASE todo[1] = "until" /\ Go(<<Done>>)
  <2> PICK g : g = Done
    OBVIOUS
  <2>1. g = Edit(f, f.kind, f.at, f.kids, Rest(f.todo), f.type) /\ Go(<<g>>)
    BY ONLY Inv, <1>1, <1>10, f = top, w = World, g = Done, DoneIs
  <2>2. Alike(f, g) /\ g.todo = Rest(f.todo)
    BY ONLY <2>1, EditIs DEF Alike
  <2>3. Stands(g, w)
    BY ONLY <1>2, <1>3, <1>4, <1>10, <2>2, s = Foremost(f.todo), UntilLeft
  <2>4. Rooted(g, w)
    BY ONLY <1>2, <1>7, <2>2, AlikeRooted
  <2> QED BY ONLY Inv, <1>1, f = top, w = World, v = World', <1>5, <1>7, <2>1, <2>3, <2>4, GoesAlike
<1>11. CASE todo[1] = "until" /\ Go(<<Enter(todo[3]), top>>)
  <2> PICK x : x = todo[3]
    OBVIOUS
  <2> PICK c : c = Enter(x)
    OBVIOUS
  <2>1. f = Edit(f, f.kind, f.at, f.kids, f.todo, f.type)
    BY ONLY <1>2, Edits
  <2>2. x \in {"statement", "DECL"} /\ Awaits(f, c, w)
    BY ONLY <1>2, <1>3, <1>4, <1>11, s = Foremost(f.todo), x = todo[3], UntilCalls
  <2>3. x \in Callables
    BY ONLY <2>2 DEF Callables
  <2>4. Go(<<c, f>>)
    BY ONLY <1>11, c = Enter(x), x = todo[3], f = top
  <2> QED BY ONLY Inv, <1>1, f = top, w = World, c = Enter(x), <2>1, <2>2, <2>3, <2>4, CallsEdit
<1> QED BY ONLY <1>1, <1>8, <1>9, <1>10, <1>11

(* Where the code decides, by what it sees.                                *)
LEMMA AtIs ==
    ASSUME Inv, NEW x, At(x), NEW f, f = top, NEW w, w = World
    PROVE  /\ Going /\ f.todo # Nothing /\ Foremost(f.todo) = Do(x)
           /\ IsFrame(f, Len(nodes), w.at) /\ Rooted(f, w) /\ Stands(f, w) /\ Sound(w)
           /\ w.at = at /\ w.at \in Nat /\ at \in Nat \ {0} /\ Len(nodes) \in Nat
           /\ Cur = w.kind[w.at]
           /\ IsSeq(Rest(f.todo)) /\ f.at \in 1 .. w.at /\ f.min \in Nat /\ f.min \in 0 .. 11
           /\ f.kids \in Seq(0 .. Len(nodes)) /\ IsType(f.type, Len(nodes), w.at)
<1>1. Going /\ top.todo # <<>> /\ todo = Do(x)
  BY ONLY At(x) DEF At
<1>2. f.todo # Nothing /\ Foremost(f.todo) = Do(x)
  BY ONLY <1>1, f = top, TodoIs
<1>3. /\ IsFrame(f, Len(nodes), w.at) /\ Rooted(f, w) /\ Stands(f, w) /\ Sound(w)
      /\ w.at = at /\ w.at \in Nat /\ at \in Nat \ {0} /\ Len(nodes) \in Nat /\ Cur = w.kind[w.at]
      /\ IsSeq(f.todo)
  BY ONLY Inv, <1>1, f = top, w = World, Situation
<1>4. IsSeq(Rest(f.todo))
  BY ONLY <1>2, <1>3, RestListed
<1> QED BY ONLY <1>1, <1>2, <1>3, <1>4, FrameRange, FrameKids

(* It sees nothing it takes, or skips what it sees.                        *)
LEMMA SkipInv ==
    ASSUME Inv, NEW x \in Places \ {"words", "id", "statement", "unary", "primary", "sizeof",
    "semi"}, At(x),
           Stay \/ (parse_advance /\ x \in {"list", "param"}), Go(<<Done>>),
           x = "operators" => Precedence(Cur) < Lowest(top.min)
    PROVE  Inv'
<1> PICK f : f = top
  OBVIOUS
<1> PICK w : w = World
  OBVIOUS
<1> PICK v : v = World'
  OBVIOUS
<1> PICK g : g = Done
  OBVIOUS
<1>1. /\ Going /\ f.todo # Nothing /\ Foremost(f.todo) = Do(x) /\ Rooted(f, w) /\ Stands(f, w)
      /\ Sound(w)
      /\ f.min \in Nat /\ f.kids \in Seq(0 .. Len(nodes)) /\ Cur = w.kind[w.at]
  BY ONLY Inv, At(x), f = top, w = World, AtIs
<1>2. UNCHANGED nodes
  BY ONLY Go(<<Done>>) DEF Go
<1>3. Moves(w, v) /\ (v = w \/ x \in {"list", "param"})
  BY ONLY <1>2, Inv, Stay \/ (parse_advance /\ x \in {"list", "param"}), w = World, v = World', Turn
<1>4. g = Edit(f, f.kind, f.at, f.kids, Rest(f.todo), f.type)
  BY ONLY Inv, <1>1, f = top, w = World, g = Done, DoneIs
<1>5. Alike(f, g) /\ g.todo = Rest(f.todo)
  BY ONLY <1>4, EditIs DEF Alike
<1>6. x = "operators" => Precedence(w.kind[w.at]) < Lowest(f.min)
  BY ONLY <1>1, f = top, x = "operators" => Precedence(Cur) < Lowest(top.min)
<1>7. x \in Places \ {"words", "id", "statement", "unary", "primary", "sizeof"}
  OBVIOUS
<1>8. Stands(g, v)
  <2>1. /\ g.kind = f.kind /\ g.kids = f.kids /\ g.min = f.min /\ g.at = f.at
    BY ONLY <1>5 DEF Alike
  <2> QED BY ONLY <1>1, <1>3, <1>5, <1>6, <1>7, <2>1, Skips
<1>9. Rooted(g, v)
  BY ONLY <1>1, <1>3, <1>5, AlikeRooted
<1>10. Go(<<g>>) /\ (Stay \/ parse_advance)
  BY ONLY Go(<<Done>>), g = Done, Stay \/ (parse_advance /\ x \in {"list", "param"})
<1> QED BY ONLY Inv, <1>1, f = top, w = World, v = World', <1>4, <1>8, <1>9, <1>10, GoesAlike

(* An operator or a suffix.                                                *)
LEMMA WrapInv ==
    ASSUME Inv, NEW x \in Places, At(x), parse_advance, NEW k, Operating(x, k, top, World),
           NEW h, h = IF x \in {"assigns", "asks"} THEN Done ELSE top, Wrap(k, h)
    PROVE  Inv'
<1> PICK f : f = top
  OBVIOUS
<1> PICK w : w = World
  OBVIOUS
<1> PICK v : v = World'
  OBVIOUS
<1> PICK c : c = [f EXCEPT !.kind = k, !.at = at, !.todo = Steps(k)]
  OBVIOUS
<1> PICK d : d = [h EXCEPT !.kids = <<>>]
  OBVIOUS
<1>1. /\ Going /\ f.todo # Nothing /\ Foremost(f.todo) = Do(x) /\ Rooted(f, w) /\ Stands(f, w)
      /\ Sound(w)
      /\ f.min \in 0 .. 11 /\ f.at \in 1 .. w.at /\ f.kids \in Seq(0 .. Len(nodes))
      /\ Len(nodes) \in Nat
      /\ IsFrame(f, Len(nodes), w.at) /\ w.at = at /\ w.at \in Nat /\ at \in Nat \ {0}
      /\ IsType(f.type, Len(nodes), w.at)
  BY ONLY Inv, At(x), f = top, w = World, AtIs
<1>2. Go(<<c, d>>)
  BY ONLY Wrap(k, h), f = top, c = [f EXCEPT !.kind = k, !.at = at, !.todo = Steps(k)],
          d = [h EXCEPT !.kids = <<>>] DEF Wrap
<1>3. UNCHANGED nodes
  BY ONLY <1>2 DEF Go
<1>4. Moves(w, v) /\ v.at \in Nat /\ w.at <= v.at
  BY ONLY <1>3, Inv, parse_advance, w = World, v = World', Turn
<1>5. c = Edit(f, k, at, f.kids, Steps(k), f.type)
  BY ONLY <1>1, EditAll, c = [f EXCEPT !.kind = k, !.at = at, !.todo = Steps(k)]
<1> PICK t : t = IF x \in {"assigns", "asks"} THEN Rest(f.todo) ELSE f.todo
  OBVIOUS
<1>6. h = Edit(f, f.kind, f.at, f.kids, t, f.type)
  <2>1. Done = Edit(f, f.kind, f.at, f.kids, Rest(f.todo), f.type)
    BY ONLY Inv, <1>1, f = top, w = World, DoneIs
  <2>2. f = Edit(f, f.kind, f.at, f.kids, f.todo, f.type)
    BY ONLY <1>1, Edits
  <2> QED BY ONLY <2>1, <2>2, f = top, h = IF x \in {"assigns", "asks"} THEN Done ELSE top,
                  t = IF x \in {"assigns", "asks"} THEN Rest(f.todo) ELSE f.todo
<1>7. d = Edit(f, f.kind, f.at, <<>>, t, f.type)
  BY ONLY <1>6, d = [h EXCEPT !.kids = <<>>], EditKids
<1>8. Wraps(f, c, d, k, w)
  <2>1. c.kind = k /\ c.at = w.at /\ c.kids = f.kids /\ c.from = f.from /\ c.min = f.min
          /\ c.todo = Steps(k)
    BY ONLY <1>1, <1>5, EditIs
  <2>2. d.kind = f.kind /\ d.at = f.at /\ d.kids = <<>> /\ d.from = f.from /\ d.min = f.min
    BY ONLY <1>7, EditIs
  <2> QED BY ONLY <2>1, <2>2 DEF Wraps, Nothing
<1>9. d.todo = IF x \in {"assigns", "asks"} THEN Rest(f.todo) ELSE f.todo
  <2>1. d.todo = t
    BY ONLY <1>7, EditIs
  <2> QED BY ONLY <2>1, t = IF x \in {"assigns", "asks"} THEN Rest(f.todo) ELSE f.todo
<1>10. /\ Stands(c, v) /\ Rooted(c, v) /\ Awaits(d, c, v) /\ Rooted(d, v) /\ Keeps(f, d, w, v)
       /\ d.from = c.from
  <2>1. Operating(x, k, f, w)
    BY ONLY Operating(x, k, top, World), f = top, w = World
  <2> QED BY ONLY <1>1, <1>4, <1>8, <1>9, <2>1, x \in Places, WrapsStand
<1>11. IsType(f.type, Len(nodes), v.at) /\ at \in 1 .. v.at /\ f.at \in 1 .. v.at
  <2> PICK n : n = Len(nodes)
    OBVIOUS
  <2>1. n \in Nat /\ n <= n /\ IsType(f.type, n, w.at)
    BY ONLY <1>1, n = Len(nodes)
  <2>2. IsType(f.type, n, v.at)
    BY ONLY <2>1, <1>4, <1>1, TypeStays
  <2>3. at \in 1 .. v.at /\ f.at \in 1 .. v.at
    BY ONLY <1>1, <1>4
  <2> QED BY ONLY <2>2, <2>3, n = Len(nodes)
<1>12. <<>> \in Seq(0 .. Len(nodes))
  <2> PICK S : S = 0 .. Len(nodes)
    OBVIOUS
  <2>1. <<>> \in Seq(S)
    OBVIOUS
  <2> QED BY ONLY <2>1, S = 0 .. Len(nodes)
<1>13. IsFrame(c, Len(nodes), v.at)
  BY ONLY <1>1, <1>4, <1>5, <1>11, EditFrame
<1>14. IsFrame(d, Len(nodes), v.at)
  BY ONLY <1>1, <1>4, <1>7, <1>11, <1>12, EditFrame
<1>15. d.from <= c.from
  <2>1. c.from \in Int
    BY ONLY <1>13, FrameRange
  <2> QED BY ONLY <2>1, <1>10
<1> QED BY ONLY Inv, <1>1, parse_advance, f = top, w = World, v = World', <1>2, <1>10, <1>13, <1>14,
                <1>15, CallsOn

(* The first token tells what is read.                                     *)
LEMMA BecomesInv ==
    ASSUME Inv, NEW x \in Places, At(x), Stay \/ parse_advance, NEW k, NEW t, Becoming(x, k, t),
           k = "SIZEOF" => parse_advance, Becomes(k, t)
    PROVE  Inv'
<1> PICK f : f = top
  OBVIOUS
<1> PICK w : w = World
  OBVIOUS
<1> PICK v : v = World'
  OBVIOUS
<1> PICK g : g = [f EXCEPT !.kind = k, !.at = at, !.todo = t]
  OBVIOUS
<1>1. /\ Going /\ f.todo # Nothing /\ Foremost(f.todo) = Do(x) /\ Stands(f, w)
      /\ f.kids \in Seq(0 .. Len(nodes)) /\ Len(nodes) \in Nat
      /\ IsFrame(f, Len(nodes), w.at) /\ w.at = at /\ w.at \in Nat /\ at \in Nat \ {0}
      /\ IsType(f.type, Len(nodes), w.at)
  BY ONLY Inv, At(x), f = top, w = World, AtIs
<1>2. Go(<<g>>)
  BY ONLY Becomes(k, t), f = top, g = [f EXCEPT !.kind = k, !.at = at, !.todo = t] DEF Becomes
<1>3. UNCHANGED nodes
  BY ONLY <1>2 DEF Go
<1>4. v.at \in Nat /\ w.at <= v.at /\ (parse_advance => v.at = w.at + 1)
  BY ONLY <1>3, Inv, Stay \/ parse_advance, w = World, v = World', Turn
<1>5. g = Edit(f, k, at, f.kids, t, f.type)
  BY ONLY <1>1, EditAll, g = [f EXCEPT !.kind = k, !.at = at, !.todo = t]
<1>6. g.kind = k /\ g.at = w.at /\ g.kids = f.kids /\ g.from = f.from /\ g.min = f.min /\ g.todo = t
  BY ONLY <1>1, <1>5, EditIs
<1>7. k = "SIZEOF" => v.at > w.at
  BY ONLY <1>1, <1>4, k = "SIZEOF" => parse_advance
<1>8. Stands(g, v) /\ Rooted(g, v) /\ Keeps(f, g, w, v)
  BY ONLY <1>1, <1>4, <1>6, <1>7, x \in Places, Becoming(x, k, t), BecomesStands
<1>9. IsType(f.type, Len(nodes), v.at) /\ at \in 1 .. v.at
  <2> PICK n : n = Len(nodes)
    OBVIOUS
  <2>1. n \in Nat /\ n <= n /\ IsType(f.type, n, w.at)
    BY ONLY <1>1, n = Len(nodes)
  <2>2. IsType(f.type, n, v.at)
    BY ONLY <2>1, <1>4, <1>1, TypeStays
  <2>3. at \in 1 .. v.at
    BY ONLY <1>1, <1>4
  <2> QED BY ONLY <2>2, <2>3, n = Len(nodes)
<1> QED BY ONLY Inv, <1>1, Stay \/ parse_advance, f = top, w = World, v = World', <1>2, <1>5, <1>8,
                <1>9, GoesEdit

(* The tables of the code.                                                 *)
LEMMA SuffixRange ==
    ASSUME NEW c \in DOMAIN SuffixOf
    PROVE  SuffixOf[c] \in {"INDEX", "CALL", "MEMBER", "POSTFIX"}
  BY DEF SuffixOf

LEMMA LeafRange ==
    ASSUME NEW c \in DOMAIN LeafOf
    PROVE  LeafOf[c] \in {"IDENT", "INT_LIT", "FLOAT_LIT", "CHAR_LIT", "STR_LIT"}
  BY DEF LeafOf

LEMMA StatementRange ==
    ASSUME NEW c \in DOMAIN StatementOf
    PROVE  StatementOf[c] \in {"IF", "WHILE", "SWITCH", "DO", "FOR", "CASE", "DEFAULT", "BREAK",
                               "CONTINUE", "GOTO", "RETURN"}
  BY DEF StatementOf

LEMMA CommasInv ==
    ASSUME Inv, parse_expression
    PROVE  Inv'
<1>1. /\ At("commas")
      /\ (parse_advance /\ Wrap("COMMA_EXPR", top)) \/ (Stay /\ Go(<<Done>>))
  BY ONLY parse_expression, Zenon DEF parse_expression
<1>2. "commas" \in Places
  BY DEF Places
<1>3. CASE parse_advance /\ Wrap("COMMA_EXPR", top)
  <2>1. Operating("commas", "COMMA_EXPR", top, World)
    BY DEF Operating
  <2>2. top = IF "commas" \in {"assigns", "asks"} THEN Done ELSE top
    OBVIOUS
  <2> QED BY ONLY Inv, <1>1, <1>2, <1>3, <2>1, <2>2, WrapInv
<1>4. CASE Stay /\ Go(<<Done>>)
  <2>1. "commas" \in Places \ {"words", "id", "statement", "unary", "primary", "sizeof", "semi"}
    BY ONLY <1>2
  <2> QED BY ONLY Inv, <1>1, <1>4, <2>1, SkipInv
<1> QED BY ONLY <1>1, <1>3, <1>4

LEMMA AssignInv ==
    ASSUME Inv, parse_assignment
    PROVE  Inv'
<1>1. /\ At("assigns")
      /\ (parse_advance /\ Wrap("ASSIGN", Done)) \/ (Stay /\ Go(<<Done>>))
  BY ONLY parse_assignment DEF parse_assignment
<1>2. "assigns" \in Places
  BY DEF Places
<1>3. CASE parse_advance /\ Wrap("ASSIGN", Done)
  <2>1. Operating("assigns", "ASSIGN", top, World)
    BY DEF Operating
  <2>2. Done = IF "assigns" \in {"assigns", "asks"} THEN Done ELSE top
    OBVIOUS
  <2> QED BY ONLY Inv, <1>1, <1>2, <1>3, <2>1, <2>2, WrapInv
<1>4. CASE Stay /\ Go(<<Done>>)
  <2>1. "assigns" \in Places \ {"words", "id", "statement", "unary", "primary", "sizeof", "semi"}
    BY ONLY <1>2
  <2> QED BY ONLY Inv, <1>1, <1>4, <2>1, SkipInv
<1> QED BY ONLY <1>1, <1>3, <1>4

LEMMA ConditionalInv ==
    ASSUME Inv, parse_conditional
    PROVE  Inv'
<1>1. /\ At("asks")
      /\ (parse_advance /\ Wrap("CONDITIONAL", Done)) \/ (Stay /\ Go(<<Done>>))
  BY ONLY parse_conditional DEF parse_conditional
<1>2. "asks" \in Places
  BY DEF Places
<1>3. CASE parse_advance /\ Wrap("CONDITIONAL", Done)
  <2>1. Operating("asks", "CONDITIONAL", top, World)
    BY DEF Operating
  <2>2. Done = IF "asks" \in {"assigns", "asks"} THEN Done ELSE top
    OBVIOUS
  <2> QED BY ONLY Inv, <1>1, <1>2, <1>3, <2>1, <2>2, WrapInv
<1>4. CASE Stay /\ Go(<<Done>>)
  <2>1. "asks" \in Places \ {"words", "id", "statement", "unary", "primary", "sizeof", "semi"}
    BY ONLY <1>2
  <2> QED BY ONLY Inv, <1>1, <1>4, <2>1, SkipInv
<1> QED BY ONLY <1>1, <1>3, <1>4

LEMMA BinaryInv ==
    ASSUME Inv, parse_binary
    PROVE  Inv'
<1> PICK p : p = Precedence(Cur)
  OBVIOUS
<1> PICK w : w = World
  OBVIOUS
<1>1. /\ At("operators")
      /\ \/ p # 0 /\ p >= top.min /\ parse_advance /\ Wrap("BINARY", top)
         \/ ~(p # 0 /\ p >= top.min) /\ Stay /\ Go(<<Done>>)
  BY ONLY parse_binary, p = Precedence(Cur) DEF parse_binary
<1>2. "operators" \in Places
  BY DEF Places
<1>3. p \in 0 .. 10 /\ top.min \in Nat /\ p = Precedence(w.kind[w.at])
  <2>1. top.min \in Nat /\ Cur = w.kind[w.at]
    BY ONLY Inv, <1>1, w = World, AtIs
  <2>2. p \in 0 .. 10
    BY ONLY p = Precedence(Cur), PrecedenceRange
  <2> QED BY ONLY <2>1, <2>2, p = Precedence(Cur)
<1>4. CASE p # 0 /\ p >= top.min /\ parse_advance /\ Wrap("BINARY", top)
  <2>0. p >= 1 /\ p >= top.min
    BY ONLY <1>3, <1>4
  <2>1. Operating("operators", "BINARY", top, World)
    BY ONLY <1>3, <2>0, w = World DEF Operating
  <2>2. top = IF "operators" \in {"assigns", "asks"} THEN Done ELSE top
    OBVIOUS
  <2> QED BY ONLY Inv, <1>1, <1>2, <1>4, <2>1, <2>2, WrapInv
<1>5. CASE ~(p # 0 /\ p >= top.min) /\ Stay /\ Go(<<Done>>)
  <2>1. "operators" \in Places \ {"words", "id", "statement", "unary", "primary", "sizeof", "semi"}
    BY ONLY <1>2
  <2>2. p < Lowest(top.min)
    BY ONLY <1>3, <1>5 DEF Lowest
  <2>3. Precedence(Cur) < Lowest(top.min)
    BY ONLY <2>2, p = Precedence(Cur)
  <2> QED BY ONLY Inv, <1>1, <1>5, <2>1, <2>3, SkipInv
<1> QED BY ONLY <1>1, <1>4, <1>5

LEMMA PostfixInv ==
    ASSUME Inv, parse_postfix
    PROVE  Inv'
<1> PICK k : k = SuffixOf[Cur]
  OBVIOUS
<1>1. /\ At("suffixes")
      /\ \/ Cur \in DOMAIN SuffixOf /\ parse_advance /\ Wrap(k, top)
         \/ Stay /\ Go(<<Done>>)
  BY ONLY parse_postfix, k = SuffixOf[Cur] DEF parse_postfix
<1>2. "suffixes" \in Places
  BY DEF Places
<1>3. CASE Cur \in DOMAIN SuffixOf /\ parse_advance /\ Wrap(k, top)
  <2>0. k \in {"INDEX", "CALL", "MEMBER", "POSTFIX"}
    BY ONLY <1>3, k = SuffixOf[Cur], SuffixRange
  <2>1. Operating("suffixes", k, top, World)
    BY ONLY <2>0 DEF Operating
  <2>2. top = IF "suffixes" \in {"assigns", "asks"} THEN Done ELSE top
    OBVIOUS
  <2> QED BY ONLY Inv, <1>1, <1>2, <1>3, <2>1, <2>2, WrapInv
<1>4. CASE Stay /\ Go(<<Done>>)
  <2>1. "suffixes" \in Places \ {"words", "id", "statement", "unary", "primary", "sizeof", "semi"}
    BY ONLY <1>2
  <2> QED BY ONLY Inv, <1>1, <1>4, <2>1, SkipInv
<1> QED BY ONLY <1>1, <1>3, <1>4

LEMMA UnaryInv ==
    ASSUME Inv, parse_unary
    PROVE  Inv'
<1>1. /\ At("unary")
      /\ \/ parse_advance /\ Becomes("UNARY", Steps("UNARY"))
         \/ parse_advance /\ Becomes("SIZEOF", <<Do("sizeof")>>)
         \/ Stay /\ Becomes("postfix", Steps("postfix"))
  BY ONLY parse_unary DEF parse_unary
<1>2. "unary" \in Places
  BY DEF Places
<1>3. <<Do("sizeof")>> = Left1(Do("sizeof"))
  BY ONLY ListsAre
<1>4. /\ Becoming("unary", "UNARY", Steps("UNARY")) /\ Becoming("unary", "postfix", Steps("postfix"))
      /\ Becoming("unary", "SIZEOF", <<Do("sizeof")>>)
  BY ONLY <1>3 DEF Becoming
<1>5. CASE parse_advance /\ Becomes("UNARY", Steps("UNARY"))
  BY ONLY Inv, <1>1, <1>2, <1>4, <1>5, BecomesInv
<1>6. CASE parse_advance /\ Becomes("SIZEOF", <<Do("sizeof")>>)
  BY ONLY Inv, <1>1, <1>2, <1>4, <1>6, BecomesInv
<1>7. CASE Stay /\ Becomes("postfix", Steps("postfix"))
  BY ONLY Inv, <1>1, <1>2, <1>4, <1>7, BecomesInv
<1> QED BY ONLY <1>1, <1>5, <1>6, <1>7

LEMMA PrimaryInv ==
    ASSUME Inv, parse_primary
    PROVE  Inv'
<1> PICK k : k = LeafOf[Cur]
  OBVIOUS
<1>1. /\ At("primary")
      /\ \/ Cur \in DOMAIN LeafOf /\ parse_advance /\ Becomes(k, <<>>)
         \/ parse_advance /\ Becomes("parens", Steps("parens"))
         \/ Reject
  BY ONLY parse_primary, k = LeafOf[Cur] DEF parse_primary
<1>2. "primary" \in Places
  BY DEF Places
<1>3. CASE Cur \in DOMAIN LeafOf /\ parse_advance /\ Becomes(k, <<>>)
  <2>1. k \in {"IDENT", "INT_LIT", "FLOAT_LIT", "CHAR_LIT", "STR_LIT"}
    BY ONLY <1>3, k = LeafOf[Cur], LeafRange
  <2>2. Becoming("primary", k, <<>>) /\ k # "SIZEOF"
    BY ONLY <2>1 DEF Becoming, Nothing
  <2> QED BY ONLY Inv, <1>1, <1>2, <1>3, <2>2, BecomesInv
<1>4. CASE parse_advance /\ Becomes("parens", Steps("parens"))
  <2>1. Becoming("primary", "parens", Steps("parens"))
    BY DEF Becoming
  <2> QED BY ONLY Inv, <1>1, <1>2, <1>4, <2>1, BecomesInv
<1>5. CASE Reject
  BY ONLY Inv, <1>1, <1>5, RejectInv DEF At
<1> QED BY ONLY <1>1, <1>3, <1>4, <1>5

LEMMA StatementInv ==
    ASSUME Inv, parse_statement
    PROVE  Inv'
<1> PICK k : k = StatementOf[Cur]
  OBVIOUS
<1>1. /\ At("statement")
      /\ \/ Stay /\ Becomes("var_decl", Steps("var_decl"))
         \/ Stay /\ Becomes("COMPOUND", Steps("COMPOUND"))
         \/ parse_advance /\ Becomes("EXPR_STMT", <<>>)
         \/ Cur \in DOMAIN StatementOf /\ parse_advance /\ Becomes(k, Steps(k))
         \/ parse_advance /\ Becomes("LABEL", Steps("LABEL"))
         \/ Stay /\ Becomes("EXPR_STMT", Steps("EXPR_STMT"))
  BY ONLY parse_statement, k = StatementOf[Cur], ZenonT(30) DEF parse_statement
<1>2. "statement" \in Places
  BY DEF Places
<1>3. /\ Becoming("statement", "var_decl", Steps("var_decl"))
      /\ Becoming("statement", "COMPOUND", Steps("COMPOUND"))
      /\ Becoming("statement", "EXPR_STMT", <<>>)
      /\ Becoming("statement", "LABEL", Steps("LABEL"))
      /\ Becoming("statement", "EXPR_STMT", Steps("EXPR_STMT"))
  BY DEF Becoming, Nothing
<1>4. CASE Stay /\ Becomes("var_decl", Steps("var_decl"))
  BY ONLY Inv, <1>1, <1>2, <1>3, <1>4, BecomesInv
<1>5. CASE Stay /\ Becomes("COMPOUND", Steps("COMPOUND"))
  BY ONLY Inv, <1>1, <1>2, <1>3, <1>5, BecomesInv
<1>6. CASE parse_advance /\ Becomes("EXPR_STMT", <<>>)
  BY ONLY Inv, <1>1, <1>2, <1>3, <1>6, BecomesInv
<1>7. CASE Cur \in DOMAIN StatementOf /\ parse_advance /\ Becomes(k, Steps(k))
  <2>1. k \in {"IF", "WHILE", "SWITCH", "DO", "FOR", "CASE", "DEFAULT", "BREAK", "CONTINUE",
            "GOTO", "RETURN"}
    BY ONLY <1>7, k = StatementOf[Cur], StatementRange
  <2>2. Becoming("statement", k, Steps(k)) /\ k # "SIZEOF"
    BY ONLY <2>1 DEF Becoming
  <2> QED BY ONLY Inv, <1>1, <1>2, <1>7, <2>2, BecomesInv
<1>8. CASE parse_advance /\ Becomes("LABEL", Steps("LABEL"))
  BY ONLY Inv, <1>1, <1>2, <1>3, <1>8, BecomesInv
<1>9. CASE Stay /\ Becomes("EXPR_STMT", Steps("EXPR_STMT"))
  BY ONLY Inv, <1>1, <1>2, <1>3, <1>9, BecomesInv
<1> QED BY ONLY <1>1, <1>4, <1>5, <1>6, <1>7, <1>8, <1>9

(* sizeof and arguments lead on.                                           *)
LEMMA LeadsInv ==
    ASSUME Inv, NEW x \in {"sizeof", "args"}, At(x), NEW s, Go(<<Instead(s)>>),
           \/ x = "sizeof" /\ parse_advance /\ s = Steps("parens")
           \/ x = "sizeof" /\ Stay /\ s = Steps("SIZEOF")
           \/ x = "args" /\ Stay /\ s = <<Call("assignment"), Again(Comma, "assignment")>>
    PROVE  Inv'
<1> PICK f : f = top
  OBVIOUS
<1> PICK w : w = World
  OBVIOUS
<1> PICK v : v = World'
  OBVIOUS
<1> PICK g : g = Instead(s)
  OBVIOUS
<1> PICK r : r = Rest(f.todo)
  OBVIOUS
<1> PICK t : t = s \o r
  OBVIOUS
<1>1. /\ Going /\ f.todo # Nothing /\ Foremost(f.todo) = Do(x) /\ Rooted(f, w) /\ Stands(f, w)
      /\ f.at \in 1 .. w.at /\ f.kids \in Seq(0 .. Len(nodes)) /\ IsSeq(r)
  BY ONLY Inv, At(x), f = top, w = World, r = Rest(f.todo), AtIs
<1>2. UNCHANGED nodes /\ Go(<<g>>) /\ (Stay \/ parse_advance)
  BY ONLY Go(<<Instead(s)>>), g = Instead(s),
           \/ x = "sizeof" /\ parse_advance /\ s = Steps("parens")
           \/ x = "sizeof" /\ Stay /\ s = Steps("SIZEOF")
           \/ x = "args" /\ Stay /\ s = <<Call("assignment"), Again(Comma, "assignment")>> DEF Go
<1>3. Moves(w, v) /\ (parse_advance => v.at = w.at + 1)
  BY ONLY <1>2, Inv, w = World, v = World', Turn
<1>4. g = Edit(f, f.kind, f.at, f.kids, t, f.type)
  BY ONLY Inv, <1>1, f = top, w = World, g = Instead(s), t = s \o r, r = Rest(f.todo), InsteadIs
<1>5. Alike(f, g) /\ g.todo = t
  BY ONLY <1>4, EditIs DEF Alike
<1>6. \A a, b : /\ Left2(a, b) \o r = Onto(a, Onto(b, r)) /\ Left1(a) \o r = Onto(a, r)
                /\ <<a, b>> = Left2(a, b)
  <2> SUFFICES ASSUME NEW a, NEW b
               PROVE  /\ Left2(a, b) \o r = Onto(a, Onto(b, r)) /\ Left1(a) \o r = Onto(a, r)
                      /\ <<a, b>> = Left2(a, b)
    OBVIOUS
  <2>1. <<a, b>> = Left2(a, b) /\ <<a>> = Left1(a)
    BY ONLY ListsAre
  <2>2. <<a, b>> \o r = Onto(a, Onto(b, r))
    BY ONLY <1>1, JoinTwo
  <2>3. <<a>> \o r = Onto(a, r)
    BY ONLY <1>1, JoinOne
  <2> QED BY ONLY <2>1, <2>2, <2>3
<1>7. \/ x = "sizeof" /\ parse_advance /\ t = Onto(Call("expression"), Onto(Token(")"), r))
      \/ x = "sizeof" /\ t = Onto(Call("unary"), r)
      \/ x = "args" /\ t = Onto(Call("assignment"), Onto(Again(Comma, "assignment"), r))
  <2>1. CASE x = "sizeof" /\ parse_advance /\ s = Steps("parens")
    BY ONLY <2>1, <1>6, NodeSteps, t = s \o r
  <2>2. CASE x = "sizeof" /\ Stay /\ s = Steps("SIZEOF")
    BY ONLY <2>2, <1>6, NodeSteps, t = s \o r
  <2>3. CASE x = "args" /\ Stay /\ s = <<Call("assignment"), Again(Comma, "assignment")>>
    BY ONLY <2>3, <1>6, t = s \o r
  <2> QED BY <2>1, <2>2, <2>3
<1>8. Stands(g, v)
  <2>1. /\ f.at \in Nat
        /\ \/ /\ x = "sizeof" /\ v.at = w.at + 1
              /\ g.todo = Onto(Call("expression"), Onto(Token(")"), Rest(f.todo)))
           \/ x = "sizeof" /\ g.todo = Onto(Call("unary"), Rest(f.todo))
           \/ x = "args" /\ g.todo = Onto(Call("assignment"), Onto(Again(Comma, "assignment"),
                  Rest(f.todo)))
    BY ONLY <1>1, <1>3, <1>5, <1>7, r = Rest(f.todo)
  <2> QED BY ONLY <1>1, <1>3, <1>5, <2>1, x \in {"sizeof", "args"}, OperandLeads
<1>9. Rooted(g, v)
  BY ONLY <1>1, <1>3, <1>5, AlikeRooted
<1> QED BY ONLY Inv, <1>1, f = top, w = World, v = World', <1>2, <1>4, <1>8, <1>9, GoesAlike

LEMMA SizeofInv ==
    ASSUME Inv, parse_sizeof
    PROVE  Inv'
<1>1. /\ At("sizeof")
      /\ \/ parse_advance /\ Go(<<Instead(Steps("parens"))>>)
         \/ Stay /\ Go(<<Instead(Steps("SIZEOF"))>>)
  BY ONLY parse_sizeof DEF parse_sizeof
<1>2. CASE parse_advance /\ Go(<<Instead(Steps("parens"))>>)
  BY ONLY Inv, <1>1, <1>2, LeadsInv
<1>3. CASE Stay /\ Go(<<Instead(Steps("SIZEOF"))>>)
  BY ONLY Inv, <1>1, <1>3, LeadsInv
<1> QED BY ONLY <1>1, <1>2, <1>3

LEMMA ArgumentsInv ==
    ASSUME Inv, Arguments
    PROVE  Inv'
<1> PICK s : s = <<Call("assignment"), Again(Comma, "assignment")>>
  OBVIOUS
<1>1. /\ At("args") /\ Stay
      /\ Go(<<Done>>) \/ Go(<<Instead(s)>>)
  <2>1. s = <<Call("assignment"), Again(",", "assignment")>>
    BY ONLY s = <<Call("assignment"), Again(Comma, "assignment")>>, Zenon DEF Comma
  <2> QED BY ONLY Arguments, <2>1, Zenon DEF Arguments
<1>2. CASE Go(<<Done>>)
  <2>1. "args" \in Places \ {"words", "id", "statement", "unary", "primary", "sizeof", "semi"}
    BY DEF Places
  <2> QED BY ONLY Inv, <1>1, <1>2, <2>1, SkipInv
<1>3. CASE Go(<<Instead(s)>>)
  BY ONLY Inv, <1>1, <1>3, s = <<Call("assignment"), Again(Comma, "assignment")>>, LeadsInv
<1> QED BY ONLY <1>1, <1>2, <1>3

-----------------------------------------------------------------------------
(* A declarator goes on, where it decides by what it sees.                 *)
LeadsTo(x, k, t, f, w) ==
    \/ x = "stars" /\ k = f.kind /\ t = f.todo
    \/ x = "name" /\ k = "IDENT" /\ t = Rest(f.todo)
    \/ x = "id" /\ k = "VAR_DECL" /\ t = Rest(f.todo)
    \/ /\ x = "dims" /\ k = f.kind
       /\ t = Onto(Unless("]", "primary"), Onto(Token("]"), Onto(ArrayOf(w.at), Onto(Do(x),
              Rest(f.todo)))))
    \/ /\ x = "params" /\ k = f.kind
       /\ t = Onto(Do("list"), Onto(Token(")"), Onto(FuncOf(w.at), Rest(f.todo))))
    \/ x \in {"list", "next"} /\ k = f.kind /\ t = Onto(Do("param"), Rest(f.todo))

LEMMA LeadKeeps ==
    ASSUME NEW f, NEW g, NEW w, NEW v, NEW x \in Places, Stands(f, w), f.todo # Nothing,
           Foremost(f.todo) = Do(x), x \in {"name", "id"},
           g.kind = IF x = "name" THEN "IDENT" ELSE "VAR_DECL",
           g.from = f.from
    PROVE  Keeps(f, g, w, v)
<1>1. OperandPlace(f, x, w) \/ DeclaratorPlace(f, x, w) \/ StatementPlace(f, x, w)
  BY ONLY x \in Places, Stands(f, w), f.todo # Nothing, Foremost(f.todo) = Do(x), PlaceCases
<1>2. DeclaratorPlace(f, x, w)
  BY ONLY <1>1, x \in {"name", "id"} DEF OperandPlace, StatementPlace
<1>3. f.kind = IF x = "name" THEN "declarator" ELSE "variable"
  BY ONLY <1>2, x \in {"name", "id"} DEF DeclaratorPlace
<1>4. CASE x = "name"
  <2>1. Gives(f, w) = -1 /\ Stop(f, w) = 11 /\ f.kind # "specifiers"
    BY ONLY <1>3, <1>4 DEF Gives, Stop
  <2>2. Gives(g, v) = 16 /\ Stop(g, v) = 11
    BY ONLY <1>4, g.kind = IF x = "name" THEN "IDENT" ELSE "VAR_DECL" DEF Gives, Stop, LevelOf
  <2> QED BY ONLY <2>1, <2>2, g.from = f.from DEF Keeps
<1>5. CASE x # "name"
  <2>1. Gives(f, w) = 16 /\ Stop(f, w) = 11 /\ f.kind # "specifiers"
    BY ONLY <1>3, <1>5 DEF Gives, Stop
  <2>2. Gives(g, v) = 16 /\ Stop(g, v) = 11
    BY ONLY <1>5, g.kind = IF x = "name" THEN "IDENT" ELSE "VAR_DECL" DEF Gives, Stop, LevelOf
  <2> QED BY ONLY <2>1, <2>2, g.from = f.from DEF Keeps
<1> QED BY ONLY <1>4, <1>5

LEMMA DeclaratorInv ==
    ASSUME Inv, NEW x \in Places, At(x), Stay \/ parse_advance,
           NEW f, f = top, NEW w, w = World, NEW v, v = World', NEW k, NEW b, NEW t, NEW y,
           NEW g, g = Edit(f, k, b, f.kids, t, y), Go(<<g>>), LeadsTo(x, k, t, f, w),
           b = IF k = f.kind THEN f.at ELSE at, IsType(y, Len(nodes), w.at)
    PROVE  Inv'
<1>1. /\ Going /\ f.todo # Nothing /\ Foremost(f.todo) = Do(x) /\ Stands(f, w) /\ Sound(w)
      /\ f.at \in 1 .. w.at /\ f.kids \in Seq(0 .. Len(nodes)) /\ w.at = at /\ at \in Nat \ {0}
      /\ w.at \in Nat
      /\ f.min \in Nat /\ Len(nodes) \in Nat
  BY ONLY Inv, At(x), f = top, w = World, AtIs
<1>2. UNCHANGED nodes
  BY ONLY Go(<<g>>) DEF Go
<1>3. Moves(w, v) /\ v.at \in Nat /\ w.at <= v.at
  BY ONLY <1>2, Inv, Stay \/ parse_advance, w = World, v = World', Turn
<1>4. Reads(w, v) /\ w.at \in 1 .. v.at
  BY ONLY <1>1, <1>3 DEF Moves
<1>5. g.kind = k /\ g.at = b /\ g.kids = f.kids /\ g.from = f.from /\ g.min = f.min /\ g.todo = t
  BY ONLY g = Edit(f, k, b, f.kids, t, y), EditIs
<1>6. Stands(g, v) /\ Rooted(g, v)
  <2>1. \/ x = "stars" /\ g.kind = f.kind /\ g.todo = f.todo
        \/ x = "name" /\ g.kind = "IDENT" /\ g.todo = Rest(f.todo)
        \/ x = "id" /\ g.kind = "VAR_DECL" /\ g.todo = Rest(f.todo)
        \/ /\ x = "dims" /\ g.kind = f.kind
           /\ g.todo = Onto(Unless("]", "primary"), Onto(Token("]"), Onto(ArrayOf(w.at),
                  Onto(Do(x), Rest(f.todo)))))
        \/ /\ x = "params" /\ g.kind = f.kind
           /\ g.todo = Onto(Do("list"), Onto(Token(")"), Onto(FuncOf(w.at), Rest(f.todo))))
        \/ x \in {"list", "next"} /\ g.kind = f.kind /\ g.todo = Onto(Do("param"), Rest(f.todo))
    BY ONLY <1>5, LeadsTo(x, k, t, f, w) DEF LeadsTo
  <2> QED BY ONLY <1>1, <1>3, <1>4, <2>1, x \in Places, DeclaratorLeads
<1>7. Keeps(f, g, w, v)
  <2>1. CASE k = f.kind
    <3>1. g.at = f.at /\ g.kind = f.kind
      BY ONLY <2>1, <1>5, b = IF k = f.kind THEN f.at ELSE at
    <3> QED BY ONLY <3>1, <1>1, <1>4, <1>5, AlikeKeeps
  <2>2. CASE k # f.kind
    <3>1. x \in {"name", "id"} /\ g.kind = IF x = "name" THEN "IDENT" ELSE "VAR_DECL"
      BY ONLY <2>2, <1>5, LeadsTo(x, k, t, f, w) DEF LeadsTo
    <3> QED BY ONLY <3>1, <1>1, <1>5, x \in Places, LeadKeeps
  <2> QED BY ONLY <2>1, <2>2
<1>8. b \in 1 .. v.at
  BY ONLY <1>1, <1>3, b = IF k = f.kind THEN f.at ELSE at
<1>9. IsType(y, Len(nodes), v.at)
  <2> PICK n : n = Len(nodes)
    OBVIOUS
  <2>1. n \in Nat /\ n <= n /\ IsType(y, n, w.at)
    BY ONLY <1>1, n = Len(nodes), IsType(y, Len(nodes), w.at)
  <2>2. IsType(y, n, v.at)
    BY ONLY <2>1, <1>3, <1>1, TypeStays
  <2> QED BY ONLY <2>2, n = Len(nodes)
<1> QED BY ONLY Inv, <1>1, Stay \/ parse_advance, f = top, w = World, v = World', Go(<<g>>),
            g = Edit(f, k, b, f.kids, t, y), <1>6, <1>7, <1>8, <1>9, GoesEdit

LEMMA DerivedType ==
    ASSUME NEW y, NEW n \in Nat, NEW a \in Nat, IsType(y, n, a), NEW k \in 1 .. a, NEW l \in 0 .. n
    PROVE  IsType(Derived(y, k, l), n, a)
<1> PICK S : S = [tok : 1 .. a, len : 0 .. n]
  OBVIOUS
<1> PICK e : e = [tok |-> k, len |-> l]
  OBVIOUS
<1> PICK z : z = <<e>> \o y.by
  OBVIOUS
<1>1. y = [base |-> y.base, by |-> y.by] /\ y.by \in Seq(S)
  BY ONLY IsType(y, n, a), S = [tok : 1 .. a, len : 0 .. n] DEF IsType
<1>2. e \in S
  BY ONLY k \in 1 .. a, l \in 0 .. n, S = [tok : 1 .. a, len : 0 .. n], e = [tok |-> k, len |-> l]
<1>3. z \in Seq(S)
  <2>1. <<e>> \in Seq(S)
    BY ONLY <1>2
  <2> QED BY ONLY <1>1, <2>1, z = <<e>> \o y.by
<1> PICK x : x = Derived(y, k, l)
  OBVIOUS
<1>4. x = [y EXCEPT !.by = z]
  BY ONLY x = Derived(y, k, l), z = <<e>> \o y.by, e = [tok |-> k, len |-> l], <1>1 DEF Derived
<1>5. x = [base |-> x.base, by |-> x.by] /\ x.by = z
  BY ONLY <1>1, <1>4
<1> QED BY ONLY <1>3, <1>5, x = Derived(y, k, l), S = [tok : 1 .. a, len : 0 .. n] DEF IsType

LEMMA StarsInv ==
    ASSUME Inv, Stars
    PROVE  Inv'
<1> PICK f : f = top
  OBVIOUS
<1> PICK w : w = World
  OBVIOUS
<1> PICK v : v = World'
  OBVIOUS
<1>1. /\ At("stars")
      /\ \/ parse_advance /\ Go(<<[top EXCEPT !.type = Derived(@, at, 0)]>>)
         \/ Stay /\ Go(<<Done>>)
  BY ONLY Stars, Zenon DEF Stars
<1>2. "stars" \in Places
        /\ "stars" \in Places \ {"words", "id", "statement", "unary", "primary", "sizeof", "semi"}
  BY DEF Places
<1>3. CASE parse_advance /\ Go(<<[top EXCEPT !.type = Derived(@, at, 0)]>>)
  <2> PICK y : y = Derived(f.type, at, 0)
    OBVIOUS
  <2> PICK g : g = [f EXCEPT !.type = y]
    OBVIOUS
  <2>1. /\ IsFrame(f, Len(nodes), w.at) /\ IsType(f.type, Len(nodes), w.at) /\ Len(nodes) \in Nat
        /\ w.at = at /\ at \in Nat \ {0}
    BY ONLY Inv, <1>1, f = top, w = World, AtIs
  <2>2. g = Edit(f, f.kind, f.at, f.kids, f.todo, y)
    BY ONLY <2>1, Edits, g = [f EXCEPT !.type = y]
  <2>3. Go(<<g>>)
    BY ONLY <1>3, f = top, g = [f EXCEPT !.type = y], y = Derived(f.type, at, 0)
  <2>4. IsType(y, Len(nodes), w.at)
    <3> PICK n : n = Len(nodes)
      OBVIOUS
    <3>1. n \in Nat /\ w.at \in Nat /\ at \in 1 .. w.at /\ 0 \in 0 .. n /\ IsType(f.type, n, w.at)
      BY ONLY <2>1, n = Len(nodes)
    <3>2. IsType(y, n, w.at)
      BY ONLY <3>1, DerivedType, y = Derived(f.type, at, 0)
    <3> QED BY ONLY <3>2, n = Len(nodes)
  <2>5. LeadsTo("stars", f.kind, f.todo, f, w)
    BY DEF LeadsTo
  <2>6. f.at = IF f.kind = f.kind THEN f.at ELSE at
    OBVIOUS
  <2> QED BY ONLY Inv, <1>1, <1>2, <1>3, f = top, w = World, v = World', <2>2, <2>3, <2>4, <2>5,
                  <2>6, DeclaratorInv
<1>4. CASE Stay /\ Go(<<Done>>)
  BY ONLY Inv, <1>1, <1>2, <1>4, SkipInv
<1> QED BY ONLY <1>1, <1>3, <1>4

LEMMA NamesInv ==
    ASSUME Inv, NEW x \in {"name", "id"}, At(x), parse_advance,
           NEW k, k = IF x = "name" THEN "IDENT" ELSE "VAR_DECL",
           Go(<<[Done EXCEPT !.kind = k, !.at = at]>>)
    PROVE  Inv'
<1> PICK f : f = top
  OBVIOUS
<1> PICK w : w = World
  OBVIOUS
<1> PICK v : v = World'
  OBVIOUS
<1> PICK e : e = Done
  OBVIOUS
<1> PICK g : g = [e EXCEPT !.kind = k, !.at = at]
  OBVIOUS
<1> PICK t : t = Rest(f.todo)
  OBVIOUS
<1>1. /\ IsFrame(f, Len(nodes), w.at) /\ IsType(f.type, Len(nodes), w.at) /\ Len(nodes) \in Nat
      /\ w.at = at /\ at \in Nat \ {0} /\ Going /\ Stands(f, w) /\ f.todo # Nothing
      /\ Foremost(f.todo) = Do(x)
  BY ONLY Inv, At(x), f = top, w = World, AtIs
<1>2. x \in Places
  BY ONLY x \in {"name", "id"} DEF Places
<1>3. e = Edit(f, f.kind, f.at, f.kids, t, f.type)
  BY ONLY Inv, <1>1, f = top, w = World, e = Done, t = Rest(f.todo), DoneIs
<1>4. g = Edit(f, k, at, f.kids, t, f.type)
  <2> PICK b : b = at
    OBVIOUS
  <2>1. g = [e EXCEPT !.kind = k, !.at = b]
    BY ONLY b = at, g = [e EXCEPT !.kind = k, !.at = at]
  <2>2. g = Edit(f, k, b, f.kids, t, f.type)
    <3> PICK a : a = f.kids
      OBVIOUS
    <3> PICK c : c = f.type
      OBVIOUS
    <3> PICK j : j = f.kind
      OBVIOUS
    <3> PICK l : l = f.at
      OBVIOUS
    <3>1. e = Edit(f, j, l, a, t, c)
      BY ONLY <1>3, a = f.kids, c = f.type, j = f.kind, l = f.at
    <3>0. /\ e = [kind |-> e.kind, from |-> e.from, at |-> e.at, kids |-> e.kids,
                  todo |-> e.todo, type |-> e.type, min |-> e.min]
          /\ e.kind = j /\ e.from = f.from /\ e.at = l /\ e.kids = a /\ e.todo = t /\ e.type = c
          /\ e.min = f.min
      BY ONLY <3>1 DEF Edit
    <3>3. /\ g = [kind |-> g.kind, from |-> g.from, at |-> g.at, kids |-> g.kids,
                  todo |-> g.todo, type |-> g.type, min |-> g.min]
          /\ g.kind = k /\ g.from = f.from /\ g.at = b /\ g.kids = a /\ g.todo = t /\ g.type = c
          /\ g.min = f.min
      BY ONLY <3>0, <2>1
    <3>2. g = Edit(f, k, b, a, t, c)
      BY ONLY <3>3 DEF Edit
    <3> QED BY ONLY <3>2, a = f.kids, c = f.type
  <2> QED BY ONLY <2>2, b = at
<1>5. Go(<<g>>)
  BY ONLY Go(<<[Done EXCEPT !.kind = k, !.at = at]>>), g = [e EXCEPT !.kind = k, !.at = at],
          e = Done
<1>6. LeadsTo(x, k, t, f, w)
  BY ONLY x \in {"name", "id"}, t = Rest(f.todo), k = IF x = "name" THEN "IDENT" ELSE "VAR_DECL"
     DEF LeadsTo
<1>7. k # f.kind
  <2>1. OperandPlace(f, x, w) \/ DeclaratorPlace(f, x, w) \/ StatementPlace(f, x, w)
    BY ONLY <1>1, <1>2, PlaceCases
  <2>2. DeclaratorPlace(f, x, w)
    BY ONLY <2>1, x \in {"name", "id"} DEF OperandPlace, StatementPlace
  <2>3. f.kind = IF x = "name" THEN "declarator" ELSE "variable"
    BY ONLY <2>2, x \in {"name", "id"} DEF DeclaratorPlace
  <2> QED BY ONLY <2>3, k = IF x = "name" THEN "IDENT" ELSE "VAR_DECL"
<1>8. at = IF k = f.kind THEN f.at ELSE at
  BY ONLY <1>7
<1> QED BY ONLY Inv, At(x), parse_advance, f = top, w = World, v = World', <1>1, <1>2, <1>4, <1>5,
                <1>6, <1>8,
            DeclaratorInv

LEMMA NameInv ==
    ASSUME Inv, DeclaratorName
    PROVE  Inv'
<1>1. /\ At("name")
      /\ \/ parse_advance /\ Go(<<[Done EXCEPT !.kind = "IDENT", !.at = at]>>)
         \/ Stay /\ Go(<<Done>>)
  BY ONLY DeclaratorName DEF DeclaratorName
<1>2. "name" \in Places \ {"words", "id", "statement", "unary", "primary", "sizeof", "semi"}
  BY DEF Places
<1>3. CASE parse_advance /\ Go(<<[Done EXCEPT !.kind = "IDENT", !.at = at]>>)
  <2>1. "name" \in {"name", "id"} /\ "IDENT" = IF "name" = "name" THEN "IDENT" ELSE "VAR_DECL"
    OBVIOUS
  <2> QED BY ONLY Inv, <1>1, <1>3, <2>1, NamesInv
<1>4. CASE Stay /\ Go(<<Done>>)
  BY ONLY Inv, <1>1, <1>2, <1>4, SkipInv
<1> QED BY ONLY <1>1, <1>3, <1>4

LEMMA VariableInv ==
    ASSUME Inv, VariableName
    PROVE  Inv'
<1>1. /\ At("id")
      /\ \/ parse_advance /\ Go(<<[Done EXCEPT !.kind = "VAR_DECL", !.at = at]>>)
         \/ Reject
  BY ONLY VariableName DEF VariableName
<1>3. CASE parse_advance /\ Go(<<[Done EXCEPT !.kind = "VAR_DECL", !.at = at]>>)
  <2>1. "id" \in {"name", "id"} /\ "VAR_DECL" = IF "id" = "name" THEN "IDENT" ELSE "VAR_DECL"
    OBVIOUS
  <2> QED BY ONLY Inv, <1>1, <1>3, <2>1, NamesInv
<1>4. CASE Reject
  BY ONLY Inv, <1>1, <1>4, RejectInv DEF At
<1> QED BY ONLY <1>1, <1>3, <1>4

(* What comes first is put before the rest.                                *)
LEMMA InsteadInv ==
    ASSUME Inv, NEW x \in {"dims", "params", "list", "next"}, At(x), Stay \/ parse_advance, NEW s,
    Go(<<Instead(s)>>),
           \/ x = "dims" /\ s = <<Unless("]", "primary"), Token("]"), <<"array", at>>, Do("dims")>>
           \/ x = "params" /\ s = <<Do("list"), Token(")"), <<"func", at>>>>
           \/ x \in {"list", "next"} /\ s = <<Do("param")>>
    PROVE  Inv'
<1> PICK f : f = top
  OBVIOUS
<1> PICK w : w = World
  OBVIOUS
<1> PICK v : v = World'
  OBVIOUS
<1> PICK g : g = Instead(s)
  OBVIOUS
<1> PICK r : r = Rest(f.todo)
  OBVIOUS
<1> PICK t : t = s \o r
  OBVIOUS
<1>1. /\ IsFrame(f, Len(nodes), w.at) /\ IsType(f.type, Len(nodes), w.at) /\ Going /\ w.at = at
      /\ IsSeq(r)
  BY ONLY Inv, At(x), f = top, w = World, r = Rest(f.todo), AtIs
<1>2. x \in Places
  BY ONLY x \in {"dims", "params", "list", "next"} DEF Places
<1>3. g = Edit(f, f.kind, f.at, f.kids, t, f.type) /\ Go(<<g>>)
  BY ONLY Inv, <1>1, f = top, w = World, g = Instead(s), t = s \o r, r = Rest(f.todo),
          Go(<<Instead(s)>>), InsteadIs
<1>4. /\ x = "dims" => t = Onto(Unless("]", "primary"), Onto(Token("]"), Onto(ArrayOf(w.at),
             Onto(Do("dims"), r))))
      /\ x = "params" => t = Onto(Do("list"), Onto(Token(")"), Onto(FuncOf(w.at), r)))
      /\ x \in {"list", "next"} => t = Onto(Do("param"), r)
  <2>1. CASE x = "dims"
    <3> PICK a : a = Unless("]", "primary")
      OBVIOUS
    <3> PICK b : b = Token("]")
      OBVIOUS
    <3> PICK c : c = ArrayOf(w.at)
      OBVIOUS
    <3>1. c = <<"array", at>>
      BY ONLY <1>1, c = ArrayOf(w.at) DEF ArrayOf
    <3>2. s = <<a, b, c, Do("dims")>>
      BY ONLY <2>1, <3>1, a = Unless("]", "primary"), b = Token("]"),
         \/ x = "dims" /\ s = <<Unless("]", "primary"), Token("]"), <<"array", at>>, Do("dims")>>
         \/ x = "params" /\ s = <<Do("list"), Token(")"), <<"func", at>>>>
         \/ x \in {"list", "next"} /\ s = <<Do("param")>>
    <3>3. <<a, b, c, Do("dims")>> \o r = Onto(a, Onto(b, Onto(c, Onto(Do("dims"), r))))
      BY ONLY <1>1, JoinFour
    <3> QED BY ONLY <2>1, <3>2, <3>3, t = s \o r, a = Unless("]", "primary"), b = Token("]"),
                    c = ArrayOf(w.at)
  <2>2. CASE x = "params"
    <3> PICK b : b = Token(")")
      OBVIOUS
    <3> PICK c : c = FuncOf(w.at)
      OBVIOUS
    <3>1. c = <<"func", at>>
      BY ONLY <1>1, c = FuncOf(w.at) DEF FuncOf
    <3>2. s = <<Do("list"), b, c>>
      BY ONLY <2>2, <3>1, b = Token(")"),
         \/ x = "dims" /\ s = <<Unless("]", "primary"), Token("]"), <<"array", at>>, Do("dims")>>
         \/ x = "params" /\ s = <<Do("list"), Token(")"), <<"func", at>>>>
         \/ x \in {"list", "next"} /\ s = <<Do("param")>>
    <3>3. <<Do("list"), b, c>> \o r = Onto(Do("list"), Onto(b, Onto(c, r)))
      BY ONLY <1>1, JoinThree
    <3> QED BY ONLY <2>2, <3>2, <3>3, t = s \o r, b = Token(")"), c = FuncOf(w.at)
  <2>3. CASE x \in {"list", "next"}
    <3>1. s = <<Do("param")>>
      BY ONLY <2>3,
         \/ x = "dims" /\ s = <<Unless("]", "primary"), Token("]"), <<"array", at>>, Do("dims")>>
         \/ x = "params" /\ s = <<Do("list"), Token(")"), <<"func", at>>>>
         \/ x \in {"list", "next"} /\ s = <<Do("param")>>
    <3>2. <<Do("param")>> \o r = Onto(Do("param"), r)
      BY ONLY <1>1, JoinOne
    <3> QED BY ONLY <2>3, <3>1, <3>2, t = s \o r
  <2> QED BY ONLY <2>1, <2>2, <2>3, x \in {"dims", "params", "list", "next"}
<1>5. LeadsTo(x, f.kind, t, f, w)
  BY ONLY <1>4, x \in {"dims", "params", "list", "next"}, r = Rest(f.todo) DEF LeadsTo
<1>6. f.at = IF f.kind = f.kind THEN f.at ELSE at
  OBVIOUS
<1> QED BY ONLY Inv, At(x), Stay \/ parse_advance, f = top, w = World, v = World', <1>1, <1>2, <1>3,
                <1>5, <1>6,
            DeclaratorInv

LEMMA DimensionsInv ==
    ASSUME Inv, Dimensions
    PROVE  Inv'
<1> PICK s : s = <<Unless("]", "primary"), Token("]"), <<"array", at>>, Do("dims")>>
  OBVIOUS
<1>1. /\ At("dims")
      /\ \/ parse_advance /\ Go(<<Instead(s)>>)
         \/ Stay /\ Go(<<Done>>)
  BY ONLY Dimensions, s = <<Unless("]", "primary"), Token("]"), <<"array", at>>, Do("dims")>>,
          Zenon DEF Dimensions
<1>2. "dims" \in Places \ {"words", "id", "statement", "unary", "primary", "sizeof", "semi"}
  BY DEF Places
<1>3. CASE parse_advance /\ Go(<<Instead(s)>>)
  BY ONLY Inv, <1>1, <1>3, s = <<Unless("]", "primary"), Token("]"), <<"array", at>>, Do("dims")>>,
          InsteadInv
<1>4. CASE Stay /\ Go(<<Done>>)
  BY ONLY Inv, <1>1, <1>2, <1>4, SkipInv
<1> QED BY ONLY <1>1, <1>3, <1>4

LEMMA ParametersInv ==
    ASSUME Inv, Parameters
    PROVE  Inv'
<1> PICK s : s = <<Do("list"), Token(")"), <<"func", at>>>>
  OBVIOUS
<1>1. /\ At("params")
      /\ \/ parse_advance /\ Go(<<Instead(s)>>)
         \/ Stay /\ Go(<<Done>>)
  BY ONLY Parameters, s = <<Do("list"), Token(")"), <<"func", at>>>>, Zenon DEF Parameters
<1>2. "params" \in Places \ {"words", "id", "statement", "unary", "primary", "sizeof", "semi"}
  BY DEF Places
<1>3. CASE parse_advance /\ Go(<<Instead(s)>>)
  BY ONLY Inv, <1>1, <1>3, s = <<Do("list"), Token(")"), <<"func", at>>>>, InsteadInv
<1>4. CASE Stay /\ Go(<<Done>>)
  BY ONLY Inv, <1>1, <1>2, <1>4, SkipInv
<1> QED BY ONLY <1>1, <1>3, <1>4

LEMMA ParameterListInv ==
    ASSUME Inv, ParameterList
    PROVE  Inv'
<1> PICK s : s = <<Do("param")>>
  OBVIOUS
<1>1. /\ At("list")
      /\ \/ (Stay \/ parse_advance) /\ Go(<<Done>>)
         \/ Stay /\ Go(<<Instead(s)>>)
  BY ONLY ParameterList, s = <<Do("param")>> DEF ParameterList
<1>2. "list" \in Places \ {"words", "id", "statement", "unary", "primary", "sizeof", "semi"}
  BY DEF Places
<1>3. CASE (Stay \/ parse_advance) /\ Go(<<Done>>)
  BY ONLY Inv, <1>1, <1>2, <1>3, SkipInv
<1>4. CASE Stay /\ Go(<<Instead(s)>>)
  BY ONLY Inv, <1>1, <1>4, s = <<Do("param")>>, InsteadInv
<1> QED BY ONLY <1>1, <1>3, <1>4

LEMMA NextParameterInv ==
    ASSUME Inv, NextParameter
    PROVE  Inv'
<1> PICK s : s = <<Do("param")>>
  OBVIOUS
<1>1. /\ At("next")
      /\ \/ Stay /\ Go(<<Done>>)
         \/ parse_advance /\ Go(<<Instead(s)>>)
  BY ONLY NextParameter, s = <<Do("param")>>, Zenon DEF NextParameter
<1>2. "next" \in Places \ {"words", "id", "statement", "unary", "primary", "sizeof", "semi"}
  BY DEF Places
<1>3. CASE Stay /\ Go(<<Done>>)
  BY ONLY Inv, <1>1, <1>2, <1>3, SkipInv
<1>4. CASE parse_advance /\ Go(<<Instead(s)>>)
  BY ONLY Inv, <1>1, <1>4, s = <<Do("param")>>, InsteadInv
<1> QED BY ONLY <1>1, <1>3, <1>4

LEMMA ParameterInv ==
    ASSUME Inv, Parameter
    PROVE  Inv'
<1> PICK f : f = top
  OBVIOUS
<1> PICK w : w = World
  OBVIOUS
<1> PICK s : s = <<Do("param")>>
  OBVIOUS
<1>1. /\ At("param")
      /\ \/ parse_advance /\ Go(<<Done>>)
         \/ Stay /\ Go(<<Enter("PARAM"), Instead(<<Do("next")>>)>>)
  BY ONLY Parameter DEF Parameter
<1>2. "param" \in Places \ {"words", "id", "statement", "unary", "primary", "sizeof", "semi"}
  BY DEF Places
<1>3. CASE parse_advance /\ Go(<<Done>>)
  BY ONLY Inv, <1>1, <1>2, <1>3, SkipInv
<1>4. CASE Stay /\ Go(<<Enter("PARAM"), Instead(<<Do("next")>>)>>)
  <2> PICK c : c = Enter("PARAM")
    OBVIOUS
  <2> PICK d : d = Instead(<<Do("next")>>)
    OBVIOUS
  <2> PICK r : r = Rest(f.todo)
    OBVIOUS
  <2> PICK t : t = <<Do("next")>> \o r
    OBVIOUS
  <2>1. /\ Going /\ f.todo # Nothing /\ Foremost(f.todo) = Do("param") /\ Stands(f, w) /\ IsSeq(r)
    BY ONLY Inv, <1>1, f = top, w = World, r = Rest(f.todo), AtIs
  <2>2. d = Edit(f, f.kind, f.at, f.kids, t, f.type)
    BY ONLY Inv, <2>1, f = top, w = World, d = Instead(<<Do("next")>>), t = <<Do("next")>> \o r,
            r = Rest(f.todo), InsteadIs
  <2>3. d.kind = f.kind /\ d.todo = t
    BY ONLY <2>2, EditIs
  <2>4. t = Onto(Do("next"), Rest(f.todo))
    BY ONLY <2>1, JoinOne, t = <<Do("next")>> \o r, r = Rest(f.todo)
  <2>5. Awaits(d, c, w)
    BY ONLY <2>1, <2>3, <2>4, ParamAwaits
  <2>6. "PARAM" \in Callables
    BY DEF Callables
  <2>7. Go(<<c, d>>)
    BY ONLY <1>4, c = Enter("PARAM"), d = Instead(<<Do("next")>>)
  <2> QED BY ONLY Inv, <1>4, f = top, w = World, c = Enter("PARAM"), <2>1, <2>2, <2>5, <2>6, <2>7,
                  CallsEdit
<1> QED BY ONLY <1>1, <1>3, <1>4

(* An array or a function type is put on.                                  *)
LEMMA ShorterKids ==
    ASSUME NEW n \in Nat, NEW s \in Seq(0 .. n), s # Nothing
    PROVE  Front(s) \in Seq(0 .. n) /\ Last(s) \in 0 .. n
<1> PICK S : S = 0 .. n
  OBVIOUS
<1> PICK l : l = Len(s)
  OBVIOUS
<1>1. s \in Seq(S) /\ s # <<>>
  BY ONLY s \in Seq(0 .. n), S = 0 .. n, s # Nothing DEF Nothing
<1>2. l \in Nat /\ l >= 1
  BY ONLY <1>1, l = Len(s), EmptySeq
<1>3. s[l] \in S
  BY ONLY <1>1, <1>2, l = Len(s)
<1>4. SubSeq(s, 1, l - 1) \in Seq(S)
  <2>1. \A i \in 1 .. (l - 1) : s[i] \in S
    BY ONLY <1>1, <1>2, l = Len(s)
  <2>2. 1 \in Int /\ l - 1 \in Int
    BY ONLY <1>2
  <2> QED BY ONLY <1>1, <1>2, <2>1, <2>2, l = Len(s), SubSeqProperties
<1> QED BY ONLY <1>3, <1>4, l = Len(s), S = 0 .. n DEF Front, Last

LEMMA DeriveInv ==
    ASSUME Inv, Derive
    PROVE  Inv'
<1> PICK f : f = top
  OBVIOUS
<1> PICK w : w = World
  OBVIOUS
<1> PICK v : v = World'
  OBVIOUS
<1> PICK e : e = Done
  OBVIOUS
<1> PICK n : n = Len(nodes)
  OBVIOUS
<1> PICK k : k = todo[2]
  OBVIOUS
<1> PICK l : l = IF todo[1] = "array" THEN Last(top.kids) ELSE 0
  OBVIOUS
<1> PICK t : t = Rest(f.todo)
  OBVIOUS
<1> PICK y : y = Derived(f.type, k, l)
  OBVIOUS
<1> PICK s : s = IF todo[1] = "array" THEN Front(f.kids) ELSE f.kids
  OBVIOUS
<1> PICK g : g = Edit(f, f.kind, f.at, s, t, y)
  OBVIOUS
<1>1. /\ Going /\ top.todo # <<>> /\ todo[1] \in {"array", "func"} /\ Stay
      /\ Go(<<[Done EXCEPT !.type = Derived(@, k, l),
             !.kids = IF todo[1] = "array" THEN Front(@) ELSE @]>>)
  BY ONLY Derive, k = todo[2], l = IF todo[1] = "array" THEN Last(top.kids) ELSE 0 DEF Derive
<1>2. /\ IsFrame(f, n, w.at) /\ Rooted(f, w) /\ Stands(f, w) /\ w.at \in Nat /\ n \in Nat
  BY ONLY Inv, <1>1, f = top, w = World, n = Len(nodes), Situation
<1>3. /\ f.todo # Nothing /\ todo[1] = Word(Foremost(f.todo)) /\ k = Target(Foremost(f.todo))
  BY ONLY <1>1, f = top, k = todo[2], TodoIs
<1>4. f.kids \in Seq(0 .. n) /\ f.at \in 1 .. w.at /\ f.min \in Nat /\ IsType(f.type, n, w.at)
  BY ONLY <1>2, FrameRange, FrameKids
<1>5. k \in 1 .. w.at /\ (todo[1] = "array" => f.kids # Nothing)
  <2>1. \/ \E r \in AfterDims, j \in 1 .. w.at : f.todo = Left3(ArrayOf(j), Do("dims"), r)
             /\ f.kids # Nothing
        \/ \E j \in 1 .. w.at : f.todo = Left1(FuncOf(j))
    BY ONLY <1>1, <1>2, <1>3, DeriveCases
  <2>2. CASE \E r \in AfterDims, j \in 1 .. w.at : f.todo = Left3(ArrayOf(j), Do("dims"), r)
          /\ f.kids # Nothing
    <3>1. PICK r, j : j \in 1 .. w.at /\ f.todo = Left3(ArrayOf(j), Do("dims"), r) /\ f.kids # Nothing
      BY ONLY <2>2
    <3>2. Foremost(f.todo) = ArrayOf(j)
      BY ONLY <3>1, LeftFacts
    <3>3. k = j
      BY ONLY <1>3, <3>2, StepTags
    <3> QED BY ONLY <3>1, <3>3
  <2>3. CASE \E j \in 1 .. w.at : f.todo = Left1(FuncOf(j))
    <3>1. PICK j : j \in 1 .. w.at /\ f.todo = Left1(FuncOf(j))
      BY ONLY <2>3
    <3>2. Foremost(f.todo) = FuncOf(j)
      BY ONLY <3>1, LeftFacts
    <3>3. k = j /\ todo[1] = "func"
      BY ONLY <1>3, <3>2, StepTags
    <3> QED BY ONLY <3>1, <3>3
  <2> QED BY ONLY <2>1, <2>2, <2>3
<1>6. s \in Seq(0 .. n) /\ l \in 0 .. n
  <2>1. 0 \in 0 .. n
    BY ONLY <1>2
  <2>2. CASE todo[1] = "array"
    BY ONLY <2>2, <1>2, <1>4, <1>5, ShorterKids, f = top,
            l = IF todo[1] = "array" THEN Last(top.kids) ELSE 0,
            s = IF todo[1] = "array" THEN Front(f.kids) ELSE f.kids
  <2>3. CASE todo[1] # "array"
    BY ONLY <2>1, <2>3, <1>4, l = IF todo[1] = "array" THEN Last(top.kids) ELSE 0,
            s = IF todo[1] = "array" THEN Front(f.kids) ELSE f.kids
  <2> QED BY ONLY <2>2, <2>3
<1>7. IsType(y, n, w.at)
  BY ONLY <1>2, <1>4, <1>5, <1>6, y = Derived(f.type, k, l), DerivedType
<1>8. e = Edit(f, f.kind, f.at, f.kids, t, f.type)
  BY ONLY Inv, <1>1, f = top, w = World, e = Done, t = Rest(f.todo), DoneIs
<1>9. Go(<<g>>)
  <2> PICK h : h = [e EXCEPT !.type = y, !.kids = s]
    OBVIOUS
  <2>1. e.type = f.type /\ e.kids = f.kids
    BY ONLY <1>8, EditIs
  <2>2. h = [Done EXCEPT !.type = Derived(@, k, l),
            !.kids = IF todo[1] = "array" THEN Front(@) ELSE @]
    BY ONLY <2>1, e = Done, h = [e EXCEPT !.type = y, !.kids = s], y = Derived(f.type, k, l),
            s = IF todo[1] = "array" THEN Front(f.kids) ELSE f.kids
  <2>3. h = g
    <3>0. /\ e = [kind |-> e.kind, from |-> e.from, at |-> e.at, kids |-> e.kids,
                  todo |-> e.todo, type |-> e.type, min |-> e.min]
          /\ e.kind = f.kind /\ e.from = f.from /\ e.at = f.at /\ e.todo = t /\ e.min = f.min
      BY ONLY <1>8 DEF Edit
    <3>1. /\ h = [kind |-> h.kind, from |-> h.from, at |-> h.at, kids |-> h.kids,
                  todo |-> h.todo, type |-> h.type, min |-> h.min]
          /\ h.kind = f.kind /\ h.from = f.from /\ h.at = f.at /\ h.kids = s /\ h.todo = t
          /\ h.type = y
          /\ h.min = f.min
      BY ONLY <3>0, h = [e EXCEPT !.type = y, !.kids = s]
    <3> QED BY ONLY <3>1, g = Edit(f, f.kind, f.at, s, t, y) DEF Edit
  <2> QED BY ONLY <1>1, <2>2, <2>3
<1>10. UNCHANGED nodes
  BY ONLY <1>9 DEF Go
<1>11. v = w /\ Moves(w, w)
  BY ONLY <1>10, Inv, <1>1, w = World, v = World', Turn
<1>12. g.kind = f.kind /\ g.at = f.at /\ g.from = f.from /\ g.min = f.min /\ g.todo = Rest(f.todo)
  <2>1. g.todo = t /\ g.kind = f.kind /\ g.at = f.at /\ g.from = f.from /\ g.min = f.min
    BY ONLY g = Edit(f, f.kind, f.at, s, t, y), EditIs
  <2> QED BY ONLY <2>1, t = Rest(f.todo)
<1>13. Stands(g, w) /\ Rooted(g, w)
  BY ONLY <1>1, <1>2, <1>3, <1>12, DeriveStands
<1>14. Keeps(f, g, w, w)
  <2>1. Reads(w, w)
    BY ONLY <1>11 DEF Moves
  <2> QED BY ONLY <2>1, <1>2, <1>4, <1>12, AlikeKeeps
<1> QED BY ONLY Inv, <1>1, f = top, w = World, v = World', n = Len(nodes), g = Edit(f, f.kind, f.at,
                s, t, y),
            <1>4, <1>6, <1>7, <1>9, <1>11, <1>13, <1>14, GoesEdit

(* Specifiers.                                                             *)
LEMMA WordsInv ==
    ASSUME Inv, Words
    PROVE  Inv'
<1> PICK f : f = top
  OBVIOUS
<1> PICK w : w = World
  OBVIOUS
<1> PICK v : v = World'
  OBVIOUS
<1> PICK b : b = Basic({Kind(toks[i]) : i \in top.from .. (at - 1)})
  OBVIOUS
<1> PICK y : y = Plain(b)
  OBVIOUS
<1>1. /\ At("words")
      /\ \/ parse_advance /\ Go(<<top>>)
         \/ Stay /\ UNCHANGED nodes /\ Returns(0, y)
  BY ONLY Words, b = Basic({Kind(toks[i]) : i \in top.from .. (at - 1)}), y = Plain(b) DEF Words
<1>2. /\ Going /\ f.todo # Nothing /\ Foremost(f.todo) = Do("words") /\ Stands(f, w) /\ Rooted(f, w)
      /\ IsFrame(f, Len(nodes), w.at) /\ f.kids \in Seq(0 .. Len(nodes)) /\ Len(nodes) \in Nat
  BY ONLY Inv, <1>1, f = top, w = World, AtIs
<1>3. f.kind = "specifiers" /\ f.todo = Left1(Do("words"))
  <2>1. "words" \in Places
    BY DEF Places
  <2>2. OperandPlace(f, "words", w) \/ DeclaratorPlace(f, "words", w) \/ StatementPlace(f, "words", w)
    BY ONLY <1>2, <2>1, PlaceCases
  <2> QED BY ONLY <2>2 DEF OperandPlace, DeclaratorPlace, StatementPlace
<1>4. CASE parse_advance /\ Go(<<top>>)
  <2>1. UNCHANGED nodes
    BY ONLY <1>4 DEF Go
  <2>2. Moves(w, v)
    BY ONLY <2>1, Inv, <1>4, w = World, v = World', Turn
  <2>3. f = Edit(f, f.kind, f.at, f.kids, f.todo, f.type)
    BY ONLY <1>2, Edits
  <2>4. Stands(f, v)
    BY ONLY <1>3 DEF Stands, StatementStands
  <2>5. Rooted(f, v)
    BY ONLY <1>3 DEF Rooted, OperandKinds
  <2>6. Go(<<f>>)
    BY ONLY <1>4, f = top
  <2> QED BY ONLY Inv, <1>2, <1>4, f = top, w = World, v = World', <2>3, <2>4, <2>5, <2>6, GoesAlike
<1>5. CASE Stay /\ UNCHANGED nodes /\ Returns(0, y)
  <2>1. /\ v = w /\ Later(w, v) /\ Held(nodes, toks, at)' /\ Len(nodes') = Len(nodes)
    BY ONLY Inv, <1>5, w = World, v = World', Turn
  <2>2. Result(f, 0, w, v)
    BY ONLY <1>3, <2>1, NamelessResult
  <2>3. IsType(y, Len(nodes'), v.at)
    BY ONLY PlainType, y = Plain(b)
  <2>4. 0 \in 0 .. Len(nodes') /\ Len(nodes) <= Len(nodes')
    BY ONLY <1>2, <2>1
  <2> QED BY ONLY Inv, <1>2, <1>5, f = top, w = World, v = World', <2>1, <2>2, <2>3, <2>4, ReturnsOn
<1> QED BY ONLY <1>1, <1>4, <1>5

(* Nothing is returned.                                                    *)
LEMMA NothingReturned ==
    ASSUME Inv, NEW x \in {"semi", "body"}, At(x), Stay \/ parse_advance, UNCHANGED nodes, Return(0)
    PROVE  Inv'
<1> PICK f : f = top
  OBVIOUS
<1> PICK w : w = World
  OBVIOUS
<1> PICK v : v = World'
  OBVIOUS
<1>1. /\ Going /\ f.todo # Nothing /\ Foremost(f.todo) = Do(x) /\ Stands(f, w) /\ Len(nodes) \in Nat
  BY ONLY Inv, At(x), f = top, w = World, AtIs
<1>2. f.kind = "DECL"
  BY ONLY <1>1, x \in {"semi", "body"}, DeclPlaces
<1>3. Later(w, v) /\ Held(nodes, toks, at)' /\ Len(nodes') = Len(nodes)
  BY ONLY Inv, UNCHANGED nodes, Stay \/ parse_advance, w = World, v = World', Turn
<1>4. Result(f, 0, w, v)
  BY ONLY <1>2, NamelessResult
<1>5. 0 \in 0 .. Len(nodes') /\ Len(nodes) <= Len(nodes')
  BY ONLY <1>1, <1>3
<1> QED BY ONLY Inv, <1>1, <1>3, <1>4, <1>5, f = top, w = World, v = World', Return(0), ReturnOn

(* A declaration goes on, or becomes a function.                           *)
LEMMA DeclGoes ==
    ASSUME Inv, Going, Stay, NEW f, f = top, NEW w, w = World, f.kind = "DECL",
           NEW k \in {"DECL", "FUNC_DEF"}, NEW b \in 1 .. w.at, NEW t,
           NEW g, g = Edit(f, k, b, f.kids, t, f.type), Go(<<g>>), Stands(g, w)
    PROVE  Inv'
<1> PICK v : v = World'
  OBVIOUS
<1>1. UNCHANGED nodes
  BY ONLY Go(<<g>>) DEF Go
<1>2. v = w
  BY ONLY <1>1, Inv, Stay, w = World, v = World', Turn
<1>3. /\ IsFrame(f, Len(nodes), w.at)
  BY ONLY Inv, Going, f = top, w = World, Situation
<1>4. f.kids \in Seq(0 .. Len(nodes)) /\ IsType(f.type, Len(nodes), w.at)
  BY ONLY <1>3, FrameRange, FrameKids
<1>5. g.kind = k /\ g.from = f.from
  BY ONLY g = Edit(f, k, b, f.kids, t, f.type), EditIs
<1>6. Rooted(g, w)
  BY ONLY <1>5, k \in {"DECL", "FUNC_DEF"} DEF Rooted, OperandKinds
<1>7. Keeps(f, g, w, w)
  <2>1. Gives(f, w) = -1 /\ Stop(f, w) = 11 /\ f.kind # "specifiers"
    BY ONLY f.kind = "DECL" DEF Gives, Stop
  <2>2. Stop(g, w) = 11
    BY ONLY <1>5, k \in {"DECL", "FUNC_DEF"} DEF Stop
  <2>3. Gives(g, w) \in {-1, 0}
    <3>1. CASE k = "DECL"
      BY ONLY <1>5, <3>1 DEF Gives
    <3>2. CASE k = "FUNC_DEF"
      BY ONLY <1>5, <3>2 DEF Gives, LevelOf
    <3> QED BY ONLY <3>1, <3>2, k \in {"DECL", "FUNC_DEF"}
  <2>4. Gives(g, w) >= -1
    BY ONLY <2>3
  <2> QED BY ONLY <1>5, <2>1, <2>2, <2>4 DEF Keeps
<1> QED BY ONLY Inv, Going, Stay, f = top, w = World, v = World', <1>2, <1>4, <1>6, <1>7,
                b \in 1 .. w.at,
            g = Edit(f, k, b, f.kids, t, f.type), Go(<<g>>), Stands(g, w), GoesEdit

LEMMA NothingDeclaredInv ==
    ASSUME Inv, NothingDeclared
    PROVE  Inv'
<1> PICK f : f = top
  OBVIOUS
<1> PICK w : w = World
  OBVIOUS
<1> PICK b : b = at
  OBVIOUS
<1> PICK e : e = Done
  OBVIOUS
<1>1. /\ At("semi")
      /\ \/ parse_advance /\ UNCHANGED nodes /\ Return(0)
         \/ Stay /\ Go(<<[e EXCEPT !.at = b]>>)
  BY ONLY NothingDeclared, b = at, e = Done, Zenon DEF NothingDeclared
<1>2. CASE parse_advance /\ UNCHANGED nodes /\ Return(0)
  BY ONLY Inv, <1>1, <1>2, NothingReturned
<1>3. CASE Stay /\ Go(<<[e EXCEPT !.at = b]>>)
  <2> PICK g : g = [e EXCEPT !.at = b]
    OBVIOUS
  <2> PICK t : t = Rest(f.todo)
    OBVIOUS
  <2>1. /\ Going /\ f.todo # Nothing /\ Foremost(f.todo) = Do("semi") /\ Stands(f, w)
        /\ Len(nodes) \in Nat
        /\ w.at = at /\ at \in Nat \ {0} /\ f.min \in Nat /\ Sound(w)
    BY ONLY Inv, <1>1, f = top, w = World, AtIs
  <2>2. f.kind = "DECL"
    BY ONLY <2>1, DeclPlaces
  <2>3. e = Edit(f, f.kind, f.at, f.kids, t, f.type)
    BY ONLY Inv, <2>1, f = top, w = World, e = Done, t = Rest(f.todo), DoneIs
  <2>4. g = Edit(f, f.kind, b, f.kids, t, f.type)
    BY ONLY <2>3, g = [e EXCEPT !.at = b], EditAt
  <2>5. g.kind = f.kind /\ g.kids = f.kids /\ g.min = f.min /\ g.todo = Rest(f.todo)
    <3>1. g.kind = f.kind /\ g.kids = f.kids /\ g.min = f.min /\ g.todo = t
      BY ONLY <2>4, EditIs
    <3> QED BY ONLY <3>1, t = Rest(f.todo)
  <2>6. Moves(w, w)
    <3>1. UNCHANGED nodes
      BY ONLY <1>3 DEF Go
    <3> QED BY ONLY <3>1, Inv, <1>3, w = World, Turn
  <2>7. Stands(g, w)
    <3>1. "semi" \in Places \ {"words", "id", "statement", "unary", "primary", "sizeof"}
      BY DEF Places
    <3> QED BY ONLY <2>1, <2>5, <2>6, <3>1, Skips
  <2>8. Go(<<g>>) /\ b \in 1 .. w.at
    BY ONLY <1>3, <2>1, g = [e EXCEPT !.at = b], b = at
  <2>9. g = Edit(f, "DECL", b, f.kids, t, f.type)
    BY ONLY <2>2, <2>4
  <2> QED BY ONLY Inv, <1>3, f = top, w = World, <2>1, <2>2, <2>7, <2>8, <2>9, DeclGoes
<1> QED BY ONLY <1>1, <1>2, <1>3

LEMMA FuncOrDeclInv ==
    ASSUME Inv, FuncOrDecl
    PROVE  Inv'
<1> PICK f : f = top
  OBVIOUS
<1> PICK w : w = World
  OBVIOUS
<1> PICK t : t = Steps("FUNC_DEF")
  OBVIOUS
<1>1. /\ At("body") /\ Stay
      /\ \/ UNCHANGED nodes /\ Return(0)
         \/ /\ f.kids # <<>> /\ IsFunc(nodes[f.kids[1]].type)
            /\ Go(<<[f EXCEPT !.kind = "FUNC_DEF", !.todo = t]>>)
         \/ Go(<<Done>>)
  BY ONLY FuncOrDecl, f = top, t = Steps("FUNC_DEF"), Zenon DEF FuncOrDecl
<1>2. CASE UNCHANGED nodes /\ Return(0)
  BY ONLY Inv, <1>1, <1>2, NothingReturned
<1>3. CASE /\ f.kids # <<>> /\ IsFunc(nodes[f.kids[1]].type)
           /\ Go(<<[f EXCEPT !.kind = "FUNC_DEF", !.todo = t]>>)
  <2> PICK g : g = [f EXCEPT !.kind = "FUNC_DEF", !.todo = t]
    OBVIOUS
  <2> PICK k : k = f.kids[1]
    OBVIOUS
  <2>1. /\ Going /\ f.todo # Nothing /\ Foremost(f.todo) = Do("body") /\ Stands(f, w)
        /\ IsFrame(f, Len(nodes), w.at) /\ f.at \in 1 .. w.at /\ f.kids \in Seq(0 .. Len(nodes))
    BY ONLY Inv, <1>1, f = top, w = World, AtIs
  <2>2. f.kind = "DECL" /\ All(f.kids, w, 0)
    BY ONLY <2>1, DeclPlaces
  <2>3. g = Edit(f, "FUNC_DEF", f.at, f.kids, t, f.type)
    BY ONLY <2>1, g = [f EXCEPT !.kind = "FUNC_DEF", !.todo = t], EditTwo
  <2>4. k \in w.derived
    <3>1. 1 \in DOMAIN f.kids
      <4> PICK S : S = 0 .. Len(nodes)
        OBVIOUS
      <4>1. f.kids \in Seq(S) /\ f.kids # <<>>
        BY ONLY <2>1, <1>3, S = 0 .. Len(nodes)
      <4> QED BY ONLY <4>1, EmptySeq
    <3>2. k \in DOMAIN w.level
      BY ONLY <2>2, <3>1, k = f.kids[1] DEF All, Fit
    <3>3. DOMAIN w.level = DOMAIN nodes
      BY ONLY Inv, <2>1, f = top, w = World, Situation
    <3>5. w.derived = {n \in DOMAIN nodes : nodes[n].type.by # <<>>}
      BY ONLY w = World DEF World, WorldOf
    <3>4. nodes[k].type.by # <<>>
      BY ONLY <1>3, k = f.kids[1] DEF IsFunc
    <3> QED BY ONLY <3>2, <3>3, <3>4, <3>5
  <2>5. g.kind = "FUNC_DEF" /\ g.kids = f.kids /\ g.todo = Left1(Call("COMPOUND"))
    <3>1. g.kind = "FUNC_DEF" /\ g.kids = f.kids /\ g.todo = t
      BY ONLY <2>3, EditIs
    <3> QED BY ONLY <3>1, t = Steps("FUNC_DEF"), NodeSteps
  <2>6. Stands(g, w)
    <3>1. g.kids # Nothing /\ g.kids[1] \in w.derived
      BY ONLY <1>3, <2>4, <2>5, k = f.kids[1] DEF Nothing
    <3> QED BY ONLY <2>5, <3>1 DEF Stands, StatementStands
  <2>7. Go(<<g>>)
    BY ONLY <1>3, g = [f EXCEPT !.kind = "FUNC_DEF", !.todo = t]
  <2> QED BY ONLY Inv, <1>1, f = top, w = World, <2>1, <2>2, <2>3, <2>6, <2>7, DeclGoes
<1>4. CASE Go(<<Done>>)
  <2>1. "body" \in Places \ {"words", "id", "statement", "unary", "primary", "sizeof", "semi"}
    BY DEF Places
  <2> QED BY ONLY Inv, <1>1, <1>4, <2>1, SkipInv
<1> QED BY ONLY <1>1, <1>2, <1>3, <1>4

-----------------------------------------------------------------------------
(* Returns.                                                                *)
LEMMA FinishedKids ==
    ASSUME NEW f, NEW w, Stands(f, w), f.todo = Nothing
    PROVE  /\ f.kind = "var_decl" => All(f.kids, w, 14) /\ f.kids # Nothing
           /\ f.kind = "FUNC_DEF" => f.kids[1] \in w.derived
<1>1. CASE f.kind = "var_decl"
  <2>1. VarDeclStands(f, w)
    BY ONLY Stands(f, w), <1>1
       DEF Stands, OperandCall, OperandNode, StatementStands, DeclStands, IfStands, DeclaratorKinds,
       Simple
  <2>2. All(f.kids, w, 14) /\ f.kids # Nothing
    BY ONLY <2>1, f.todo = Nothing, LeftFacts DEF VarDeclStands
  <2> QED BY ONLY <1>1, <2>2
<1>2. CASE f.kind = "FUNC_DEF"
  <2>1. f.kids[1] \in w.derived
    BY ONLY Stands(f, w), <1>2
       DEF Stands, OperandCall, OperandNode, StatementStands, DeclStands, VarDeclStands, IfStands,
       DeclaratorKinds, Simple
  <2> QED BY ONLY <1>2, <2>1
<1> QED BY <1>1, <1>2

LEMMA PassInv ==
    ASSUME Inv, Going, top.todo = <<>>, Stay, UNCHANGED nodes, NEW f, f = top, NEW k, Return(k),
           (f.kind \in PassedOn /\ k = f.kids[1]) \/ (f.kind = "declarator" /\ k = 0)
    PROVE  Inv'
<1> PICK w : w = World
  OBVIOUS
<1> PICK v : v = World'
  OBVIOUS
<1>1. /\ IsFrame(f, Len(nodes), w.at) /\ Rooted(f, w) /\ Stands(f, w) /\ Sound(w)
      /\ Len(nodes) \in Nat
      /\ DOMAIN w.level = 1 .. Len(nodes) /\ 0 \notin DOMAIN w.level
  BY ONLY Inv, Going, f = top, w = World, Situation
<1>2. f.min \in Nat /\ f.todo = Nothing
  BY ONLY <1>1, FrameRange, top.todo = <<>>, f = top DEF Nothing
<1>3. v = w /\ Later(w, v) /\ Held(nodes, toks, at)' /\ Len(nodes') = Len(nodes)
  BY ONLY Inv, Stay, UNCHANGED nodes, w = World, v = World', Turn
<1>4. Result(f, k, w, v)
  <2>1. CASE f.kind \in PassedOn /\ k = f.kids[1]
    BY ONLY <1>1, <1>2, <1>3, <2>1, PassResult
  <2>2. CASE f.kind = "declarator" /\ k = 0
    BY ONLY <1>3, <2>2, NamelessResult
  <2> QED BY ONLY <2>1, <2>2,
                  (f.kind \in PassedOn /\ k = f.kids[1]) \/ (f.kind = "declarator" /\ k = 0)
<1>5. k \in 0 .. Len(nodes') /\ Len(nodes) <= Len(nodes')
  <2>1. k = 0 \/ k \in DOMAIN w.level
    BY ONLY <1>3, <1>4 DEF Result, Fit
  <2> QED BY ONLY <1>1, <1>3, <2>1
<1> QED BY ONLY Inv, Going, f = top, w = World, v = World', <1>3, <1>4, <1>5, Return(k), ReturnOn

LEMMA ClosedInv ==
    ASSUME Inv, Going, top.todo = <<>>, Stay, NEW f, f = top, NEW k, k = f.kids[1], Return(k),
           f.kind = "parens" \/ (f.kind = "var_decl" /\ Len(f.kids) = 1),
           nodes' = [nodes EXCEPT ![k] = [nodes[k] EXCEPT !.from = f.from, !.to = at - 1,
                        !.closed = IF f.kind = "parens" THEN nodes[k].closed + 1 ELSE nodes[k].closed]]
    PROVE  Inv'
<1> PICK w : w = World
  OBVIOUS
<1> PICK v : v = World'
  OBVIOUS
<1> PICK o : o = nodes[k]
  OBVIOUS
<1> PICK h : h = at - 1
  OBVIOUS
<1> PICK c : c = IF f.kind = "parens" THEN o.closed + 1 ELSE o.closed
  OBVIOUS
<1> PICK b : b = f.from
  OBVIOUS
<1> PICK u : u = [o EXCEPT !.from = b, !.to = h, !.closed = c]
  OBVIOUS
<1> PICK ms : ms = nodes'
  OBVIOUS
<1>1. /\ IsFrame(f, Len(nodes), w.at) /\ Rooted(f, w) /\ Stands(f, w) /\ Sound(w)
      /\ Len(nodes) \in Nat
      /\ DOMAIN w.level = 1 .. Len(nodes) /\ DOMAIN nodes = 1 .. Len(nodes) /\ w.at = at
      /\ at \in Nat \ {0}
  BY ONLY Inv, Going, f = top, w = World, Situation
<1>2. /\ f.todo = Nothing /\ f.kids \in Seq(0 .. Len(nodes)) /\ f.from \in 1 .. w.at
  BY ONLY <1>1, FrameRange, FrameKids, top.todo = <<>>, f = top DEF Nothing
<1>3. One(f.kids, w, IF f.kind = "parens" THEN 1 ELSE 14)
  BY ONLY <1>1, <1>2, f.kind = "parens" \/ (f.kind = "var_decl" /\ Len(f.kids) = 1), WrappedKid
<1>4. Fit(k, w, IF f.kind = "parens" THEN 1 ELSE 14) /\ k \in DOMAIN nodes
  BY ONLY <1>1, <1>3, k = f.kids[1] DEF One, Fit
<1>5. Held(nodes, toks, at)
  BY ONLY Inv DEF Inv
<1>6. w = WorldOf(nodes, toks, at)
  BY ONLY w = World DEF World
<1>7. IsNode(o, k - 1, at)
  BY ONLY <1>4, <1>5, <1>6, HeldSound, o = nodes[k]
<1>8. /\ o = [kind |-> o.kind, tok |-> o.tok, from |-> o.from, to |-> o.to, kids |-> o.kids,
              type |-> o.type, closed |-> o.closed, value |-> o.value]
      /\ o.tok \in 1 .. at /\ o.closed \in Nat /\ o.kids \in Seq(0 .. (k - 1))
      /\ IsType(o.type, k - 1, at)
  BY ONLY <1>7 DEF IsNode
<1>9. /\ u = [kind |-> u.kind, tok |-> u.tok, from |-> u.from, to |-> u.to, kids |-> u.kids,
              type |-> u.type, closed |-> u.closed, value |-> u.value]
      /\ u.kind = o.kind /\ u.tok = o.tok /\ u.from = b /\ u.to = h /\ u.kids = o.kids
      /\ u.type = o.type /\ u.closed = c
  BY ONLY <1>8, u = [o EXCEPT !.from = b, !.to = h, !.closed = c]
<1>10. IsNode(u, k - 1, at)
  <2>1. b \in 1 .. at /\ h \in Int /\ h + 1 \in 1 .. at /\ c \in Nat
    BY ONLY <1>1, <1>2, <1>8, b = f.from, h = at - 1,
            c = IF f.kind = "parens" THEN o.closed + 1 ELSE o.closed
  <2>2. u.from \in 1 .. at /\ u.to \in Int /\ u.to + 1 \in 1 .. at /\ u.closed \in Nat
        /\ u.tok \in 1 .. at
        /\ u.kids \in Seq(0 .. (k - 1)) /\ IsType(u.type, k - 1, at)
    BY ONLY <2>1, <1>8, <1>9
  <2> QED BY ONLY <2>2, <1>9 DEF IsNode
<1>11. ms = Put(nodes, k, u)
  <2>1. u = [o EXCEPT !.from = f.from, !.to = at - 1,
            !.closed = IF f.kind = "parens" THEN o.closed + 1 ELSE o.closed]
    BY ONLY u = [o EXCEPT !.from = b, !.to = h, !.closed = c], b = f.from, h = at - 1,
            c = IF f.kind = "parens" THEN o.closed + 1 ELSE o.closed, <1>8
  <2> QED BY ONLY <2>1, ms = nodes', o = nodes[k], <1>4,
           nodes' = [nodes EXCEPT ![k] = [nodes[k] EXCEPT !.from = f.from, !.to = at - 1,
                        !.closed = IF f.kind = "parens" THEN nodes[k].closed + 1 ELSE nodes[k].closed]] DEF Put
<1>12. v = WorldOf(ms, toks, at)
  BY ONLY Stay, v = World', ms = nodes' DEF World, Stay
<1>13. /\ Later(w, v) /\ Held(ms, toks, at) /\ Len(ms) = Len(nodes)
       /\ (f.kind = "parens" => v.level[k] = 16)
  <2>1. u.closed = IF f.kind = "parens" THEN nodes[k].closed + 1 ELSE nodes[k].closed
    BY ONLY <1>9, o = nodes[k], c = IF f.kind = "parens" THEN o.closed + 1 ELSE o.closed
  <2>2. IF f.kind = "parens" THEN Fit(k, w, 1) ELSE Fit(k, w, 14)
    BY ONLY <1>4
  <2>3. u.kind = nodes[k].kind /\ u.tok = nodes[k].tok /\ u.kids = nodes[k].kids
          /\ u.type = nodes[k].type
    BY ONLY <1>9, o = nodes[k]
  <2>4. Closes(f, k, u, nodes, w)
    BY ONLY <2>1, <2>2, <2>3 DEF Closes
  <2> QED BY ONLY <1>4, <1>5, <1>6, <1>10, <1>11, <1>12, <2>4, WorldWraps
<1>14. Sound(v) /\ 0 \notin DOMAIN v.level
  BY ONLY <1>12, <1>13, HeldSound
<1>15. Result(f, k, w, v)
  <2>1. f.kind = "parens" /\ w.level[f.kids[1]] >= 1 => v.level[f.kids[1]] = 16
    BY ONLY <1>13, k = f.kids[1]
  <2>2. Result(f, f.kids[1], w, v)
    BY ONLY <1>1, <1>2, <1>13, <1>14, <2>1,
            f.kind = "parens" \/ (f.kind = "var_decl" /\ Len(f.kids) = 1), WrappedResult
  <2> QED BY ONLY <2>2, k = f.kids[1]
<1>16. Held(nodes, toks, at)'
  BY ONLY <1>13, Stay, ms = nodes' DEF Stay
<1>17. k \in 0 .. Len(nodes') /\ Len(nodes) <= Len(nodes')
  BY ONLY <1>1, <1>4, <1>13, ms = nodes'
<1> QED BY ONLY Inv, Going, f = top, w = World, v = World', <1>13, <1>15, <1>16, <1>17, Return(k),
                ReturnOn

LEMMA FunctionReturnInv ==
    ASSUME Inv, FunctionReturn
    PROVE  Inv'
<1> PICK f : f = top
  OBVIOUS
<1> PICK k : k = f.kids[1]
  OBVIOUS
<1>1. /\ Going /\ top.todo = <<>> /\ Stay
      /\ \/ f.kind \in PassedOn /\ Return(k) /\ UNCHANGED nodes
         \/ f.kind = "declarator" /\ Return(0) /\ UNCHANGED nodes
         \/ /\ (f.kind = "parens" \/ (f.kind = "var_decl" /\ Len(f.kids) = 1))
            /\ Return(k)
            /\ nodes' = [nodes EXCEPT ![k] = [nodes[k] EXCEPT !.from = f.from, !.to = at - 1,
                        !.closed = IF f.kind = "parens" THEN nodes[k].closed + 1 ELSE nodes[k].closed]]
  BY ONLY FunctionReturn, f = top, k = f.kids[1] DEF FunctionReturn
<1>2. CASE f.kind \in PassedOn /\ Return(k) /\ UNCHANGED nodes
  BY ONLY Inv, <1>1, <1>2, f = top, k = f.kids[1], PassInv
<1>3. CASE f.kind = "declarator" /\ Return(0) /\ UNCHANGED nodes
  BY ONLY Inv, <1>1, <1>3, f = top, PassInv
<1>4. CASE /\ (f.kind = "parens" \/ (f.kind = "var_decl" /\ Len(f.kids) = 1))
            /\ Return(k)
            /\ nodes' = [nodes EXCEPT ![k] = [nodes[k] EXCEPT !.from = f.from, !.to = at - 1,
                        !.closed = IF f.kind = "parens" THEN nodes[k].closed + 1 ELSE nodes[k].closed]]
  BY ONLY Inv, <1>1, <1>4, f = top, k = f.kids[1], ClosedInv
<1> QED BY ONLY <1>1, <1>2, <1>3, <1>4

-----------------------------------------------------------------------------
(* A node of its own.                                                      *)
LEMMA ReturnedType ==
    ASSUME NEW y, NEW n, NEW a, IsType(y, n, a), y.by # <<>>
    PROVE  IsType([y EXCEPT !.by = Tail(@)], n, a)
<1> PICK S : S = [tok : 1 .. a, len : 0 .. n]
  OBVIOUS
<1> PICK t : t = Tail(y.by)
  OBVIOUS
<1>1. y = [base |-> y.base, by |-> y.by] /\ y.by \in Seq(S)
  BY ONLY IsType(y, n, a), S = [tok : 1 .. a, len : 0 .. n] DEF IsType
<1>2. t \in Seq(S)
  BY ONLY <1>1, y.by # <<>>, t = Tail(y.by)
<1> PICK z : z = [y EXCEPT !.by = t]
  OBVIOUS
<1>3. z = [base |-> z.base, by |-> z.by] /\ z.by = t
  BY ONLY <1>1, z = [y EXCEPT !.by = t]
<1>4. IsType(z, n, a)
  BY ONLY <1>2, <1>3, S = [tok : 1 .. a, len : 0 .. n] DEF IsType
<1> QED BY ONLY <1>4, z = [y EXCEPT !.by = t], t = Tail(y.by)

LEMMA TypeOfIs ==
    ASSUME Inv, Going, top.todo = <<>>, NEW f, f = top
    PROVE  IsType(TypeOf(f), Len(nodes), at)
<1> PICK w : w = World
  OBVIOUS
<1>1. /\ IsFrame(f, Len(nodes), w.at) /\ Stands(f, w) /\ Len(nodes) \in Nat /\ w.at = at
      /\ at \in Nat \ {0}
      /\ DOMAIN nodes = 1 .. Len(nodes)
  BY ONLY Inv, Going, f = top, w = World, Situation
<1>2. f.at \in 1 .. at /\ IsType(f.type, Len(nodes), at)
  BY ONLY <1>1, FrameRange
<1> PICK s : s = Literals[toks[f.at]].text
  OBVIOUS
<1>3. CASE f.kind = "INT_LIT"
  <2>1. TypeOf(f) = int_literal_type(decode_int(s), s)
    BY ONLY <1>3, s = Literals[toks[f.at]].text DEF TypeOf
  <2>2. \E b : int_literal_type(decode_int(s), s) = Plain(b)
    BY DEF int_literal_type
  <2> QED BY ONLY <2>1, <2>2, PlainType
<1>4. CASE f.kind = "FLOAT_LIT"
  <2>1. TypeOf(f) = Plain(IF Last(s) = "f" THEN "float" ELSE "double")
    BY ONLY <1>4, s = Literals[toks[f.at]].text DEF TypeOf
  <2> QED BY ONLY <2>1, PlainType
<1>5. CASE f.kind = "CHAR_LIT"
  <2>1. TypeOf(f) = Plain("int")
    BY ONLY <1>5 DEF TypeOf
  <2> QED BY ONLY <2>1, PlainType
<1>6. CASE f.kind = "STR_LIT"
  <2>1. TypeOf(f) = Derived(Plain("char"), f.at, 0)
    BY ONLY <1>6 DEF TypeOf
  <2>2. IsType(Plain("char"), Len(nodes), at)
    BY PlainType
  <2>3. at \in Nat /\ 0 \in 0 .. Len(nodes)
    BY ONLY <1>1
  <2> QED BY ONLY <1>1, <1>2, <2>1, <2>2, <2>3, DerivedType
<1>7. CASE f.kind = "FUNC_DEF"
  <2> PICK k : k = f.kids[1]
    OBVIOUS
  <2> PICK y : y = nodes[k].type
    OBVIOUS
  <2>1. TypeOf(f) = [y EXCEPT !.by = Tail(@)]
    BY ONLY <1>7, k = f.kids[1], y = nodes[k].type DEF TypeOf
  <2>2. f.todo = Nothing
    BY ONLY top.todo = <<>>, f = top DEF Nothing
  <2>3. k \in w.derived
    BY ONLY <1>1, <1>7, <2>2, k = f.kids[1], FinishedKids
  <2>4. Held(nodes, toks, at) /\ w = WorldOf(nodes, toks, at)
    BY ONLY Inv, w = World DEF Inv, World
  <2>5. k \in DOMAIN nodes /\ y.by # <<>>
    <3> QED BY ONLY <2>3, <2>4, y = nodes[k].type DEF WorldOf
  <2>6. IsNode(nodes[k], k - 1, at)
    BY ONLY <2>4, <2>5, HeldSound
  <2>7. IsType(y, k - 1, at)
    BY ONLY <2>6, NodeRange, y = nodes[k].type
  <2>8. k - 1 \in Nat /\ k - 1 <= Len(nodes) /\ at \in Nat /\ at <= at
    BY ONLY <1>1, <2>5
  <2>9. IsType(y, Len(nodes), at)
    BY ONLY <1>1, <2>7, <2>8, TypeStays
  <2> QED BY ONLY <2>1, <2>5, <2>9, ReturnedType
<1>8. CASE f.kind \notin {"INT_LIT", "FLOAT_LIT", "CHAR_LIT", "STR_LIT", "FUNC_DEF"}
  <2>1. TypeOf(f) = f.type
    BY ONLY <1>8 DEF TypeOf
  <2> QED BY ONLY <1>2, <2>1
<1> QED BY ONLY <1>3, <1>4, <1>5, <1>6, <1>7, <1>8

LEMMA NodeReturnInv ==
    ASSUME Inv, NodeReturn
    PROVE  Inv'
<1> PICK f : f = top
  OBVIOUS
<1> PICK w : w = World
  OBVIOUS
<1> PICK v : v = World'
  OBVIOUS
<1> PICK ms : ms = nodes'
  OBVIOUS
<1> PICK x : x = IF f.kind = "var_decl" THEN "COMPOUND" ELSE f.kind
  OBVIOUS
<1> PICK z : z = IF f.kind = "var_decl" THEN nodes[f.kids[1]].tok ELSE f.at
  OBVIOUS
<1> PICK d : d = Value(x, IF x \in {"INT_LIT", "CHAR_LIT",
        "STR_LIT"} THEN Literals[toks[z]].text ELSE <<>>)
  OBVIOUS
<1> PICK y : y = TypeOf(f)
  OBVIOUS
<1> PICK h : h = at - 1
  OBVIOUS
<1> PICK u : u = [kind |-> x, tok |-> z, from |-> f.from, to |-> h, kids |-> f.kids, type |-> y,
        closed |-> 0, value |-> d]
  OBVIOUS
<1> PICK n : n = Len(nodes) + 1
  OBVIOUS
<1> PICK p : p = Precedence(w.kind[u.tok])
  OBVIOUS
<1>1. /\ Going /\ top.todo = <<>> /\ Stay /\ f.kind \notin PassedOn \cup {"declarator", "parens"}
  BY ONLY NodeReturn, f = top DEF NodeReturn
<1>2. IF f.kind = "var_decl" THEN new_node("COMPOUND", nodes[f.kids[1]].tok) ELSE new_node(f.kind,
          f.at)
  BY ONLY NodeReturn, f = top DEF NodeReturn
<1>3. IF f.kind = "VAR_DECL" THEN Returns(n, f.type) ELSE Return(n)
  BY ONLY NodeReturn, f = top, n = Len(nodes) + 1 DEF NodeReturn
<1>4. /\ IsFrame(f, Len(nodes), w.at) /\ Rooted(f, w) /\ Stands(f, w) /\ Sound(w)
      /\ Len(nodes) \in Nat
      /\ DOMAIN w.level = 1 .. Len(nodes) /\ DOMAIN nodes = 1 .. Len(nodes) /\ w.at = at
      /\ at \in Nat \ {0}
  BY ONLY Inv, <1>1, f = top, w = World, Situation
<1>5. /\ f.todo = Nothing /\ f.kids \in Seq(0 .. Len(nodes)) /\ f.from \in 1 .. at /\ f.at \in 1 .. at
      /\ IsType(f.type, Len(nodes), at) /\ f.from \in Int
  BY ONLY <1>1, <1>4, FrameRange, FrameKids, f = top DEF Nothing
<1>6. Held(nodes, toks, at) /\ w = WorldOf(nodes, toks, at)
  BY ONLY Inv, w = World DEF Inv, World
<1>7. z \in 1 .. at
  <2>1. CASE f.kind # "var_decl"
    BY ONLY <1>5, <2>1, z = IF f.kind = "var_decl" THEN nodes[f.kids[1]].tok ELSE f.at
  <2>2. CASE f.kind = "var_decl"
    <3> PICK k : k = f.kids[1]
      OBVIOUS
    <3>1. All(f.kids, w, 14) /\ f.kids # Nothing
      BY ONLY <1>4, <1>5, <2>2, FinishedKids
    <3>2. 1 \in DOMAIN f.kids
      <4> PICK s : s = f.kids
        OBVIOUS
      <4> PICK S : S = 0 .. Len(nodes)
        OBVIOUS
      <4>1. s \in Seq(S) /\ s # <<>>
        BY ONLY <1>5, <3>1, s = f.kids, S = 0 .. Len(nodes) DEF Nothing
      <4>2. 1 \in DOMAIN s
        BY ONLY <4>1
      <4> QED BY ONLY <4>2, s = f.kids
    <3>3. k \in DOMAIN nodes
      BY ONLY <1>4, <3>1, <3>2, k = f.kids[1] DEF All, Fit
    <3>4. IsNode(nodes[k], k - 1, at)
      BY ONLY <1>6, <3>3, HeldSound
    <3>5. nodes[k].tok \in 1 .. at
      BY ONLY <3>4, NodeRange
    <3> QED BY ONLY <2>2, <3>5, k = f.kids[1],
                    z = IF f.kind = "var_decl" THEN nodes[f.kids[1]].tok ELSE f.at
  <2> QED BY ONLY <2>1, <2>2
<1>8. /\ u.kind = x /\ u.tok = z /\ u.from = f.from /\ u.to = h /\ u.kids = f.kids /\ u.type = y
      /\ u.closed = 0
      /\ u = [kind |-> u.kind, tok |-> u.tok, from |-> u.from, to |-> u.to, kids |-> u.kids,
              type |-> u.type, closed |-> u.closed, value |-> u.value]
  BY ONLY u = [kind |-> x, tok |-> z, from |-> f.from, to |-> h, kids |-> f.kids, type |-> y,
          closed |-> 0, value |-> d]
<1>9. IsNode(u, Len(nodes), at)
  <2>1. IsType(y, Len(nodes), at)
    BY ONLY Inv, <1>1, f = top, y = TypeOf(f), TypeOfIs
  <2>2. h \in Int /\ h + 1 \in 1 .. at /\ 0 \in Nat
    BY ONLY <1>4, h = at - 1
  <2>3. /\ u.tok \in 1 .. at /\ u.from \in 1 .. at /\ u.to \in Int /\ u.to + 1 \in 1 .. at
        /\ u.closed \in Nat
        /\ u.kids \in Seq(0 .. Len(nodes)) /\ IsType(u.type, Len(nodes), at)
    BY ONLY <1>5, <1>7, <1>8, <2>1, <2>2
  <2> QED BY ONLY <1>8, <2>3 DEF IsNode
<1>10. ms = Append(nodes, u)
  <2>1. CASE f.kind = "var_decl"
    <3>1. x = "COMPOUND" /\ z = nodes[f.kids[1]].tok
      BY ONLY <2>1, x = IF f.kind = "var_decl" THEN "COMPOUND" ELSE f.kind,
              z = IF f.kind = "var_decl" THEN nodes[f.kids[1]].tok ELSE f.at
    <3>2. new_node(x, z)
      BY ONLY <1>2, <2>1, <3>1
    <3> QED BY ONLY <3>2, ms = nodes', f = top, h = at - 1, y = TypeOf(f),
            d = Value(x, IF x \in {"INT_LIT", "CHAR_LIT",
                "STR_LIT"} THEN Literals[toks[z]].text ELSE <<>>),
            u = [kind |-> x, tok |-> z, from |-> f.from, to |-> h, kids |-> f.kids, type |-> y,
                closed |-> 0, value |-> d]
         DEF new_node
  <2>2. CASE f.kind # "var_decl"
    <3>1. x = f.kind /\ z = f.at
      BY ONLY <2>2, x = IF f.kind = "var_decl" THEN "COMPOUND" ELSE f.kind,
              z = IF f.kind = "var_decl" THEN nodes[f.kids[1]].tok ELSE f.at
    <3>2. new_node(x, z)
      BY ONLY <1>2, <2>2, <3>1
    <3> QED BY ONLY <3>2, ms = nodes', f = top, h = at - 1, y = TypeOf(f),
            d = Value(x, IF x \in {"INT_LIT", "CHAR_LIT",
                "STR_LIT"} THEN Literals[toks[z]].text ELSE <<>>),
            u = [kind |-> x, tok |-> z, from |-> f.from, to |-> h, kids |-> f.kids, type |-> y,
                closed |-> 0, value |-> d]
         DEF new_node
  <2> QED BY ONLY <2>1, <2>2
<1>11. Binds(u, w)
  <2>1. u.kind = IF f.kind = "var_decl" THEN "COMPOUND" ELSE f.kind
    BY ONLY <1>8, x = IF f.kind = "var_decl" THEN "COMPOUND" ELSE f.kind
  <2>2. f.kind # "var_decl" => u.tok = f.at
    BY ONLY <1>8, z = IF f.kind = "var_decl" THEN nodes[f.kids[1]].tok ELSE f.at
  <2>3. u.kids = f.kids /\ u.to = w.at - 1 /\ w.at \in Nat
    BY ONLY <1>4, <1>8, h = at - 1
  <2> QED BY ONLY <1>1, <1>4, <1>5, <2>1, <2>2, <2>3, NodeBinds
<1>12. v = WorldOf(ms, toks, at)
  BY ONLY <1>1, v = World', ms = nodes' DEF World, Stay
<1>13. /\ Later(w, v) /\ Held(ms, toks, at) /\ v.kind = w.kind /\ v.at = w.at
       /\ Len(ms) = n /\ n # 0 /\ n \in DOMAIN v.level /\ v.start[n] = u.from
       /\ v.level[n] = LevelOf(u.kind, Precedence(w.kind[u.tok]))
  <2>1. u.closed = 0
    BY ONLY <1>8
  <2>2. Adds(nodes, u, ms, n)
    BY ONLY <1>10, n = Len(nodes) + 1 DEF Adds
  <2> QED BY ONLY <1>6, <1>9, <1>11, <1>12, <2>1, <2>2, WorldGrows
<1>14. Result(f, n, w, v)
  <2>1. f.kind # "var_decl" => p = OperatorOf(f, w)
    BY ONLY <1>8, p = Precedence(w.kind[u.tok]),
            z = IF f.kind = "var_decl" THEN nodes[f.kids[1]].tok ELSE f.at
       DEF OperatorOf
  <2>2. p \in 0 .. 10
    BY PrecedenceRange
  <2>3. v.level[n] = LevelOf(x, p) /\ v.start[n] = f.from
    BY ONLY <1>8, <1>13, p = Precedence(w.kind[u.tok])
  <2> QED BY ONLY <1>1, <1>4, <1>5, <1>13, <2>1, <2>2, <2>3, NodeResult,
           x = IF f.kind = "var_decl" THEN "COMPOUND" ELSE f.kind
<1>15. Held(nodes, toks, at)'
  BY ONLY <1>1, <1>13, ms = nodes' DEF Stay
<1>16. n \in 0 .. Len(nodes') /\ Len(nodes) <= Len(nodes')
  BY ONLY <1>4, <1>13, ms = nodes', n = Len(nodes) + 1
<1>17. CASE f.kind = "VAR_DECL"
  <2>1. Returns(n, f.type)
    BY ONLY <1>3, <1>17
  <2>2. IsType(f.type, Len(nodes'), v.at)
    <3>1. v.at = at /\ at \in Nat /\ at <= at /\ Len(nodes') \in Nat
      BY ONLY <1>4, <1>13, ms = nodes', n = Len(nodes) + 1
    <3> QED BY ONLY <1>4, <1>5, <1>16, <3>1, TypeStays
  <2> QED BY ONLY Inv, <1>1, f = top, w = World, v = World', <1>13, <1>14, <1>15, <1>16, <2>1, <2>2,
                  ReturnsOn
<1>18. CASE f.kind # "VAR_DECL"
  <2>1. Return(n)
    BY ONLY <1>3, <1>18
  <2> QED BY ONLY Inv, <1>1, f = top, w = World, v = World', <1>13, <1>14, <1>15, <1>16, <2>1,
                  ReturnOn
<1> QED BY ONLY <1>17, <1>18

-----------------------------------------------------------------------------
(* Every step keeps the invariant.                                         *)
LEMMA ExpressionInv ==
    ASSUME Inv, Expression
    PROVE  Inv'
  BY ONLY Inv, Expression, CommasInv, AssignInv, ConditionalInv, BinaryInv, UnaryInv, SizeofInv,
          PostfixInv,
          ArgumentsInv, PrimaryInv DEF Expression

LEMMA DeclarationInv ==
    ASSUME Inv, Declaration
    PROVE  Inv'
  BY ONLY Inv, Declaration, WordsInv, NothingDeclaredInv, FuncOrDeclInv, StarsInv, NameInv,
          VariableInv,
          DimensionsInv, ParametersInv, DeriveInv, ParameterListInv, ParameterInv, NextParameterInv
     DEF Declaration

LEMMA StutterInv ==
    ASSUME Inv, UNCHANGED vars
    PROVE  Inv'
<1>1. /\ file' = file /\ status' = status /\ goals' = goals /\ nodes' = nodes /\ toks' = toks
      /\ at' = at
  BY ONLY UNCHANGED vars DEF vars
<1>2. World' = World
  BY ONLY <1>1 DEF World
<1> QED BY ONLY Inv, <1>1, <1>2 DEF Inv

LEMMA NextInv ==
    ASSUME Inv, [Next]_vars
    PROVE  Inv'
<1>1. CASE Next
  BY ONLY Inv, <1>1, ExpectInv, CallInv, MatchInv, CheckInv, DeclarationInv, StatementInv,
          ExpressionInv,
          FunctionReturnInv, NodeReturnInv DEF Next
<1>2. CASE UNCHANGED vars
  BY ONLY Inv, <1>2, StutterInv
<1> QED BY ONLY [Next]_vars, <1>1, <1>2

LEMMA InitInv ==
    ASSUME Init
    PROVE  Inv
<1> PICK w : w = World
  OBVIOUS
<1> PICK f : f = [kind |-> "TRANSLATION_UNIT", from |-> 1, at |-> 1, kids |-> <<>>,
                  todo |-> Steps("TRANSLATION_UNIT"), type |-> NoType, min |-> 0]
  OBVIOUS
<1>1. /\ file \in Files /\ at = 1 /\ goals = <<f>> /\ nodes = <<>> /\ status = "going"
      /\ \E t, u : toks = <<t, u>>
  BY ONLY Init, f = [kind |-> "TRANSLATION_UNIT", from |-> 1, at |-> 1, kids |-> <<>>,
                  todo |-> Steps("TRANSLATION_UNIT"), type |-> NoType, min |-> 0] DEF Init
<1>2. Held(nodes, toks, at)
  <2>1. IsSeq(toks) /\ Len(toks) = at + 1
    <3>1. PICK t, u : toks = <<t, u>>
      BY <1>1
    <3>2. toks \in Seq({t, u}) /\ Len(toks) = 2
      BY ONLY <3>1
    <3>3. IsSeq(toks)
      BY ONLY <3>2, IsSeqOf
    <3> QED BY ONLY <1>1, <3>2, <3>3
  <2>2. NodesSound(nodes, WorldOf(nodes, toks, at))
    BY ONLY <1>1, NilIsSeq DEF NodesSound
  <2> QED BY ONLY <1>1, <2>1, <2>2 DEF Held
<1>3. w.at = at /\ Len(nodes) = 0
  BY ONLY <1>1, w = World DEF World, WorldOf
<1>4. /\ f.kind = "TRANSLATION_UNIT" /\ f.kids = <<>> /\ f.todo = Steps("TRANSLATION_UNIT")
      /\ f.from = 1 /\ f.at = 1 /\ f.min = 0 /\ f.type = NoType
      /\ f = [kind |-> f.kind, from |-> f.from, at |-> f.at, kids |-> f.kids,
              todo |-> f.todo, type |-> f.type, min |-> f.min]
  BY ONLY f = [kind |-> "TRANSLATION_UNIT", from |-> 1, at |-> 1, kids |-> <<>>,
                  todo |-> Steps("TRANSLATION_UNIT"), type |-> NoType, min |-> 0]
<1>5. IsFrame(f, Len(nodes), w.at)
  <2>1. IsType(f.type, Len(nodes), w.at)
    BY ONLY <1>4, PlainType DEF NoType
  <2>2. f.kids \in Seq(0 .. Len(nodes))
    BY ONLY <1>4
  <2>3. f.from \in 1 .. w.at /\ f.at \in 1 .. w.at /\ f.min \in 0 .. 11
    BY ONLY <1>1, <1>3, <1>4
  <2> QED BY ONLY <1>4, <2>1, <2>2, <2>3 DEF IsFrame
<1>6. Rooted(f, w)
  BY ONLY <1>4 DEF Rooted, Nothing
<1>7. Stands(f, w)
  <2>1. f.todo \in Seq(PlainStep)
    <3>1. Steps("TRANSLATION_UNIT") = <<Until("eof", "DECL")>>
      BY DEF Steps, StatementSteps
    <3>2. Until("eof", "DECL") \in PlainStep
      BY DEF PlainStep
    <3> PICK x : x = Until("eof", "DECL")
      OBVIOUS
    <3> PICK S : S = PlainStep
      OBVIOUS
    <3>3. f.todo = <<x>> /\ x \in S
      BY ONLY <1>4, <3>1, <3>2, x = Until("eof", "DECL"), S = PlainStep
    <3>4. f.todo \in Seq(S)
      BY ONLY <3>3
    <3> QED BY ONLY <3>4, S = PlainStep
  <2> QED BY ONLY <1>4, <2>1 DEF Stands, StatementStands, Simple
<1>8. Under(f, <<>>, Len(nodes), w)
  BY ONLY NilIsSeq DEF Under
<1>9. StackSound(goals, Len(nodes), w)
  <2>1. StackSound(Onto(f, <<>>), Len(nodes), w)
    BY ONLY <1>5, <1>6, <1>7, <1>8, Stacked
  <2>2. goals = Onto(f, <<>>)
    BY ONLY <1>1 DEF Onto
  <2> QED BY ONLY <2>1, <2>2
<1>10. goals # <<>>
  BY ONLY <1>1
<1> QED BY ONLY <1>1, <1>2, <1>9, <1>10, w = World DEF Inv

(* In every state each call stands where the grammar of parser.c puts it,  *)
(* has the kids and what is left to do of its place, and waits for a call  *)
(* that gives what it lacks; every node built binds its kids as C says.    *)
THEOREM ParserInv == Spec => []Inv
<1>1. Init => Inv
  BY InitInv
<1>2. Inv /\ [Next]_vars => Inv'
  BY NextInv
<1> QED BY <1>1, <1>2, PTL DEF Spec

-----------------------------------------------------------------------------
(* What the invariant says of every call and every node.                   *)
LEMMA EveryFrame ==
    ASSUME NEW st, NEW n, NEW w, StackSound(st, n, w), NEW i \in DOMAIN st
    PROVE  IsFrame(st[i], n, w.at)
<1>1. IsSeq(st)
  BY DEF StackSound
<1>2. st # <<>>
  BY ONLY <1>1, i \in DOMAIN st
<1> PICK f : f = Head(st)
  OBVIOUS
<1> PICK t : t = Tail(st)
  OBVIOUS
<1>3. IsFrame(f, n, w.at) /\ Under(f, t, n, w)
  BY ONLY StackSound(st, n, w), <1>2, Top, f = Head(st), t = Tail(st)
<1>4. CASE i = 1
  <2>1. f = st[1]
    BY ONLY f = Head(st)
  <2> QED BY ONLY <1>3, <1>4, <2>1
<1>5. CASE i # 1
  <2> PICK S : S = Elements(st)
    OBVIOUS
  <2>1. st \in Seq(S)
    BY ONLY <1>1, S = Elements(st) DEF IsSeq
  <2>2. i - 1 \in DOMAIN t /\ t[i - 1] = st[i] /\ t # <<>>
    <3>1. t \in Seq(S) /\ Len(t) = Len(st) - 1 /\ \A j \in 1 .. Len(t) : t[j] = st[j + 1]
      BY ONLY <1>2, <2>1, t = Tail(st), HeadTailProperties
    <3>2. i \in 1 .. Len(st) /\ Len(st) \in Nat /\ DOMAIN t = 1 .. Len(t)
      BY ONLY <2>1, <3>1, i \in DOMAIN st
    <3>3. i - 1 \in 1 .. Len(t)
      BY ONLY <1>5, <3>1, <3>2
    <3>4. t[i - 1] = st[i - 1 + 1] /\ i - 1 + 1 = i
      BY ONLY <3>1, <3>2, <3>3
    <3>5. t # <<>>
      BY ONLY <3>1, <3>3
    <3> QED BY ONLY <3>2, <3>3, <3>4, <3>5
  <2>3. \E g : Bears(t[i - 1], g, n, w)
    <3> PICK j : j = i - 1
      OBVIOUS
    <3>1. CASE j = 1
      BY ONLY <1>3, <2>2, <3>1, j = i - 1 DEF Under
    <3>2. CASE j # 1
      BY ONLY <1>3, <2>2, <3>2, j = i - 1 DEF Under
    <3> QED BY ONLY <3>1, <3>2, j = i - 1
  <2> QED BY ONLY <2>2, <2>3 DEF Bears
<1> QED BY ONLY <1>4, <1>5

LEMMA InRange ==
    ASSUME NEW S, NEW s \in Seq(S)
    PROVE  Range(s) \subseteq S
  BY DEF Range

LEMMA TypeRange ==
    ASSUME NEW t, NEW n, NEW a, IsType(t, n, a)
    PROVE  Range(t.by) \subseteq [tok : 1 .. a, len : 0 .. n]
<1> PICK S : S = [tok : 1 .. a, len : 0 .. n]
  OBVIOUS
<1>1. t.by \in Seq(S)
  BY ONLY IsType(t, n, a), S = [tok : 1 .. a, len : 0 .. n] DEF IsType
<1> QED BY ONLY <1>1, InRange, S = [tok : 1 .. a, len : 0 .. n]

LEMMA KidsRange ==
    ASSUME NEW s, NEW n, s \in Seq(0 .. n)
    PROVE  \A k \in Range(s) : k \in 0 .. n
<1> PICK S : S = 0 .. n
  OBVIOUS
<1>1. s \in Seq(S)
  OBVIOUS
<1>2. Range(s) \subseteq S
  BY ONLY <1>1, InRange
<1> QED BY ONLY <1>2, S = 0 .. n

LEMMA InvTypeOK == Inv => TypeOK
<1> SUFFICES ASSUME Inv PROVE TypeOK
  OBVIOUS
<1> PICK w : w = World
  OBVIOUS
<1> PICK m : m = Len(nodes)
  OBVIOUS
<1>1. /\ file \in Files /\ status \in {"going", "done", "rejected"}
      /\ (status = "done" <=> goals = <<>>)
      /\ Held(nodes, toks, at) /\ StackSound(goals, m, w) /\ w = WorldOf(nodes, toks, at)
  BY ONLY Inv, w = World, m = Len(nodes) DEF Inv, World
<1>2. /\ w.at = at /\ at \in Nat \ {0} /\ Len(toks) = at + 1
      /\ \A n \in DOMAIN nodes : IsNode(nodes[n], n - 1, at)
  BY ONLY <1>1, HeldSound
<1>3. ASSUME NEW i \in DOMAIN goals
      PROVE  /\ goals[i].from \in 1 .. at /\ goals[i].at \in 1 .. at /\ goals[i].min \in 0 .. 11
             /\ \A k \in Range(goals[i].kids) : k \in 0 .. Len(nodes)
             /\ Range(goals[i].type.by) \subseteq [tok : 1 .. at, len : 0 .. Len(nodes)]
  <2> PICK f : f = goals[i]
    OBVIOUS
  <2>1. IsFrame(f, m, at)
    BY ONLY <1>1, <1>2, EveryFrame, f = goals[i], i \in DOMAIN goals
  <2>2. f.from \in 1 .. at /\ f.at \in 1 .. at /\ f.min \in 0 .. 11 /\ IsType(f.type, m, at)
          /\ f.kids \in Seq(0 .. m)
    BY ONLY <2>1, FrameRange, FrameKids
  <2>3. Range(f.type.by) \subseteq [tok : 1 .. at, len : 0 .. m]
    BY ONLY <2>2, TypeRange
  <2>4. \A k \in Range(f.kids) : k \in 0 .. m
    BY ONLY <2>2, KidsRange
  <2> QED BY ONLY <2>2, <2>3, <2>4, f = goals[i], m = Len(nodes)
<1>4. ASSUME NEW n \in DOMAIN nodes
      PROVE  /\ nodes[n].tok \in 1 .. at
             /\ \A k \in Range(nodes[n].kids) : k \in 0 .. (n - 1)
             /\ Range(nodes[n].type.by) \subseteq [tok : 1 .. at, len : 0 .. (n - 1)]
  <2> PICK v : v = nodes[n]
    OBVIOUS
  <2> PICK l : l = n - 1
    OBVIOUS
  <2>1. v.tok \in 1 .. at /\ IsType(v.type, l, at) /\ v.kids \in Seq(0 .. l)
    BY ONLY <1>2, NodeRange, v = nodes[n], l = n - 1, n \in DOMAIN nodes
  <2>3. Range(v.type.by) \subseteq [tok : 1 .. at, len : 0 .. l]
    BY ONLY <2>1, TypeRange
  <2>4. \A k \in Range(v.kids) : k \in 0 .. l
    BY ONLY <2>1, KidsRange
  <2> QED BY ONLY <2>1, <2>3, <2>4, v = nodes[n], l = n - 1
<1>5. at >= 1
  BY ONLY <1>2
<1> QED BY ONLY <1>1, <1>2, <1>3, <1>4, <1>5 DEF TypeOK

(* Frames and nodes are well formed in every state: kids are built before  *)
(* the node, types name tokens read, and one token is read ahead.          *)
THEOREM ParserTypes == Spec => []TypeOK
  BY ParserInv, InvTypeOK, PTL

-----------------------------------------------------------------------------
(* The grammar's levels of the binary operators are the precedences.       *)
LEMMA LevelOfOperator ==
    ASSUME NEW k, NEW l \in 1 .. 10
    PROVE  k \in BinaryLevels[l] <=> Precedence(k) = l
<1>1. CASE l = 1
  BY ONLY <1>1 DEF BinaryLevels, Precedence
<1>2. CASE l = 2
  BY ONLY <1>2 DEF BinaryLevels, Precedence
<1>3. CASE l = 3
  BY ONLY <1>3 DEF BinaryLevels, Precedence
<1>4. CASE l = 4
  BY ONLY <1>4 DEF BinaryLevels, Precedence
<1>5. CASE l = 5
  BY ONLY <1>5 DEF BinaryLevels, Precedence
<1>6. CASE l = 6
  BY ONLY <1>6 DEF BinaryLevels, Precedence
<1>7. CASE l = 7
  BY ONLY <1>7 DEF BinaryLevels, Precedence
<1>8. CASE l = 8
  BY ONLY <1>8 DEF BinaryLevels, Precedence
<1>9. CASE l = 9
  BY ONLY <1>9 DEF BinaryLevels, Precedence
<1>10. CASE l = 10
  BY ONLY <1>10 DEF BinaryLevels, Precedence
<1> QED BY ONLY <1>1, <1>2, <1>3, <1>4, <1>5, <1>6, <1>7, <1>8, <1>9, <1>10, l \in 1 .. 10

LEMMA BinaryLevelIs ==
    ASSUME NEW n, Precedence(KindAt(n)) # 0
    PROVE  BinaryLevel(n) = 3 + Precedence(KindAt(n))
<1> PICK p : p = Precedence(KindAt(n))
  OBVIOUS
<1>1. p \in 1 .. 10
  <2>1. p \in 0 .. 10 /\ p # 0
    BY ONLY Precedence(KindAt(n)) # 0, p = Precedence(KindAt(n)), PrecedenceRange
  <2> QED BY ONLY <2>1
<1>2. \A l \in 1 .. 10 : KindAt(n) \in BinaryLevels[l] <=> l = p
  BY ONLY LevelOfOperator, p = Precedence(KindAt(n))
<1>3. (CHOOSE l \in 1 .. 10 : KindAt(n) \in BinaryLevels[l]) = p
  BY ONLY <1>1, <1>2
<1> QED BY ONLY <1>3, p = Precedence(KindAt(n)) DEF BinaryLevel

LEMMA OperatorLevel ==
    ASSUME Inv, NEW w, w = World, NEW n \in DOMAIN nodes, nodes[n].kind = "BINARY"
    PROVE  /\ nodes[n].tok \in 1 .. at /\ KindAt(n) = w.kind[nodes[n].tok]
           /\ BinaryLevel(n) = 3 + Precedence(KindAt(n)) /\ Precedence(KindAt(n)) \in 1 .. 10
<1>1. Held(nodes, toks, at) /\ w = WorldOf(nodes, toks, at)
  BY ONLY Inv, w = World DEF Inv, World
<1> PICK v : v = nodes[n]
  OBVIOUS
<1>2. /\ IsNode(v, n - 1, at) /\ Binds(v, w) /\ at \in Nat
      /\ \A i \in 1 .. (at + 1) : w.kind[i] = Kind(toks[i])
  BY ONLY <1>1, HeldSound, v = nodes[n], n \in DOMAIN nodes
<1>3. v.tok \in 1 .. at
  BY ONLY <1>2, NodeRange
<1>4. w.kind[v.tok] = Kind(toks[v.tok])
  <2>1. v.tok \in 1 .. (at + 1)
    BY ONLY <1>2, <1>3
  <2> QED BY ONLY <1>2, <2>1
<1>5. KindAt(n) = w.kind[v.tok]
  BY ONLY <1>4, v = nodes[n] DEF KindAt
<1>6. Precedence(w.kind[v.tok]) >= 1
  BY ONLY <1>2, v = nodes[n], nodes[n].kind = "BINARY" DEF Binds
<1>7. Precedence(KindAt(n)) # 0 /\ Precedence(KindAt(n)) \in 1 .. 10
  <2> PICK p : p = Precedence(KindAt(n))
    OBVIOUS
  <2>1. p \in 0 .. 10 /\ p >= 1
    BY ONLY <1>5, <1>6, p = Precedence(KindAt(n)), PrecedenceRange
  <2>2. p # 0 /\ p \in 1 .. 10
    BY ONLY <2>1
  <2> QED BY ONLY <2>2, p = Precedence(KindAt(n))
<1>8. BinaryLevel(n) = 3 + Precedence(KindAt(n))
  BY ONLY <1>7, BinaryLevelIs
<1> QED BY ONLY <1>3, <1>5, <1>7, <1>8, v = nodes[n]

(* What the world says of a node's level is no more than Level.            *)
LEMMA LevelAtLeast ==
    ASSUME Inv, NEW w, w = World, NEW n, NEW l \in Int, Fit(n, w, l)
    PROVE  Level(n) >= l
<1>1. Held(nodes, toks, at) /\ w = WorldOf(nodes, toks, at)
  BY ONLY Inv, w = World DEF Inv, World
<1>2. /\ DOMAIN w.level = 1 .. Len(nodes) /\ DOMAIN nodes = 1 .. Len(nodes) /\ Sound(w)
      /\ w.level = LevelsOf(nodes, toks)
  <2>1. w.level = LevelsOf(nodes, toks)
    BY ONLY <1>1 DEF WorldOf
  <2> QED BY ONLY <1>1, <2>1, HeldSound
<1>3. n \in DOMAIN nodes /\ w.level[n] \in 0 .. 16 /\ w.level[n] >= l
  BY ONLY <1>2, Fit(n, w, l) DEF Fit, Sound
<1> PICK v : v = nodes[n]
  OBVIOUS
<1> PICK p : p = Precedence(KindAt(n))
  OBVIOUS
<1>4. w.level[n] = IF v.kind \in Valued /\ v.closed > 0 THEN 16 ELSE LevelOf(v.kind, p)
  BY ONLY <1>2, <1>3, LevelIs, v = nodes[n], p = Precedence(KindAt(n)) DEF KindAt
<1>5. CASE v.closed > 0
  <2>1. Level(n) = 16
    BY ONLY <1>5, v = nodes[n] DEF Level
  <2> QED BY ONLY <1>3, <2>1, l \in Int
<1>6. CASE ~(v.closed > 0)
  <2>0. w.level[n] = LevelOf(v.kind, p)
    BY ONLY <1>4, <1>6
  <2>1. CASE v.kind = "BINARY"
    <3>1. Level(n) = BinaryLevel(n)
      BY ONLY <1>6, <2>1, v = nodes[n] DEF Level
    <3>2. BinaryLevel(n) = 3 + p
      BY ONLY Inv, w = World, <1>3, <2>1, v = nodes[n], p = Precedence(KindAt(n)), OperatorLevel
    <3>3. w.level[n] = 3 + p
      BY ONLY <2>0, <2>1 DEF LevelOf
    <3> QED BY ONLY <1>3, <3>1, <3>2, <3>3
  <2>2. CASE v.kind # "BINARY"
    <3> PICK e : e = LevelOf(v.kind, p)
      OBVIOUS
    <3>1. Level(n) = e \/ Level(n) = 16
      BY ONLY <1>6, <2>2, v = nodes[n], e = LevelOf(v.kind, p) DEF Level, LevelOf
    <3>2. e \in 0 .. 16 /\ e >= l
      BY ONLY <1>3, <2>0, e = LevelOf(v.kind, p)
    <3> QED BY ONLY <3>1, <3>2, l \in Int
  <2> QED BY ONLY <2>1, <2>2
<1> QED BY ONLY <1>5, <1>6

LEMMA NodeBindsAsC ==
    ASSUME Inv, NEW n \in DOMAIN nodes, NEW v, v = nodes[n], NEW k, k = v.kids
    PROVE  /\ v.kind = "COMMA_EXPR" => Level(k[1]) >= 1 /\ Level(k[2]) >= 2
           /\ v.kind = "ASSIGN" => Level(k[1]) >= 3 /\ Level(k[2]) >= 2
           /\ v.kind = "CONDITIONAL" => Level(k[1]) >= 4 /\ Level(k[3]) >= 3
           /\ v.kind = "BINARY" => Level(k[1]) >= BinaryLevel(n) /\ Level(k[2]) >= BinaryLevel(n) + 1
           /\ v.kind = "UNARY" => Level(k[1]) >= 14
           /\ v.kind = "SIZEOF" => Level(k[1]) >= 14 \/ nodes[k[1]].from > v.tok + 1
           /\ v.kind \in {"INDEX", "CALL", "MEMBER", "POSTFIX"} => Level(k[1]) >= 15
           /\ v.kind = "IF" => k[3] # 0 \/ Kind(toks[v.to + 1]) # "else"
<1> PICK w : w = World
  OBVIOUS
<1>1. Held(nodes, toks, at) /\ w = WorldOf(nodes, toks, at)
  BY ONLY Inv, w = World DEF Inv, World
<1>2. /\ IsNode(v, n - 1, at) /\ Binds(v, w) /\ at \in Nat /\ Sound(w)
      /\ \A i \in 1 .. (at + 1) : w.kind[i] = Kind(toks[i])
  BY ONLY <1>1, HeldSound, v = nodes[n], n \in DOMAIN nodes
<1>3. \A i, l : l \in Int /\ Fit(i, w, l) => Level(i) >= l
  BY ONLY Inv, w = World, LevelAtLeast
<1>4. v.kind = "COMMA_EXPR" => Level(k[1]) >= 1 /\ Level(k[2]) >= 2
  BY ONLY <1>2, <1>3, k = v.kids DEF Binds, Two
<1>5. v.kind = "ASSIGN" => Level(k[1]) >= 3 /\ Level(k[2]) >= 2
  BY ONLY <1>2, <1>3, k = v.kids DEF Binds, Two
<1>6. v.kind = "CONDITIONAL" => Level(k[1]) >= 4 /\ Level(k[3]) >= 3
  BY ONLY <1>2, <1>3, k = v.kids DEF Binds, Three
<1>7. v.kind = "BINARY" => Level(k[1]) >= BinaryLevel(n) /\ Level(k[2]) >= BinaryLevel(n) + 1
  <2> SUFFICES ASSUME v.kind = "BINARY" PROVE Level(k[1]) >= BinaryLevel(n)
        /\ Level(k[2]) >= BinaryLevel(n) + 1
    OBVIOUS
  <2> PICK p : p = Precedence(KindAt(n))
    OBVIOUS
  <2>1. KindAt(n) = w.kind[v.tok] /\ BinaryLevel(n) = 3 + p /\ p \in 1 .. 10
    BY ONLY Inv, w = World, v = nodes[n], n \in DOMAIN nodes, v.kind = "BINARY", OperatorLevel,
            p = Precedence(KindAt(n))
  <2>2. Two(k, w, 3 + p, 4 + p)
    BY ONLY <1>2, <2>1, v.kind = "BINARY", k = v.kids, p = Precedence(KindAt(n)) DEF Binds
  <2>3. Fit(k[1], w, 3 + p) /\ Fit(k[2], w, 4 + p)
    BY ONLY <2>2 DEF Two
  <2>4. 3 + p \in Int /\ 4 + p \in Int /\ 4 + p = 3 + p + 1
    BY ONLY <2>1
  <2>5. Level(k[1]) >= 3 + p /\ Level(k[2]) >= 4 + p
    BY ONLY <1>3, <2>3, <2>4
  <2> QED BY ONLY <2>1, <2>4, <2>5
<1>8. v.kind = "UNARY" => Level(k[1]) >= 14
  BY ONLY <1>2, <1>3, k = v.kids DEF Binds, One
<1>9. v.kind = "SIZEOF" => Level(k[1]) >= 14 \/ nodes[k[1]].from > v.tok + 1
  <2> SUFFICES ASSUME v.kind = "SIZEOF" PROVE Level(k[1]) >= 14 \/ nodes[k[1]].from > v.tok + 1
    OBVIOUS
  <2> PICK i : i = k[1]
    OBVIOUS
  <2>1. Starts(i, w, v.tok + 2)
    BY ONLY <1>2, v.kind = "SIZEOF", k = v.kids, i = k[1] DEF Binds
  <2>2. CASE w.level[i] >= 14
    <3>1. Fit(i, w, 14)
      BY ONLY <2>1, <2>2 DEF Starts, Fit
    <3> QED BY ONLY <1>3, <3>1, i = k[1]
  <2>3. CASE ~(w.level[i] >= 14)
    <3>1. i \in DOMAIN w.level /\ w.start[i] >= v.tok + 2
      BY ONLY <2>1, <2>3 DEF Starts
    <3>2. i \in DOMAIN nodes /\ w.start[i] = nodes[i].from
      <4>1. DOMAIN w.level = DOMAIN nodes /\ w.start = [j \in DOMAIN nodes |-> nodes[j].from]
        BY ONLY <1>1, WorldIs
      <4> QED BY ONLY <3>1, <4>1
    <3>3. v.tok \in 1 .. at /\ w.start[i] \in Nat
      BY ONLY <1>2, <3>1, NodeRange DEF Sound
    <3>4. nodes[i].from > v.tok + 1
      BY ONLY <1>2, <3>1, <3>2, <3>3
    <3> QED BY ONLY <3>4, i = k[1]
  <2> QED BY ONLY <2>2, <2>3
<1>10. v.kind \in {"INDEX", "CALL", "MEMBER", "POSTFIX"} => Level(k[1]) >= 15
  BY ONLY <1>2, <1>3, k = v.kids DEF Binds, First
<1>11. v.kind = "IF" => k[3] # 0 \/ Kind(toks[v.to + 1]) # "else"
  <2> SUFFICES ASSUME v.kind = "IF" PROVE k[3] # 0 \/ Kind(toks[v.to + 1]) # "else"
    OBVIOUS
  <2>1. k[3] # 0 \/ w.kind[v.to + 1] # "else"
    BY ONLY <1>2, v.kind = "IF", k = v.kids DEF Binds
  <2>2. v.to + 1 \in 1 .. at
    BY ONLY <1>2, NodeRange
  <2>3. v.to + 1 \in 1 .. (at + 1)
    <3> PICK j : j = v.to + 1
      OBVIOUS
    <3>1. j \in 1 .. (at + 1)
      BY ONLY <1>2, <2>2, j = v.to + 1
    <3> QED BY ONLY <3>1, j = v.to + 1
  <2>4. w.kind[v.to + 1] = Kind(toks[v.to + 1])
    BY ONLY <1>2, <2>3
  <2> QED BY ONLY <2>1, <2>4
<1> QED BY ONLY <1>4, <1>5, <1>6, <1>7, <1>8, <1>9, <1>10, <1>11

LEMMA InvBindsAsC == Inv => BindsAsC
<1> SUFFICES ASSUME Inv PROVE BindsAsC
  OBVIOUS
<1>1. ASSUME NEW n \in DOMAIN nodes
      PROVE  LET k == nodes[n].kids
                 kind == nodes[n].kind
                 least(l, r) == Level(k[1]) >= l /\ Level(k[2]) >= r
             IN  CASE kind = "COMMA_EXPR" -> least(1, 2)
                   [] kind = "ASSIGN" -> least(3, 2)
                   [] kind = "CONDITIONAL" -> Level(k[1]) >= 4 /\ Level(k[3]) >= 3
                   [] kind = "BINARY" -> least(BinaryLevel(n), BinaryLevel(n) + 1)
                   [] kind = "UNARY" -> Level(k[1]) >= 14
                   [] kind = "SIZEOF" -> Level(k[1]) >= 14 \/ nodes[k[1]].from > nodes[n].tok + 1
                   [] kind \in {"INDEX", "CALL", "MEMBER", "POSTFIX"} -> Level(k[1]) >= 15
                   [] kind = "IF" -> k[3] # 0 \/ Kind(toks[nodes[n].to + 1]) # "else"
                   [] OTHER -> TRUE
  <2> PICK v : v = nodes[n]
    OBVIOUS
  <2> PICK k : k = v.kids
    OBVIOUS
  <2>1. /\ v.kind = "COMMA_EXPR" => Level(k[1]) >= 1 /\ Level(k[2]) >= 2
        /\ v.kind = "ASSIGN" => Level(k[1]) >= 3 /\ Level(k[2]) >= 2
        /\ v.kind = "CONDITIONAL" => Level(k[1]) >= 4 /\ Level(k[3]) >= 3
        /\ v.kind = "BINARY" => Level(k[1]) >= BinaryLevel(n) /\ Level(k[2]) >= BinaryLevel(n) + 1
        /\ v.kind = "UNARY" => Level(k[1]) >= 14
        /\ v.kind = "SIZEOF" => Level(k[1]) >= 14 \/ nodes[k[1]].from > v.tok + 1
        /\ v.kind \in {"INDEX", "CALL", "MEMBER", "POSTFIX"} => Level(k[1]) >= 15
        /\ v.kind = "IF" => k[3] # 0 \/ Kind(toks[v.to + 1]) # "else"
    BY ONLY Inv, n \in DOMAIN nodes, v = nodes[n], k = v.kids, NodeBindsAsC
  <2> QED BY ONLY <2>1, v = nodes[n], k = v.kids
<1> QED BY ONLY <1>1 DEF BindsAsC

(* The tree of every accepted file binds operators as the grammar of C     *)
(* does: each operand is of the level its production asks for, or has      *)
(* parentheses around it, and an else belongs to the nearest if.           *)
THEOREM ParserBinds == Spec => []BindsAsC
  BY ParserInv, InvBindsAsC, PTL

-----------------------------------------------------------------------------
(* Trees over the source.                                                  *)

(* What is left of the kids r: some may be NULL, or gone.                  *)
Part(s, r) == \A i \in DOMAIN s : s[i] # 0 => i \in DOMAIN r /\ s[i] = r[i]

(* Call f has kids that are pieces of what it read before b, in order, and *)
(* that no node has yet.                                                   *)
Own(f, b, ns) ==
    \A i \in DOMAIN f.kids : f.kids[i] # 0 =>
        /\ f.from <= ns[f.kids[i]].from /\ ns[f.kids[i]].to < b
        /\ \A j \in DOMAIN f.kids :
            i < j /\ f.kids[j] # 0 => ns[f.kids[i]].to < ns[f.kids[j]].from
        /\ \A m \in DOMAIN ns : \A j \in DOMAIN ns[m].kids : ns[m].kids[j] # f.kids[i]

(* The kids of call g were built before those of call f.                   *)
Older(g, f) ==
    \A i \in DOMAIN g.kids, j \in DOMAIN f.kids :
        g.kids[i] # 0 /\ f.kids[j] # 0 => g.kids[i] < f.kids[j]

Bound(st, i, a) == IF i = 1 THEN a ELSE st[i - 1].from

Laid(st, ns, a) ==
    /\ \A i \in DOMAIN st : Own(st[i], Bound(st, i, a), ns)
    /\ \A i, j \in DOMAIN st : i < j => Older(st[j], st[i])

(* Places are numbers, and kids nodes.                                     *)
Placed(ns) ==
    /\ DOMAIN ns = 1 .. Len(ns) /\ Len(ns) \in Nat
    /\ \A m \in DOMAIN ns : /\ ns[m].from \in Int /\ ns[m].to \in Int
                            /\ ns[m].kids \in Seq(0 .. (m - 1))
IsCall(f, ns) == f.from \in Int /\ f.kids \in Seq(0 .. Len(ns))
Calls(st, ns) == IsSeq(st) /\ \A i \in DOMAIN st : IsCall(st[i], ns)

LEMMA KidIs ==
    ASSUME NEW ns, Placed(ns), NEW f, IsCall(f, ns), NEW i \in DOMAIN f.kids
    PROVE  /\ DOMAIN f.kids = 1 .. Len(f.kids) /\ Len(f.kids) \in Nat
           /\ f.kids[i] \in 0 .. Len(ns) /\ (f.kids[i] # 0 => f.kids[i] \in DOMAIN ns)
<1>1. f.kids[i] \in 0 .. Len(ns) /\ DOMAIN f.kids = 1 .. Len(f.kids) /\ Len(f.kids) \in Nat
  BY ONLY IsCall(f, ns), i \in DOMAIN f.kids DEF IsCall
<1>2. Len(ns) \in Nat /\ DOMAIN ns = 1 .. Len(ns)
  BY DEF Placed
<1> QED BY ONLY <1>1, <1>2

(* A call that goes on owns what is left of its kids.                      *)
LEMMA OwnPart ==
    ASSUME NEW ns, Placed(ns), NEW f, IsCall(f, ns), NEW b \in Int, Own(f, b, ns),
           NEW g, g.from = f.from, Part(g.kids, f.kids), NEW c \in Int, b <= c
    PROVE  Own(g, c, ns)
<1> SUFFICES ASSUME NEW i \in DOMAIN g.kids, g.kids[i] # 0
             PROVE  /\ g.from <= ns[g.kids[i]].from /\ ns[g.kids[i]].to < c
                    /\ \A j \in DOMAIN g.kids :
                        i < j /\ g.kids[j] # 0 => ns[g.kids[i]].to < ns[g.kids[j]].from
                    /\ \A m \in DOMAIN ns : \A j \in DOMAIN ns[m].kids :
                        ns[m].kids[j] # g.kids[i]
  BY DEF Own
<1> PICK k : k = f.kids[i]
  OBVIOUS
<1>1. i \in DOMAIN f.kids /\ g.kids[i] = k /\ k # 0
  BY ONLY Part(g.kids, f.kids), i \in DOMAIN g.kids, g.kids[i] # 0, k = f.kids[i] DEF Part
<1>2. k \in DOMAIN ns
  BY ONLY <1>1, Placed(ns), IsCall(f, ns), k = f.kids[i], KidIs
<1>3. ns[k].to \in Int
  BY ONLY <1>2, Placed(ns) DEF Placed
<1>4. /\ f.from <= ns[k].from /\ ns[k].to < b
      /\ \A j \in DOMAIN f.kids : i < j /\ f.kids[j] # 0 => ns[k].to < ns[f.kids[j]].from
      /\ \A m \in DOMAIN ns : \A j \in DOMAIN ns[m].kids : ns[m].kids[j] # k
  BY ONLY <1>1, Own(f, b, ns), k = f.kids[i] DEF Own
<1>5. ns[k].to < c
  BY ONLY <1>3, <1>4, b \in Int, c \in Int, b <= c
<1>6. \A j \in DOMAIN g.kids : i < j /\ g.kids[j] # 0 => ns[k].to < ns[g.kids[j]].from
  BY ONLY <1>4, Part(g.kids, f.kids) DEF Part
<1> QED BY ONLY <1>1, <1>4, <1>5, <1>6, g.from = f.from

LEMMA OlderPart ==
    ASSUME NEW f, NEW g, Part(g.kids, f.kids), NEW h
    PROVE  (Older(h, f) => Older(h, g)) /\ (Older(f, h) => Older(g, h))
  BY DEF Older, Part

LEMMA PartNone ==
    ASSUME NEW f, f.kids = <<>>, NEW b, NEW ns, NEW h
    PROVE  Own(f, b, ns) /\ Older(f, h) /\ Older(h, f)
  BY DEF Own, Older

(* The stacks that a step leaves.                                          *)
LEMMA Replaced ==
    ASSUME NEW st, IsSeq(st), st # <<>>, NEW g, NEW tt, tt = Onto(g, Tail(st))
    PROVE  /\ DOMAIN tt = DOMAIN st /\ DOMAIN st = 1 .. Len(st) /\ Len(st) \in Nat /\ Len(st) >= 1
           /\ tt[1] = g /\ st[1] = Head(st) /\ IsSeq(tt)
           /\ \A i \in DOMAIN st : i # 1 => tt[i] = st[i]
<1> PICK t : t = Tail(st)
  OBVIOUS
<1> PICK f : f = Head(st)
  OBVIOUS
<1>1. IsSeq(t) /\ st = Onto(f, t)
  BY ONLY IsSeq(st), st # <<>>, t = Tail(st), f = Head(st), Uncons
<1>2. tt = Onto(g, t)
  BY ONLY tt = Onto(g, Tail(st)), t = Tail(st)
<1>3. /\ tt[1] = g /\ Len(tt) = Len(t) + 1 /\ DOMAIN tt = 1 .. (Len(t) + 1) /\ Len(t) \in Nat
      /\ IsSeq(tt) /\ \A i \in 1 .. Len(t) : tt[i + 1] = t[i]
  BY ONLY <1>1, <1>2, ConsIs
<1>4. /\ st[1] = f /\ Len(st) = Len(t) + 1 /\ DOMAIN st = 1 .. (Len(t) + 1)
      /\ \A i \in 1 .. Len(t) : st[i + 1] = t[i]
  BY ONLY <1>1, ConsIs
<1>5. ASSUME NEW i \in DOMAIN st, i # 1 PROVE tt[i] = st[i]
  <2> PICK j : j = i - 1
    OBVIOUS
  <2>1. j \in 1 .. Len(t) /\ i = j + 1
    BY ONLY <1>3, <1>4, i \in DOMAIN st, i # 1, j = i - 1
  <2> QED BY ONLY <2>1, <1>3, <1>4
<1>6. Len(st) \in Nat /\ Len(st) >= 1
  BY ONLY <1>3, <1>4
<1> QED BY ONLY <1>3, <1>4, <1>5, <1>6, f = Head(st)

LEMMA Pushed ==
    ASSUME NEW st, IsSeq(st), st # <<>>, NEW c, NEW d, NEW tt, tt = Onto(c, Onto(d, Tail(st)))
    PROVE  /\ DOMAIN tt = 1 .. (Len(st) + 1) /\ tt[1] = c /\ tt[2] = d /\ IsSeq(tt)
           /\ \A i \in 1 .. Len(st) : i # 1 => tt[i + 1] = st[i]
<1> PICK t : t = Tail(st)
  OBVIOUS
<1> PICK u : u = Onto(d, t)
  OBVIOUS
<1>1. IsSeq(t)
  BY ONLY IsSeq(st), st # <<>>, t = Tail(st), Uncons
<1>2. u = Onto(d, Tail(st))
  BY ONLY t = Tail(st), u = Onto(d, t)
<1>3. /\ DOMAIN u = 1 .. Len(st) /\ u[1] = d /\ IsSeq(u)
      /\ \A i \in 1 .. Len(st) : i # 1 => u[i] = st[i]
      /\ Len(st) \in Nat /\ Len(st) >= 1
  <2>1. /\ DOMAIN u = DOMAIN st /\ DOMAIN st = 1 .. Len(st) /\ u[1] = d /\ IsSeq(u)
        /\ Len(st) \in Nat /\ Len(st) >= 1
        /\ \A i \in DOMAIN st : i # 1 => u[i] = st[i]
    BY ONLY <1>2, IsSeq(st), st # <<>>, Replaced
  <2> QED BY ONLY <2>1
<1>4. tt = Onto(c, u)
  BY ONLY tt = Onto(c, Onto(d, Tail(st))), t = Tail(st), u = Onto(d, t)
<1>5. /\ tt[1] = c /\ DOMAIN tt = 1 .. (Len(u) + 1) /\ Len(u) \in Nat /\ IsSeq(tt)
      /\ \A i \in 1 .. Len(u) : tt[i + 1] = u[i]
  BY ONLY <1>3, <1>4, ConsIs
<1>6. Len(u) = Len(st)
  <2> PICK n : n = Len(u)
    OBVIOUS
  <2>1. DOMAIN u = 1 .. n /\ n \in Nat
    <3>1. u \in Seq(Elements(u))
      BY ONLY <1>3 DEF IsSeq
    <3> QED BY ONLY <3>1, n = Len(u)
  <2>2. n = Len(st)
    BY ONLY <2>1, <1>3
  <2> QED BY ONLY <2>2, n = Len(u)
<1>7. tt[2] = d
  <2>1. 1 \in 1 .. Len(u) /\ 1 + 1 = 2
    BY ONLY <1>3, <1>6
  <2>2. tt[1 + 1] = u[1]
    BY ONLY <2>1, <1>5
  <2> QED BY ONLY <2>1, <2>2, <1>3
<1> QED BY ONLY <1>3, <1>5, <1>6, <1>7

LEMMA Popped ==
    ASSUME NEW st, IsSeq(st), st # <<>>, Len(st) # 1, NEW g, NEW tt, tt = Onto(g, Tail(Tail(st)))
    PROVE  /\ DOMAIN tt = 1 .. (Len(st) - 1) /\ Len(st) \in Nat /\ Len(st) >= 2 /\ tt[1] = g
           /\ IsSeq(tt) /\ DOMAIN st = 1 .. Len(st) /\ st[1] = Head(st)
           /\ \A i \in DOMAIN tt : i # 1 => tt[i] = st[i + 1]
<1> PICK t : t = Tail(st)
  OBVIOUS
<1> PICK f : f = Head(st)
  OBVIOUS
<1>1. IsSeq(t) /\ st = Onto(f, t) /\ t # <<>>
  BY ONLY IsSeq(st), st # <<>>, Len(st) # 1, t = Tail(st), f = Head(st), Uncons, SecondOf
<1>2. /\ st[1] = f /\ Len(st) = Len(t) + 1 /\ DOMAIN st = 1 .. (Len(t) + 1)
      /\ Len(t) \in Nat /\ \A i \in 1 .. Len(t) : st[i + 1] = t[i]
  BY ONLY <1>1, ConsIs
<1>3. /\ DOMAIN tt = DOMAIN t /\ DOMAIN t = 1 .. Len(t) /\ Len(t) >= 1 /\ tt[1] = g /\ IsSeq(tt)
      /\ \A i \in DOMAIN t : i # 1 => tt[i] = t[i]
  <2>1. tt = Onto(g, Tail(t))
    BY ONLY tt = Onto(g, Tail(Tail(st))), t = Tail(st)
  <2> QED BY ONLY <1>1, <2>1, Replaced
<1>4. Len(st) \in Nat /\ Len(st) >= 2 /\ Len(t) = Len(st) - 1
  BY ONLY <1>2, <1>3
<1> QED BY ONLY <1>2, <1>3, <1>4, f = Head(st)

(* The innermost call goes on with what is left of its kids.               *)
LEMMA LaidGoes ==
    ASSUME NEW ns, Placed(ns), NEW st, Calls(st, ns), st # <<>>, NEW a \in Int, Laid(st, ns, a),
           NEW g, g.from = st[1].from, Part(g.kids, st[1].kids), NEW c \in Int, a <= c,
           NEW tt, tt = Onto(g, Tail(st))
    PROVE  Laid(tt, ns, c)
<1> PICK f : f = st[1]
  OBVIOUS
<1>1. /\ DOMAIN tt = DOMAIN st /\ DOMAIN st = 1 .. Len(st) /\ Len(st) \in Nat /\ Len(st) >= 1
      /\ tt[1] = g /\ \A i \in DOMAIN st : i # 1 => tt[i] = st[i]
  BY ONLY Calls(st, ns), st # <<>>, tt = Onto(g, Tail(st)), Replaced DEF Calls
<1>2. 1 \in DOMAIN st
  BY ONLY <1>1
<1>3. Own(f, a, ns) /\ IsCall(f, ns)
  BY ONLY <1>2, Laid(st, ns, a), Calls(st, ns), f = st[1] DEF Laid, Calls, Bound
<1>4. Own(g, c, ns)
  BY ONLY <1>3, Placed(ns), a \in Int, c \in Int, a <= c, g.from = st[1].from,
          Part(g.kids, st[1].kids), f = st[1], OwnPart
<1>5. ASSUME NEW i \in DOMAIN tt PROVE Own(tt[i], Bound(tt, i, c), ns)
  <2>1. CASE i = 1
    BY ONLY <2>1, <1>1, <1>4 DEF Bound
  <2>2. CASE i # 1
    <3>1. tt[i] = st[i] /\ i \in DOMAIN st /\ i - 1 \in DOMAIN st
      BY ONLY <2>2, <1>1, i \in DOMAIN tt
    <3>2. tt[i - 1].from = st[i - 1].from
      BY ONLY <3>1, <1>1, g.from = st[1].from
    <3>3. Own(st[i], Bound(st, i, a), ns)
      BY ONLY <3>1, Laid(st, ns, a) DEF Laid
    <3> QED BY ONLY <2>2, <3>1, <3>2, <3>3 DEF Bound
  <2> QED BY ONLY <2>1, <2>2
<1>6. ASSUME NEW i \in DOMAIN tt, NEW j \in DOMAIN tt, i < j PROVE Older(tt[j], tt[i])
  <2>1. i \in DOMAIN st /\ j \in DOMAIN st /\ j # 1 /\ tt[j] = st[j]
    BY ONLY <1>1, i \in DOMAIN tt, j \in DOMAIN tt, i < j
  <2>2. Older(st[j], st[i])
    BY ONLY <2>1, i < j, Laid(st, ns, a) DEF Laid
  <2>3. CASE i = 1
    BY ONLY <2>1, <2>2, <2>3, <1>1, Part(g.kids, st[1].kids), OlderPart
  <2>4. CASE i # 1
    BY ONLY <2>1, <2>2, <2>4, <1>1
  <2> QED BY ONLY <2>3, <2>4
<1> QED BY ONLY <1>5, <1>6 DEF Laid

(* It goes on as d, under a call c that begins behind what it has, or that *)
(* takes what it has.                                                      *)
LEMMA LaidCalls ==
    ASSUME NEW ns, Placed(ns), NEW st, Calls(st, ns), st # <<>>, NEW a \in Int, Laid(st, ns, a),
           NEW e \in Int, a <= e, NEW d, d.from = st[1].from, NEW c,
           \/ c.from = a /\ c.kids = <<>> /\ Part(d.kids, st[1].kids)
           \/ c.from = st[1].from /\ d.kids = <<>> /\ Part(c.kids, st[1].kids),
           NEW tt, tt = Onto(c, Onto(d, Tail(st)))
    PROVE  Laid(tt, ns, e)
<1> PICK f : f = st[1]
  OBVIOUS
<1>1. /\ DOMAIN tt = 1 .. (Len(st) + 1) /\ tt[1] = c /\ tt[2] = d
      /\ \A i \in 1 .. Len(st) : i # 1 => tt[i + 1] = st[i]
  BY ONLY Calls(st, ns), st # <<>>, tt = Onto(c, Onto(d, Tail(st))), Pushed DEF Calls
<1>2. DOMAIN st = 1 .. Len(st) /\ Len(st) \in Nat /\ Len(st) >= 1 /\ 1 \in DOMAIN st
  <2>1. IsSeq(st)
    BY ONLY Calls(st, ns) DEF Calls
  <2> PICK u : u = Onto(c, Tail(st))
    OBVIOUS
  <2>2. DOMAIN st = 1 .. Len(st) /\ Len(st) \in Nat /\ Len(st) >= 1
    BY ONLY <2>1, st # <<>>, u = Onto(c, Tail(st)), Replaced
  <2> QED BY ONLY <2>2
<1>3. Own(f, a, ns) /\ IsCall(f, ns)
  BY ONLY <1>2, Laid(st, ns, a), Calls(st, ns), f = st[1] DEF Laid, Calls, Bound
<1>4. Own(c, e, ns) /\ Own(d, c.from, ns) /\ Older(d, c)
      /\ \A h : Older(h, f) => Older(h, c) /\ Older(h, d)
  <2>1. CASE c.from = a /\ c.kids = <<>> /\ Part(d.kids, f.kids)
    <3>1. Own(d, a, ns)
      <4>1. a <= a
        BY ONLY a \in Int
      <4> QED BY ONLY <4>1, <1>3, <2>1, Placed(ns), a \in Int, d.from = st[1].from, f = st[1],
                      OwnPart
    <3>2. \A h : Older(h, f) => Older(h, d)
      BY ONLY <2>1, OlderPart
    <3>3. Own(c, e, ns) /\ Older(d, c) /\ \A h : Older(h, c)
      BY ONLY <2>1, PartNone
    <3> QED BY ONLY <2>1, <3>1, <3>2, <3>3
  <2>2. CASE c.from = f.from /\ d.kids = <<>> /\ Part(c.kids, f.kids)
    <3>1. Own(c, e, ns)
      BY ONLY <1>3, <2>2, Placed(ns), a \in Int, e \in Int, a <= e, OwnPart
    <3>2. \A h : Older(h, f) => Older(h, c)
      BY ONLY <2>2, OlderPart
    <3>3. Own(d, c.from, ns) /\ Older(d, c) /\ \A h : Older(h, d)
      BY ONLY <2>2, PartNone
    <3> QED BY ONLY <3>1, <3>2, <3>3
  <2> QED BY ONLY <2>1, <2>2, f = st[1],
           \/ c.from = a /\ c.kids = <<>> /\ Part(d.kids, st[1].kids)
           \/ c.from = st[1].from /\ d.kids = <<>> /\ Part(c.kids, st[1].kids)
<1>5. ASSUME NEW i \in DOMAIN tt, i # 1, i # 2
      PROVE  /\ i - 1 \in DOMAIN st /\ tt[i] = st[i - 1] /\ i - 1 # 1
             /\ i - 2 \in DOMAIN st /\ tt[i - 1].from = st[i - 2].from
  <2>1. i - 1 \in 1 .. Len(st) /\ i - 1 # 1 /\ i - 1 + 1 = i /\ i - 2 \in 1 .. Len(st)
    BY ONLY <1>1, <1>2, i \in DOMAIN tt, i # 1, i # 2
  <2>2. tt[i] = st[i - 1]
    BY ONLY <2>1, <1>1
  <2>3. tt[i - 1].from = st[i - 2].from
    <3>1. CASE i = 3
      <4>1. i - 1 = 2 /\ i - 2 = 1
        BY ONLY <3>1
      <4> QED BY ONLY <4>1, <1>1, d.from = st[1].from
    <3>2. CASE i # 3
      <4>1. i - 2 # 1 /\ i - 2 + 1 = i - 1
        BY ONLY <2>1, <3>2
      <4> QED BY ONLY <2>1, <4>1, <1>1
    <3> QED BY ONLY <3>1, <3>2
  <2> QED BY ONLY <2>1, <2>2, <2>3, <1>2
<1>6. ASSUME NEW i \in DOMAIN tt PROVE Own(tt[i], Bound(tt, i, e), ns)
  <2>1. CASE i = 1
    BY ONLY <2>1, <1>1, <1>4 DEF Bound
  <2>2. CASE i = 2
    <3>1. i # 1 /\ i - 1 = 1
      BY ONLY <2>2
    <3> QED BY ONLY <2>2, <3>1, <1>1, <1>4 DEF Bound
  <2>3. CASE i # 1 /\ i # 2
    <3>1. /\ i - 1 \in DOMAIN st /\ tt[i] = st[i - 1] /\ i - 1 # 1
          /\ tt[i - 1].from = st[i - 2].from
      BY ONLY <2>3, <1>5
    <3>2. Own(st[i - 1], Bound(st, i - 1, a), ns)
      BY ONLY <3>1, Laid(st, ns, a) DEF Laid
    <3>3. i - 1 - 1 = i - 2
      BY ONLY <1>1, <1>2, i \in DOMAIN tt
    <3> QED BY ONLY <2>3, <3>1, <3>2, <3>3 DEF Bound
  <2> QED BY ONLY <2>1, <2>2, <2>3
<1>7. ASSUME NEW i \in DOMAIN tt, NEW j \in DOMAIN tt, i < j PROVE Older(tt[j], tt[i])
  <2>0. j # 1 /\ (j = 2 => i = 1)
    BY ONLY <1>1, <1>2, i \in DOMAIN tt, j \in DOMAIN tt, i < j
  <2>1. CASE j = 2
    BY ONLY <2>0, <2>1, <1>1, <1>4
  <2>2. CASE j # 2
    <3>1. j - 1 \in DOMAIN st /\ tt[j] = st[j - 1] /\ j - 1 # 1
      BY ONLY <2>0, <2>2, <1>5
    <3>2. CASE i \in {1, 2}
      <4>1. 1 < j - 1
        BY ONLY <3>1, <1>2
      <4>2. Older(tt[j], f)
        BY ONLY <3>1, <4>1, <1>2, Laid(st, ns, a), f = st[1] DEF Laid
      <4> QED BY ONLY <3>2, <4>2, <1>1, <1>4
    <3>3. CASE i \notin {1, 2}
      <4>1. i - 1 \in DOMAIN st /\ tt[i] = st[i - 1]
        BY ONLY <3>3, <1>5
      <4>2. i - 1 < j - 1
        BY ONLY <1>1, <1>2, i \in DOMAIN tt, j \in DOMAIN tt, i < j
      <4>3. Older(st[j - 1], st[i - 1])
        BY ONLY <3>1, <4>1, <4>2, Laid(st, ns, a) DEF Laid
      <4> QED BY ONLY <3>1, <4>1, <4>3
    <3> QED BY ONLY <3>2, <3>3
  <2> QED BY ONLY <2>1, <2>2
<1> QED BY ONLY <1>6, <1>7 DEF Laid

LEMMA Wider ==
    ASSUME NEW S, NEW T, S \subseteq T, NEW s \in Seq(S)
    PROVE  s \in Seq(T)
  OBVIOUS

(* A caller that has its kids before what is returned owns both.           *)
LEMMA OwnReturned ==
    ASSUME NEW ms, Placed(ms), NEW h, IsCall(h, ms), NEW b \in Int, Own(h, b, ms),
           NEW c \in Int, h.from <= b, b <= c,
           NEW n \in DOMAIN ms, n # 0, b <= ms[n].from, ms[n].to < c,
           \A m \in DOMAIN ms : \A j \in DOMAIN ms[m].kids : ms[m].kids[j] # n,
           NEW g, g.from = h.from, g.kids = Append(h.kids, n)
    PROVE  Own(g, c, ms)
<1> PICK l : l = Len(h.kids)
  OBVIOUS
<1> PICK S : S = 0 .. Len(ms)
  OBVIOUS
<1>1. h.kids \in Seq(S) /\ n \in S /\ h.from \in Int /\ n \in DOMAIN ms
  BY ONLY Placed(ms), IsCall(h, ms), n \in DOMAIN ms, S = 0 .. Len(ms) DEF Placed, IsCall
<1>2. /\ DOMAIN g.kids = 1 .. (l + 1) /\ l \in Nat /\ DOMAIN h.kids = 1 .. l /\ g.kids[l + 1] = n
      /\ \A i \in 1 .. l : g.kids[i] = h.kids[i]
  BY ONLY <1>1, g.kids = Append(h.kids, n), l = Len(h.kids), AppendProperties
<1>3. \A k \in DOMAIN ms : ms[k].from \in Int /\ ms[k].to \in Int
  BY ONLY Placed(ms) DEF Placed
<1>4. ASSUME NEW i \in 1 .. l, h.kids[i] # 0
      PROVE  /\ h.from <= ms[h.kids[i]].from /\ ms[h.kids[i]].to < c
             /\ \A j \in 1 .. (l + 1) :
                i < j /\ g.kids[j] # 0 => ms[h.kids[i]].to < ms[g.kids[j]].from
             /\ \A m \in DOMAIN ms : \A j \in DOMAIN ms[m].kids : ms[m].kids[j] # h.kids[i]
  <2> PICK k : k = h.kids[i]
    OBVIOUS
  <2>1. i \in DOMAIN h.kids
    BY ONLY <1>2, i \in 1 .. l
  <2>2. k \in DOMAIN ms
    BY ONLY <2>1, Placed(ms), IsCall(h, ms), h.kids[i] # 0, k = h.kids[i], KidIs
  <2>3. /\ h.from <= ms[k].from /\ ms[k].to < b
        /\ \A j \in DOMAIN h.kids : i < j /\ h.kids[j] # 0 => ms[k].to < ms[h.kids[j]].from
        /\ \A m \in DOMAIN ms : \A j \in DOMAIN ms[m].kids : ms[m].kids[j] # k
    BY ONLY <2>1, Own(h, b, ms), h.kids[i] # 0, k = h.kids[i] DEF Own
  <2>4. ms[k].to < c /\ ms[k].to < ms[n].from
    BY ONLY <1>1, <1>3, <2>2, <2>3, b \in Int, c \in Int, b <= c, b <= ms[n].from
  <2>5. ASSUME NEW j \in 1 .. (l + 1), i < j, g.kids[j] # 0 PROVE ms[k].to < ms[g.kids[j]].from
    <3>1. CASE j = l + 1
      BY ONLY <3>1, <2>4, <1>2
    <3>2. CASE j # l + 1
      <4>1. j \in 1 .. l
        BY ONLY <3>2, <1>2, j \in 1 .. (l + 1)
      <4> QED BY ONLY <4>1, <1>2, <2>3, i < j, g.kids[j] # 0
    <3> QED BY ONLY <3>1, <3>2
  <2> QED BY ONLY <2>3, <2>4, <2>5, k = h.kids[i]
<1>5. ASSUME NEW i \in DOMAIN g.kids, g.kids[i] # 0
      PROVE  /\ g.from <= ms[g.kids[i]].from /\ ms[g.kids[i]].to < c
             /\ \A j \in DOMAIN g.kids :
                i < j /\ g.kids[j] # 0 => ms[g.kids[i]].to < ms[g.kids[j]].from
             /\ \A m \in DOMAIN ms : \A j \in DOMAIN ms[m].kids : ms[m].kids[j] # g.kids[i]
  <2>1. CASE i = l + 1
    <3>1. g.kids[i] = n /\ \A j \in DOMAIN g.kids : ~(i < j)
      BY ONLY <2>1, <1>2
    <3>2. h.from <= ms[n].from
      BY ONLY <1>1, <1>3, b \in Int, h.from <= b, b <= ms[n].from
    <3> QED BY ONLY <3>1, <3>2, ms[n].to < c, g.from = h.from,
                    \A m \in DOMAIN ms : \A j \in DOMAIN ms[m].kids : ms[m].kids[j] # n
  <2>2. CASE i # l + 1
    <3>1. i \in 1 .. l /\ g.kids[i] = h.kids[i]
      BY ONLY <2>2, <1>2, i \in DOMAIN g.kids
    <3> QED BY ONLY <3>1, <1>2, <1>4, g.kids[i] # 0, g.from = h.from
  <2> QED BY ONLY <2>1, <2>2
<1> QED BY <1>5 DEF Own

LEMMA OlderReturned ==
    ASSUME NEW S, NEW h, h.kids \in Seq(S), NEW n \in S, NEW g, g.kids = Append(h.kids, n),
           NEW f, Older(f, h), \A i \in DOMAIN f.kids : f.kids[i] # 0 => f.kids[i] < n
    PROVE  Older(f, g)
<1> PICK l : l = Len(h.kids)
  OBVIOUS
<1>1. /\ DOMAIN g.kids = 1 .. (l + 1) /\ l \in Nat /\ DOMAIN h.kids = 1 .. l /\ g.kids[l + 1] = n
      /\ \A i \in 1 .. l : g.kids[i] = h.kids[i]
  BY ONLY h.kids \in Seq(S), n \in S, g.kids = Append(h.kids, n), l = Len(h.kids),
          AppendProperties
<1>2. ASSUME NEW i \in DOMAIN f.kids, NEW j \in DOMAIN g.kids, f.kids[i] # 0, g.kids[j] # 0
      PROVE  f.kids[i] < g.kids[j]
  <2>1. CASE j = l + 1
    BY ONLY <2>1, <1>1, i \in DOMAIN f.kids, f.kids[i] # 0,
            \A x \in DOMAIN f.kids : f.kids[x] # 0 => f.kids[x] < n
  <2>2. CASE j # l + 1
    <3>1. j \in DOMAIN h.kids /\ g.kids[j] = h.kids[j]
      BY ONLY <2>2, <1>1, j \in DOMAIN g.kids
    <3> QED BY ONLY <3>1, Older(f, h), i \in DOMAIN f.kids, f.kids[i] # 0, g.kids[j] # 0 DEF Older
  <2> QED BY ONLY <2>1, <2>2
<1> QED BY <1>2 DEF Older

(* It returns node n, or NULL, while the nodes become ms.                  *)
LEMMA LaidReturns ==
    ASSUME NEW ns, NEW ms, Placed(ns), Placed(ms), Len(ns) <= Len(ms),
           NEW st, Calls(st, ns), st # <<>>, Len(st) # 1, NEW a \in Int, Laid(st, ns, a),
           \A i \in DOMAIN st : i # 1 => Own(st[i], Bound(st, i, a), ms),
           NEW c \in Int, st[2].from <= st[1].from, st[1].from <= c,
           NEW n, n # 0 =>
            /\ n \in DOMAIN ms /\ st[1].from <= ms[n].from /\ ms[n].to < c
            /\ \A m \in DOMAIN ms : \A j \in DOMAIN ms[m].kids : ms[m].kids[j] # n
            /\ \A i \in DOMAIN st : i # 1 =>
                \A j \in DOMAIN st[i].kids : st[i].kids[j] # 0 => st[i].kids[j] < n,
           NEW g, g.from = st[2].from,
           g.kids = IF n = 0 THEN st[2].kids ELSE Append(st[2].kids, n),
           NEW tt, tt = Onto(g, Tail(Tail(st)))
    PROVE  Laid(tt, ms, c)
<1> PICK h : h = st[2]
  OBVIOUS
<1> PICK b : b = st[1].from
  OBVIOUS
<1>1. /\ DOMAIN tt = 1 .. (Len(st) - 1) /\ Len(st) \in Nat /\ Len(st) >= 2 /\ tt[1] = g
      /\ DOMAIN st = 1 .. Len(st) /\ \A i \in DOMAIN tt : i # 1 => tt[i] = st[i + 1]
  BY ONLY Calls(st, ns), st # <<>>, Len(st) # 1, tt = Onto(g, Tail(Tail(st))), Popped DEF Calls
<1>2. 2 \in DOMAIN st /\ 1 \in DOMAIN st /\ 2 # 1 /\ 2 - 1 = 1
  BY ONLY <1>1
<1>3. b \in Int /\ IsCall(h, ns) /\ Own(h, b, ms)
  BY ONLY <1>2, Calls(st, ns), \A i \in DOMAIN st : i # 1 => Own(st[i], Bound(st, i, a), ms),
          h = st[2], b = st[1].from DEF Calls, IsCall, Bound
<1>4. IsCall(h, ms)
  <2> PICK S : S = 0 .. Len(ns)
    OBVIOUS
  <2> PICK T : T = 0 .. Len(ms)
    OBVIOUS
  <2>1. S \subseteq T
    BY ONLY Placed(ns), Placed(ms), Len(ns) <= Len(ms), S = 0 .. Len(ns), T = 0 .. Len(ms)
       DEF Placed
  <2>2. h.from \in Int /\ h.kids \in Seq(S)
    BY ONLY <1>3, S = 0 .. Len(ns) DEF IsCall
  <2>3. h.kids \in Seq(T)
    BY ONLY <2>1, <2>2, Wider
  <2> QED BY ONLY <2>2, <2>3, T = 0 .. Len(ms) DEF IsCall
<1>5. h.from <= b /\ b <= c
  BY ONLY st[2].from <= st[1].from, st[1].from <= c, h = st[2], b = st[1].from
<1>6. Own(g, c, ms) /\ \A i \in DOMAIN st : i > 2 => Older(st[i], g)
  <2>0. ASSUME NEW i \in DOMAIN st, i > 2 PROVE Older(st[i], h) /\ i # 1
    <3>1. 2 < i /\ i # 1
      BY ONLY <1>1, i \in DOMAIN st, i > 2
    <3> QED BY ONLY <3>1, <1>2, i \in DOMAIN st, Laid(st, ns, a), h = st[2] DEF Laid
  <2>1. CASE n = 0
    <3>1. g.from = h.from /\ g.kids = h.kids
      BY ONLY <2>1, h = st[2], g.from = st[2].from,
              g.kids = IF n = 0 THEN st[2].kids ELSE Append(st[2].kids, n)
    <3>2. Part(g.kids, h.kids)
      BY ONLY <3>1 DEF Part
    <3>3. Own(g, c, ms)
      BY ONLY <1>3, <1>4, <1>5, <3>1, <3>2, Placed(ms), c \in Int, OwnPart
    <3>4. \A i \in DOMAIN st : i > 2 => Older(st[i], g)
      BY ONLY <2>0, <3>2, OlderPart
    <3> QED BY ONLY <3>3, <3>4
  <2>2. CASE n # 0
    <3>1. g.from = h.from /\ g.kids = Append(h.kids, n)
      BY ONLY <2>2, h = st[2], g.from = st[2].from,
              g.kids = IF n = 0 THEN st[2].kids ELSE Append(st[2].kids, n)
    <3>2. /\ n \in DOMAIN ms /\ b <= ms[n].from /\ ms[n].to < c
          /\ \A m \in DOMAIN ms : \A j \in DOMAIN ms[m].kids : ms[m].kids[j] # n
          /\ \A i \in DOMAIN st : i # 1 =>
                \A j \in DOMAIN st[i].kids : st[i].kids[j] # 0 => st[i].kids[j] < n
      BY ONLY <2>2, b = st[1].from, n # 0 =>
            /\ n \in DOMAIN ms /\ st[1].from <= ms[n].from /\ ms[n].to < c
            /\ \A m \in DOMAIN ms : \A j \in DOMAIN ms[m].kids : ms[m].kids[j] # n
            /\ \A i \in DOMAIN st : i # 1 =>
                \A j \in DOMAIN st[i].kids : st[i].kids[j] # 0 => st[i].kids[j] < n
    <3>3. Own(g, c, ms)
      BY ONLY <1>3, <1>4, <1>5, <2>2, <3>1, <3>2, Placed(ms), c \in Int, OwnReturned
    <3>4. ASSUME NEW i \in DOMAIN st, i > 2 PROVE Older(st[i], g)
      <4> PICK S : S = 0 .. Len(ms)
        OBVIOUS
      <4>1. h.kids \in Seq(S) /\ n \in S
        BY ONLY <1>4, <3>2, Placed(ms), S = 0 .. Len(ms) DEF IsCall, Placed
      <4>2. Older(st[i], h) /\ \A j \in DOMAIN st[i].kids : st[i].kids[j] # 0 => st[i].kids[j] < n
        BY ONLY <2>0, <3>2, i \in DOMAIN st, i > 2
      <4> QED BY ONLY <4>1, <4>2, <3>1, OlderReturned
    <3> QED BY ONLY <3>3, <3>4
  <2> QED BY ONLY <2>1, <2>2
<1>7. ASSUME NEW i \in DOMAIN tt, i # 1
      PROVE  i + 1 \in DOMAIN st /\ i + 1 > 2 /\ tt[i] = st[i + 1] /\ tt[i - 1].from = st[i].from
  <2>1. i + 1 \in DOMAIN st /\ i + 1 > 2 /\ tt[i] = st[i + 1]
    BY ONLY <1>1, i \in DOMAIN tt, i # 1
  <2>2. CASE i = 2
    <3>1. i - 1 = 1
      BY ONLY <2>2
    <3> QED BY ONLY <2>1, <2>2, <3>1, <1>1, g.from = st[2].from
  <2>3. CASE i # 2
    <3>1. i - 1 \in DOMAIN tt /\ i - 1 # 1 /\ i - 1 + 1 = i
      BY ONLY <2>3, <1>1, i \in DOMAIN tt, i # 1
    <3> QED BY ONLY <2>1, <3>1, <1>1
  <2> QED BY ONLY <2>2, <2>3
<1>8. ASSUME NEW i \in DOMAIN tt PROVE Own(tt[i], Bound(tt, i, c), ms)
  <2>1. CASE i = 1
    BY ONLY <2>1, <1>1, <1>6 DEF Bound
  <2>2. CASE i # 1
    <3>1. i + 1 \in DOMAIN st /\ i + 1 # 1 /\ i + 1 - 1 = i /\ tt[i] = st[i + 1]
          /\ tt[i - 1].from = st[i].from
      BY ONLY <2>2, <1>1, <1>7, i \in DOMAIN tt
    <3>2. Own(st[i + 1], Bound(st, i + 1, a), ms)
      BY ONLY <3>1, \A x \in DOMAIN st : x # 1 => Own(st[x], Bound(st, x, a), ms)
    <3>3. Bound(tt, i, c) = tt[i - 1].from /\ Bound(st, i + 1, a) = st[i].from
      <4> PICK x : x = i + 1
        OBVIOUS
      <4>1. x # 1 /\ x - 1 = i
        BY ONLY <1>1, <3>1, i \in DOMAIN tt, x = i + 1
      <4>2. Bound(st, x, a) = st[i].from
        BY ONLY <4>1 DEF Bound
      <4>3. Bound(tt, i, c) = tt[i - 1].from
        BY ONLY <2>2 DEF Bound
      <4> QED BY ONLY <4>2, <4>3, x = i + 1
    <3>4. Bound(tt, i, c) = Bound(st, i + 1, a)
      BY ONLY <3>1, <3>3
    <3> QED BY ONLY <3>1, <3>2, <3>4
  <2> QED BY ONLY <2>1, <2>2
<1>9. ASSUME NEW i \in DOMAIN tt, NEW j \in DOMAIN tt, i < j PROVE Older(tt[j], tt[i])
  <2>1. j # 1
    BY ONLY <1>1, i \in DOMAIN tt, j \in DOMAIN tt, i < j
  <2>2. j + 1 \in DOMAIN st /\ j + 1 > 2 /\ tt[j] = st[j + 1]
    BY ONLY <2>1, <1>7
  <2>3. CASE i = 1
    BY ONLY <2>2, <2>3, <1>1, <1>6
  <2>4. CASE i # 1
    <3>1. i + 1 \in DOMAIN st /\ tt[i] = st[i + 1] /\ i + 1 < j + 1
      BY ONLY <2>4, <1>1, <1>7, i \in DOMAIN tt, j \in DOMAIN tt, i < j
    <3> QED BY ONLY <2>2, <3>1, Laid(st, ns, a) DEF Laid
  <2> QED BY ONLY <2>3, <2>4
<1> QED BY ONLY <1>8, <1>9 DEF Laid

-----------------------------------------------------------------------------
(* The nodes.                                                              *)

Nest(ns) ==
    \A n \in DOMAIN ns : \A i \in DOMAIN ns[n].kids : ns[n].kids[i] # 0 =>
        /\ ns[n].from <= ns[ns[n].kids[i]].from /\ ns[ns[n].kids[i]].to <= ns[n].to
        /\ \A j \in DOMAIN ns[n].kids :
            i < j /\ ns[n].kids[j] # 0 => ns[ns[n].kids[i]].to < ns[ns[n].kids[j]].from
        /\ \A m \in DOMAIN ns : m # n => \A j \in DOMAIN ns[m].kids : ns[m].kids[j] # ns[n].kids[i]

(* Node k, which is no kid yet, is widened.                                *)
Widens(ns, ms, k) ==
    /\ DOMAIN ms = DOMAIN ns /\ Len(ms) = Len(ns) /\ k \in DOMAIN ns
    /\ \A m \in DOMAIN ns : m # k => ms[m] = ns[m]
    /\ ms[k].kids = ns[k].kids /\ ms[k].from \in Int /\ ms[k].to \in Int
    /\ ms[k].from <= ns[k].from /\ ns[k].to <= ms[k].to
    /\ \A m \in DOMAIN ns : \A j \in DOMAIN ns[m].kids : ns[m].kids[j] # k

LEMMA KidOfNode ==
    ASSUME NEW ns, Placed(ns), NEW n \in DOMAIN ns, NEW i \in DOMAIN ns[n].kids,
           ns[n].kids[i] # 0
    PROVE  ns[n].kids[i] \in DOMAIN ns /\ ns[n].kids[i] # n
<1> PICK s : s = ns[n].kids
  OBVIOUS
<1>1. s \in Seq(0 .. (n - 1)) /\ DOMAIN ns = 1 .. Len(ns) /\ Len(ns) \in Nat
  BY ONLY Placed(ns), n \in DOMAIN ns, s = ns[n].kids DEF Placed
<1>2. s[i] \in 0 .. (n - 1)
  BY ONLY <1>1, i \in DOMAIN ns[n].kids, s = ns[n].kids
<1>3. s[i] \in DOMAIN ns /\ s[i] # n
  BY ONLY <1>1, <1>2, n \in DOMAIN ns, ns[n].kids[i] # 0, s = ns[n].kids
<1> QED BY ONLY <1>3, s = ns[n].kids

LEMMA WidenedNest ==
    ASSUME NEW ns, NEW ms, NEW k, Placed(ns), Nest(ns), Widens(ns, ms, k)
    PROVE  Nest(ms)
<1>1. /\ DOMAIN ms = DOMAIN ns /\ k \in DOMAIN ns
      /\ \A m \in DOMAIN ns : m # k => ms[m] = ns[m]
      /\ \A m \in DOMAIN ns : ms[m].kids = ns[m].kids
      /\ ms[k].from <= ns[k].from /\ ns[k].to <= ms[k].to
      /\ ms[k].from \in Int /\ ms[k].to \in Int
      /\ \A m \in DOMAIN ns : \A j \in DOMAIN ns[m].kids : ns[m].kids[j] # k
  BY ONLY Widens(ns, ms, k) DEF Widens
<1>2. \A m \in DOMAIN ns : ns[m].from \in Int /\ ns[m].to \in Int
  BY ONLY Placed(ns) DEF Placed
<1>3. ASSUME NEW n \in DOMAIN ms, NEW i \in DOMAIN ms[n].kids, ms[n].kids[i] # 0
      PROVE  /\ ms[n].from <= ms[ms[n].kids[i]].from /\ ms[ms[n].kids[i]].to <= ms[n].to
             /\ \A j \in DOMAIN ms[n].kids :
                i < j /\ ms[n].kids[j] # 0 => ms[ms[n].kids[i]].to < ms[ms[n].kids[j]].from
             /\ \A m \in DOMAIN ms : m # n =>
                \A j \in DOMAIN ms[m].kids : ms[m].kids[j] # ms[n].kids[i]
  <2> PICK s : s = ns[n].kids
    OBVIOUS
  <2> PICK x : x = s[i]
    OBVIOUS
  <2>1. n \in DOMAIN ns /\ ms[n].kids = s /\ i \in DOMAIN s /\ x # 0
    BY ONLY <1>1, n \in DOMAIN ms, i \in DOMAIN ms[n].kids, ms[n].kids[i] # 0, s = ns[n].kids,
            x = s[i]
  <2>2. \A j \in DOMAIN s : s[j] # 0 => s[j] \in DOMAIN ns /\ ms[s[j]] = ns[s[j]]
    BY ONLY <1>1, <2>1, s = ns[n].kids, Placed(ns), KidOfNode
  <2>3. /\ ns[n].from <= ns[x].from /\ ns[x].to <= ns[n].to
        /\ \A j \in DOMAIN s : i < j /\ s[j] # 0 => ns[x].to < ns[s[j]].from
        /\ \A m \in DOMAIN ns : m # n => \A j \in DOMAIN ns[m].kids : ns[m].kids[j] # x
    BY ONLY <2>1, Nest(ns), s = ns[n].kids, x = s[i] DEF Nest
  <2>4. x \in DOMAIN ns /\ ms[x] = ns[x]
    BY ONLY <2>1, <2>2, x = s[i]
  <2>5. ms[n].from <= ns[n].from /\ ns[n].to <= ms[n].to /\ ms[n].from \in Int /\ ms[n].to \in Int
    BY ONLY <1>1, <1>2, <2>1
  <2>6. ms[n].from <= ms[x].from /\ ms[x].to <= ms[n].to
    BY ONLY <1>2, <2>1, <2>3, <2>4, <2>5
  <2>7. \A j \in DOMAIN s : i < j /\ s[j] # 0 => ms[x].to < ms[s[j]].from
    BY ONLY <2>2, <2>3, <2>4
  <2>8. \A m \in DOMAIN ms : m # n => \A j \in DOMAIN ms[m].kids : ms[m].kids[j] # x
    BY ONLY <1>1, <2>3
  <2> QED BY ONLY <2>1, <2>6, <2>7, <2>8, x = s[i]
<1> QED BY <1>3 DEF Nest

LEMMA WidenedOwn ==
    ASSUME NEW ns, NEW ms, NEW k, Placed(ns), Widens(ns, ms, k),
           NEW f, IsCall(f, ns), NEW b, Own(f, b, ns), \A i \in DOMAIN f.kids : f.kids[i] # k
    PROVE  Own(f, b, ms)
<1>1. /\ DOMAIN ms = DOMAIN ns /\ \A m \in DOMAIN ns : m # k => ms[m] = ns[m]
      /\ \A m \in DOMAIN ns : ms[m].kids = ns[m].kids
  BY ONLY Widens(ns, ms, k) DEF Widens
<1>2. \A i \in DOMAIN f.kids : f.kids[i] # 0 => ms[f.kids[i]] = ns[f.kids[i]]
  BY ONLY <1>1, Placed(ns), IsCall(f, ns), \A i \in DOMAIN f.kids : f.kids[i] # k, KidIs
<1> QED BY ONLY <1>1, <1>2, Own(f, b, ns) DEF Own

(* A node u is built of the kids of call f.                                *)
Builds(ns, ms, f, a) ==
    /\ DOMAIN ms = 1 .. (Len(ns) + 1) /\ Len(ms) = Len(ns) + 1
    /\ \A m \in DOMAIN ns : ms[m] = ns[m]
    /\ ms[Len(ns) + 1].kids = f.kids /\ ms[Len(ns) + 1].from = f.from
    /\ ms[Len(ns) + 1].to = a - 1

LEMMA BuiltNest ==
    ASSUME NEW ns, NEW ms, NEW f, NEW a \in Int, Placed(ns), Nest(ns), IsCall(f, ns),
           Own(f, a, ns), Builds(ns, ms, f, a)
    PROVE  Nest(ms)
<1> PICK l : l = Len(ns)
  OBVIOUS
<1>1. /\ DOMAIN ns = 1 .. l /\ l \in Nat /\ \A m \in DOMAIN ns : ns[m].to \in Int
  BY ONLY Placed(ns), l = Len(ns) DEF Placed
<1>2. /\ DOMAIN ms = 1 .. (l + 1) /\ \A m \in DOMAIN ns : ms[m] = ns[m]
      /\ ms[l + 1].kids = f.kids /\ ms[l + 1].from = f.from /\ ms[l + 1].to = a - 1
  BY ONLY Builds(ns, ms, f, a), l = Len(ns) DEF Builds
<1>3. \A m \in DOMAIN ms : m = l + 1 \/ m \in DOMAIN ns
  BY ONLY <1>1, <1>2
<1>4. \A i \in DOMAIN f.kids : f.kids[i] # 0 => f.kids[i] \in DOMAIN ns
  BY ONLY Placed(ns), IsCall(f, ns), KidIs
<1>5. \A i \in DOMAIN f.kids : f.kids[i] # 0 =>
        /\ f.from <= ns[f.kids[i]].from /\ ns[f.kids[i]].to < a
        /\ \A j \in DOMAIN f.kids : i < j /\ f.kids[j] # 0 => ns[f.kids[i]].to < ns[f.kids[j]].from
        /\ \A m \in DOMAIN ns : \A j \in DOMAIN ns[m].kids : ns[m].kids[j] # f.kids[i]
  BY ONLY Own(f, a, ns) DEF Own
<1>6. ASSUME NEW n \in DOMAIN ms, NEW i \in DOMAIN ms[n].kids, ms[n].kids[i] # 0
      PROVE  /\ ms[n].from <= ms[ms[n].kids[i]].from /\ ms[ms[n].kids[i]].to <= ms[n].to
             /\ \A j \in DOMAIN ms[n].kids :
                i < j /\ ms[n].kids[j] # 0 => ms[ms[n].kids[i]].to < ms[ms[n].kids[j]].from
             /\ \A m \in DOMAIN ms : m # n =>
                \A j \in DOMAIN ms[m].kids : ms[m].kids[j] # ms[n].kids[i]
  <2> PICK s : s = ms[n].kids
    OBVIOUS
  <2> PICK x : x = s[i]
    OBVIOUS
  <2>1. CASE n = l + 1
    <3>1. s = f.kids /\ i \in DOMAIN f.kids /\ x # 0 /\ x = f.kids[i]
      BY ONLY <2>1, <1>2, i \in DOMAIN ms[n].kids, ms[n].kids[i] # 0, s = ms[n].kids, x = s[i]
    <3>2. x \in DOMAIN ns /\ ms[x] = ns[x] /\ ns[x].to \in Int
      BY ONLY <1>1, <1>2, <1>4, <3>1
    <3>3. /\ f.from <= ns[x].from /\ ns[x].to < a
          /\ \A j \in DOMAIN f.kids : i < j /\ f.kids[j] # 0 => ns[x].to < ns[f.kids[j]].from
          /\ \A m \in DOMAIN ns : \A j \in DOMAIN ns[m].kids : ns[m].kids[j] # x
      BY ONLY <3>1, <1>5
    <3>4. ms[n].from <= ms[x].from /\ ms[x].to <= ms[n].to
      <4>1. ns[x].to <= a - 1
        BY ONLY <3>2, <3>3, a \in Int
      <4> QED BY ONLY <4>1, <2>1, <1>2, <3>2, <3>3
    <3>5. \A j \in DOMAIN s : i < j /\ s[j] # 0 => ms[x].to < ms[s[j]].from
      BY ONLY <3>1, <3>2, <3>3, <1>2, <1>4
    <3>6. \A m \in DOMAIN ms : m # n => \A j \in DOMAIN ms[m].kids : ms[m].kids[j] # x
      BY ONLY <2>1, <1>2, <1>3, <3>3
    <3> QED BY ONLY <3>4, <3>5, <3>6, s = ms[n].kids, x = s[i]
  <2>2. CASE n # l + 1
    <3>1. n \in DOMAIN ns /\ ms[n] = ns[n] /\ s = ns[n].kids /\ i \in DOMAIN s /\ x # 0
      BY ONLY <2>2, <1>2, <1>3, n \in DOMAIN ms, i \in DOMAIN ms[n].kids, ms[n].kids[i] # 0,
              s = ms[n].kids, x = s[i]
    <3>2. \A j \in DOMAIN s : s[j] # 0 => s[j] \in DOMAIN ns /\ ms[s[j]] = ns[s[j]]
      BY ONLY <1>2, <3>1, Placed(ns), KidOfNode
    <3>3. /\ ns[n].from <= ns[x].from /\ ns[x].to <= ns[n].to
          /\ \A j \in DOMAIN s : i < j /\ s[j] # 0 => ns[x].to < ns[s[j]].from
          /\ \A m \in DOMAIN ns : m # n => \A j \in DOMAIN ns[m].kids : ns[m].kids[j] # x
      BY ONLY <3>1, Nest(ns), x = s[i] DEF Nest
    <3>4. x \in DOMAIN ns /\ ms[x] = ns[x]
      BY ONLY <3>1, <3>2, x = s[i]
    <3>5. \A j \in DOMAIN s : i < j /\ s[j] # 0 => ms[x].to < ms[s[j]].from
      BY ONLY <3>2, <3>3, <3>4
    <3>6. \A j \in DOMAIN f.kids : f.kids[j] # x
      BY ONLY <1>5, <3>1, x = s[i]
    <3>7. \A m \in DOMAIN ms : m # n => \A j \in DOMAIN ms[m].kids : ms[m].kids[j] # x
      BY ONLY <1>2, <1>3, <3>3, <3>6
    <3> QED BY ONLY <3>1, <3>3, <3>4, <3>5, <3>7, s = ms[n].kids, x = s[i]
  <2> QED BY ONLY <2>1, <2>2
<1> QED BY <1>6 DEF Nest

LEMMA BuiltOwn ==
    ASSUME NEW ns, NEW ms, NEW f, NEW a, Placed(ns), Builds(ns, ms, f, a), IsCall(f, ns),
           NEW h, IsCall(h, ns), NEW b, Own(h, b, ns), Older(h, f)
    PROVE  Own(h, b, ms)
<1> PICK l : l = Len(ns)
  OBVIOUS
<1>1. DOMAIN ns = 1 .. l /\ l \in Nat
  BY ONLY Placed(ns), l = Len(ns) DEF Placed
<1>2. /\ DOMAIN ms = 1 .. (l + 1) /\ ms[l + 1].kids = f.kids
      /\ \A m \in DOMAIN ns : ms[m] = ns[m]
  BY ONLY Builds(ns, ms, f, a), l = Len(ns) DEF Builds
<1>3. \A m \in DOMAIN ms : m = l + 1 \/ m \in DOMAIN ns
  BY ONLY <1>1, <1>2
<1>4. \A i \in DOMAIN h.kids : h.kids[i] # 0 => h.kids[i] \in Int /\ h.kids[i] \in DOMAIN ns
  <2>1. ASSUME NEW i \in DOMAIN h.kids PROVE h.kids[i] # 0 => h.kids[i] \in DOMAIN ns
    BY ONLY Placed(ns), IsCall(h, ns), i \in DOMAIN h.kids, KidIs
  <2> QED BY ONLY <2>1, <1>1
<1>5. ASSUME NEW i \in DOMAIN h.kids, h.kids[i] # 0, NEW j \in DOMAIN f.kids
      PROVE  f.kids[j] # h.kids[i]
  <2>1. f.kids[j] # 0 => h.kids[i] < f.kids[j]
    BY ONLY Older(h, f), i \in DOMAIN h.kids, h.kids[i] # 0, j \in DOMAIN f.kids DEF Older
  <2>2. h.kids[i] \in Int
    BY ONLY <1>4, i \in DOMAIN h.kids, h.kids[i] # 0
  <2> QED BY ONLY <2>1, <2>2, h.kids[i] # 0
<1>6. ASSUME NEW i \in DOMAIN h.kids, h.kids[i] # 0
      PROVE  \A m \in DOMAIN ms : \A j \in DOMAIN ms[m].kids : ms[m].kids[j] # h.kids[i]
  <2>1. \A m \in DOMAIN ns : \A j \in DOMAIN ns[m].kids : ns[m].kids[j] # h.kids[i]
    BY ONLY Own(h, b, ns), i \in DOMAIN h.kids, h.kids[i] # 0 DEF Own
  <2> QED BY ONLY <2>1, <1>2, <1>3, <1>5, i \in DOMAIN h.kids, h.kids[i] # 0
<1>7. \A i \in DOMAIN h.kids : h.kids[i] # 0 => ms[h.kids[i]] = ns[h.kids[i]]
  BY ONLY <1>2, <1>4
<1> QED BY ONLY <1>6, <1>7, Own(h, b, ns) DEF Own

-----------------------------------------------------------------------------
(* In a state.                                                             *)

Nested == Nest(nodes) /\ Laid(goals, nodes, at)

LEMMA HeldPlaces ==
    ASSUME NEW ns, NEW ts, NEW a, Held(ns, ts, a)
    PROVE  Placed(ns) /\ a \in Int
<1> PICK w : w = WorldOf(ns, ts, a)
  OBVIOUS
<1>1. a \in Nat \ {0} /\ Len(ns) \in Nat /\ DOMAIN ns = 1 .. Len(ns)
      /\ \A n \in DOMAIN ns : IsNode(ns[n], n - 1, a)
  BY ONLY Held(ns, ts, a), w = WorldOf(ns, ts, a), HeldSound
<1>2. ASSUME NEW m \in DOMAIN ns
      PROVE  ns[m].from \in Int /\ ns[m].to \in Int /\ ns[m].kids \in Seq(0 .. (m - 1))
  <2> PICK v : v = ns[m]
    OBVIOUS
  <2> PICK l : l = m - 1
    OBVIOUS
  <2>1. IsNode(v, l, a)
    BY ONLY <1>1, m \in DOMAIN ns, v = ns[m], l = m - 1
  <2>2. v.from \in 1 .. a /\ v.to \in Int /\ v.kids \in Seq(0 .. l)
    BY ONLY <2>1, NodeRange
  <2>3. v.from \in Int
    BY ONLY <2>2
  <2> QED BY ONLY <2>2, <2>3, v = ns[m], l = m - 1
<1> QED BY ONLY <1>1, <1>2 DEF Placed

LEMMA FramePlaces ==
    ASSUME NEW f, NEW ns, NEW a, IsFrame(f, Len(ns), a)
    PROVE  IsCall(f, ns)
<1>1. f.from \in Int /\ f.kids \in Seq(0 .. Len(ns))
  BY FrameRange, FrameKids
<1> QED BY ONLY <1>1 DEF IsCall

(* Where a step begins.                                                    *)
LEMMA Grounds ==
    ASSUME Inv, Going
    PROVE  /\ Placed(nodes) /\ Calls(goals, nodes) /\ at \in Int /\ goals # <<>> /\ IsSeq(goals)
           /\ IsSeq(Tail(goals)) /\ top = goals[1] /\ 1 \in DOMAIN goals /\ IsCall(top, nodes)
           /\ top.from <= at /\ top.kids \in Seq(0 .. Len(nodes))
           /\ (Len(goals) # 1 => goals[2].from <= goals[1].from)
<1> PICK w : w = World
  OBVIOUS
<1> PICK f : f = top
  OBVIOUS
<1>1. /\ IsFrame(f, Len(nodes), w.at) /\ w.at = at /\ StackSound(goals, Len(nodes), w)
      /\ Under(f, Tail(goals), Len(nodes), w) /\ goals # <<>> /\ IsSeq(goals) /\ IsSeq(Tail(goals))
  BY ONLY Inv, Going, f = top, w = World, Situation
<1>2. Placed(nodes) /\ at \in Int
  BY ONLY Inv, HeldPlaces DEF Inv
<1>3. Calls(goals, nodes)
  <2>1. ASSUME NEW i \in DOMAIN goals PROVE IsCall(goals[i], nodes)
    BY ONLY <1>1, i \in DOMAIN goals, EveryFrame, FramePlaces
  <2> QED BY ONLY <2>1, <1>1 DEF Calls
<1>4. top = goals[1] /\ 1 \in DOMAIN goals
  <2> PICK tt : tt = Onto(f, Tail(goals))
    OBVIOUS
  <2>1. goals[1] = Head(goals) /\ DOMAIN goals = 1 .. Len(goals) /\ Len(goals) \in Nat
        /\ Len(goals) >= 1
    BY ONLY <1>1, tt = Onto(f, Tail(goals)), Replaced
  <2> QED BY ONLY <2>1 DEF top
<1>5. f.from <= at /\ f.kids \in Seq(0 .. Len(nodes)) /\ IsCall(f, nodes)
  <2>1. f.from \in 1 .. at /\ f.kids \in Seq(0 .. Len(nodes)) /\ IsCall(f, nodes)
    BY ONLY <1>1, FrameRange, FrameKids, FramePlaces
  <2>2. f.from <= at
    BY ONLY <2>1, <1>2
  <2> QED BY ONLY <2>1, <2>2
<1>6. Len(goals) # 1 => goals[2].from <= goals[1].from
  <2> SUFFICES ASSUME Len(goals) # 1 PROVE goals[2].from <= goals[1].from
    OBVIOUS
  <2>1. Tail(goals) # <<>> /\ goals[2] = Head(Tail(goals))
    BY ONLY <1>1, Len(goals) # 1, SecondOf
  <2>2. Bears(Head(Tail(goals)), f, Len(nodes), w)
    BY ONLY <1>1, <2>1, UnderShrinks
  <2>3. goals[2].from <= f.from
    BY ONLY <2>1, <2>2 DEF Bears
  <2> QED BY ONLY <2>3, <1>4, f = top
<1> QED BY ONLY <1>1, <1>2, <1>3, <1>4, <1>5, <1>6, f = top

(* P->cur moves on or stays.                                               *)
LEMMA Onward ==
    ASSUME at \in Int, Stay \/ parse_advance
    PROVE  at' \in Int /\ at <= at'
<1>1. at' = at \/ at' = at + 1
  BY DEF Stay, parse_advance
<1> QED BY ONLY <1>1, at \in Int

LEMMA NestedGoes ==
    ASSUME Inv, Nested, Going, Stay \/ parse_advance, NEW g, Go(<<g>>), g.from = top.from,
           Part(g.kids, top.kids)
    PROVE  Nested'
<1> PICK tt : tt = goals'
  OBVIOUS
<1>1. UNCHANGED nodes /\ tt = <<g>> \o Tail(goals)
  BY ONLY Go(<<g>>), tt = goals' DEF Go
<1>2. /\ Placed(nodes) /\ Calls(goals, nodes) /\ at \in Int /\ goals # <<>> /\ top = goals[1]
      /\ IsSeq(Tail(goals))
  BY ONLY Inv, Going, Grounds
<1>3. at' \in Int /\ at <= at'
  BY ONLY <1>2, Stay \/ parse_advance, Onward
<1>4. tt = Onto(g, Tail(goals))
  BY ONLY <1>1, <1>2, JoinOne
<1>5. g.from = goals[1].from /\ Part(g.kids, goals[1].kids) /\ Laid(goals, nodes, at)
  BY ONLY <1>2, g.from = top.from, Part(g.kids, top.kids), Nested DEF Nested
<1>6. Laid(tt, nodes, at')
  BY ONLY <1>2, <1>3, <1>4, <1>5, LaidGoes
<1> QED BY ONLY <1>1, <1>6, Nested, tt = goals' DEF Nested

LEMMA NestedCalls ==
    ASSUME Inv, Nested, Going, Stay \/ parse_advance, NEW c, NEW d, Go(<<c, d>>),
           d.from = top.from,
           \/ c.from = at /\ c.kids = <<>> /\ Part(d.kids, top.kids)
           \/ c.from = top.from /\ d.kids = <<>> /\ Part(c.kids, top.kids)
    PROVE  Nested'
<1> PICK tt : tt = goals'
  OBVIOUS
<1> PICK t : t = Tail(goals)
  OBVIOUS
<1>1. UNCHANGED nodes /\ tt = <<c, d>> \o t
  BY ONLY Go(<<c, d>>), tt = goals', t = Tail(goals) DEF Go
<1>2. /\ Placed(nodes) /\ Calls(goals, nodes) /\ at \in Int /\ goals # <<>> /\ top = goals[1]
      /\ IsSeq(t)
  BY ONLY Inv, Going, Grounds, t = Tail(goals)
<1>3. at' \in Int /\ at <= at'
  BY ONLY <1>2, Stay \/ parse_advance, Onward
<1>4. tt = Onto(c, Onto(d, t))
  BY ONLY <1>1, <1>2, JoinTwo
<1>5. /\ d.from = goals[1].from /\ Laid(goals, nodes, at)
      /\ \/ c.from = at /\ c.kids = <<>> /\ Part(d.kids, goals[1].kids)
         \/ c.from = goals[1].from /\ d.kids = <<>> /\ Part(c.kids, goals[1].kids)
  BY ONLY <1>2, d.from = top.from, Nested,
           \/ c.from = at /\ c.kids = <<>> /\ Part(d.kids, top.kids)
           \/ c.from = top.from /\ d.kids = <<>> /\ Part(c.kids, top.kids) DEF Nested
<1>6. tt = Onto(c, Onto(d, Tail(goals)))
  BY ONLY <1>4, t = Tail(goals)
<1>7. Laid(tt, nodes, at')
  BY ONLY <1>2, <1>3, <1>5, <1>6, LaidCalls
<1> QED BY ONLY <1>1, <1>7, Nested, tt = goals' DEF Nested

(* The caller goes on with the node it is given.                           *)
LEMMA NestedReturns ==
    ASSUME Inv, Inv', Nested, Going, Stay \/ parse_advance, NEW ms, ms = nodes', Nest(ms),
           Len(nodes) <= Len(ms),
           \A i \in DOMAIN goals : i # 1 => Own(goals[i], Bound(goals, i, at), ms),
           NEW n, NEW type, Returns(n, type),
           n # 0 =>
            /\ n \in DOMAIN ms /\ top.from <= ms[n].from /\ ms[n].to < at'
            /\ \A m \in DOMAIN ms : \A j \in DOMAIN ms[m].kids : ms[m].kids[j] # n
            /\ \A i \in DOMAIN goals : i # 1 =>
                \A j \in DOMAIN goals[i].kids : goals[i].kids[j] # 0 => goals[i].kids[j] < n
    PROVE  Nested'
<1> PICK tt : tt = goals'
  OBVIOUS
<1>1. /\ Placed(nodes) /\ Calls(goals, nodes) /\ at \in Int /\ goals # <<>> /\ top = goals[1]
      /\ IsSeq(Tail(goals)) /\ IsSeq(goals) /\ IsCall(top, nodes) /\ top.from <= at
      /\ (Len(goals) # 1 => goals[2].from <= goals[1].from)
  BY ONLY Inv, Going, Grounds
<1>2. at' \in Int /\ at <= at'
  BY ONLY <1>1, Stay \/ parse_advance, Onward
<1>3. Placed(ms)
  <2>1. Held(ms, toks', at')
    BY ONLY Inv', ms = nodes' DEF Inv
  <2> QED BY ONLY <2>1, HeldPlaces
<1>4. CASE Len(goals) = 1
  <2>1. tt = <<>>
    BY ONLY <1>4, Returns(n, type), tt = goals' DEF Returns
  <2>2. Laid(tt, ms, at')
    BY ONLY <2>1 DEF Laid
  <2> QED BY ONLY <2>2, Nest(ms), ms = nodes', tt = goals' DEF Nested
<1>5. CASE Len(goals) # 1
  <2> PICK h : h = goals[2]
    OBVIOUS
  <2> PICK y : y = [h EXCEPT !.type = type]
    OBVIOUS
  <2> PICK g : g = IF n = 0 THEN y ELSE WithKid(y, n)
    OBVIOUS
  <2> PICK t : t = Tail(goals)
    OBVIOUS
  <2>1. tt = <<g>> \o Tail(t)
    BY ONLY <1>5, Returns(n, type), tt = goals', h = goals[2], y = [h EXCEPT !.type = type],
            g = IF n = 0 THEN y ELSE WithKid(y, n), t = Tail(goals) DEF Returns
  <2>2. IsSeq(Tail(t))
    <3>1. t # <<>>
      BY ONLY <1>1, <1>5, t = Tail(goals), SecondOf
    <3> QED BY ONLY <3>1, <1>1, t = Tail(goals), Uncons
  <2>3. tt = Onto(g, Tail(Tail(goals)))
    BY ONLY <2>1, <2>2, JoinOne, t = Tail(goals)
  <2>4. g.from = h.from /\ g.kids = IF n = 0 THEN h.kids ELSE Append(h.kids, n)
    <3>1. IsFrame(h, Len(nodes), at)
      <4> PICK w : w = World
        OBVIOUS
      <4>1. StackSound(goals, Len(nodes), w) /\ w.at = at
        BY ONLY Inv, Going, w = World, Situation
      <4>2. 2 \in DOMAIN goals
        <5> PICK uu : uu = Onto(g, Tail(Tail(goals)))
          OBVIOUS
        <5>1. DOMAIN goals = 1 .. Len(goals) /\ Len(goals) \in Nat /\ Len(goals) >= 2
          BY ONLY <1>1, <1>5, uu = Onto(g, Tail(Tail(goals))), Popped
        <5> QED BY ONLY <5>1
      <4> QED BY ONLY <4>1, <4>2, h = goals[2], EveryFrame
    <3>2. h = [kind |-> h.kind, from |-> h.from, at |-> h.at, kids |-> h.kids,
               todo |-> h.todo, type |-> h.type, min |-> h.min]
      BY ONLY <3>1 DEF IsFrame
    <3>3. /\ y = [kind |-> y.kind, from |-> y.from, at |-> y.at, kids |-> y.kids,
                  todo |-> y.todo, type |-> y.type, min |-> y.min]
          /\ y.from = h.from /\ y.kids = h.kids
      BY ONLY <3>2, y = [h EXCEPT !.type = type]
    <3>4. CASE n = 0
      BY ONLY <3>3, <3>4, g = IF n = 0 THEN y ELSE WithKid(y, n)
    <3>5. CASE n # 0
      <4> PICK s : s = Append(y.kids, n)
        OBVIOUS
      <4>1. g = [y EXCEPT !.kids = s]
        BY ONLY <3>5, g = IF n = 0 THEN y ELSE WithKid(y, n), s = Append(y.kids, n) DEF WithKid
      <4>2. g.from = y.from /\ g.kids = s
        BY ONLY <3>3, <4>1
      <4> QED BY ONLY <3>3, <3>5, <4>2, s = Append(y.kids, n)
    <3> QED BY ONLY <3>4, <3>5
  <2>5. /\ g.from = goals[2].from
        /\ g.kids = IF n = 0 THEN goals[2].kids ELSE Append(goals[2].kids, n)
    BY ONLY <2>4, h = goals[2]
  <2>6. goals[2].from <= goals[1].from /\ goals[1].from <= at'
    <3>1. goals[1].from \in Int /\ goals[1].from <= at
      BY ONLY <1>1 DEF IsCall
    <3> QED BY ONLY <1>1, <1>2, <1>5, <3>1
  <2>7. n # 0 =>
            /\ n \in DOMAIN ms /\ goals[1].from <= ms[n].from /\ ms[n].to < at'
            /\ \A m \in DOMAIN ms : \A j \in DOMAIN ms[m].kids : ms[m].kids[j] # n
            /\ \A i \in DOMAIN goals : i # 1 =>
                \A j \in DOMAIN goals[i].kids : goals[i].kids[j] # 0 => goals[i].kids[j] < n
    BY ONLY <1>1, n # 0 =>
            /\ n \in DOMAIN ms /\ top.from <= ms[n].from /\ ms[n].to < at'
            /\ \A m \in DOMAIN ms : \A j \in DOMAIN ms[m].kids : ms[m].kids[j] # n
            /\ \A i \in DOMAIN goals : i # 1 =>
                \A j \in DOMAIN goals[i].kids : goals[i].kids[j] # 0 => goals[i].kids[j] < n
  <2>8. Laid(goals, nodes, at)
    BY ONLY Nested DEF Nested
  <2>9. Laid(tt, ms, at')
    BY ONLY <1>1, <1>2, <1>3, <1>5, <2>3, <2>5, <2>6, <2>7, <2>8, Len(nodes) <= Len(ms),
            \A i \in DOMAIN goals : i # 1 => Own(goals[i], Bound(goals, i, at), ms), LaidReturns
  <2> QED BY ONLY <2>9, Nest(ms), ms = nodes', tt = goals' DEF Nested
<1> QED BY ONLY <1>4, <1>5

-----------------------------------------------------------------------------
(* What the steps leave of the innermost call.                             *)

(* It has begun where it did, and has no kids that it had not.             *)
Kept(g) == g.from = top.from /\ Part(g.kids, top.kids)

LEMMA PartSame == ASSUME NEW s, NEW r, s = r PROVE Part(s, r)
  BY DEF Part

LEMMA PartNull ==
    ASSUME NEW S, NEW r \in Seq(S), 0 \in S, NEW s, s = Append(r, 0)
    PROVE  Part(s, r)
<1>1. /\ DOMAIN s = 1 .. (Len(r) + 1) /\ Len(r) \in Nat /\ DOMAIN r = 1 .. Len(r)
      /\ s[Len(r) + 1] = 0 /\ \A i \in 1 .. Len(r) : s[i] = r[i]
  BY AppendProperties
<1>2. ASSUME NEW i \in DOMAIN s, s[i] # 0 PROVE i \in DOMAIN r /\ s[i] = r[i]
  <2>1. i # Len(r) + 1
    BY ONLY <1>1, <1>2
  <2>2. i \in 1 .. Len(r)
    BY ONLY <1>1, <2>1, i \in DOMAIN s
  <2> QED BY ONLY <1>1, <2>2
<1> QED BY ONLY <1>2 DEF Part

LEMMA PartFront ==
    ASSUME NEW n \in Nat, NEW r \in Seq(0 .. n), r # Nothing, NEW s, s = Front(r)
    PROVE  Part(s, r)
<1> PICK S : S = 0 .. n
  OBVIOUS
<1> PICK l : l = Len(r)
  OBVIOUS
<1>1. r \in Seq(S) /\ r # <<>>
  BY ONLY r \in Seq(0 .. n), S = 0 .. n, r # Nothing DEF Nothing
<1>2. l \in Nat /\ l >= 1 /\ DOMAIN r = 1 .. l
  BY ONLY <1>1, l = Len(r), EmptySeq
<1>3. s = SubSeq(r, 1, l - 1)
  BY ONLY s = Front(r), l = Len(r) DEF Front
<1>4. DOMAIN s = 1 .. (l - 1) /\ \A i \in 1 .. (l - 1) : s[i] = r[i]
  <2>1. \A i \in 1 .. (l - 1) : r[i] \in S
    BY ONLY <1>1, <1>2
  <2>2. 1 \in Int /\ l - 1 \in Int /\ 1 <= l - 1 + 1
    BY ONLY <1>2
  <2>3. /\ SubSeq(r, 1, l - 1) \in Seq(S) /\ Len(SubSeq(r, 1, l - 1)) = l - 1
        /\ \A i \in 1 .. (l - 1) : SubSeq(r, 1, l - 1)[i] = r[i]
    BY ONLY <1>1, <1>2, l = Len(r)
  <2>4. DOMAIN s = 1 .. Len(s)
    BY ONLY <1>3, <2>3
  <2> QED BY ONLY <1>3, <2>3, <2>4
<1>5. \A i \in 1 .. (l - 1) : i \in 1 .. l
  BY ONLY <1>2
<1> QED BY ONLY <1>2, <1>4, <1>5 DEF Part

LEMMA NodeKeeps ==
    ASSUME Inv, Going, NEW k, NEW t, NEW g, g = [top EXCEPT !.kind = k, !.at = at, !.todo = t]
    PROVE  g.from = top.from /\ g.kids = top.kids
<1> PICK f : f = top
  OBVIOUS
<1> PICK w : w = World
  OBVIOUS
<1> PICK b : b = at
  OBVIOUS
<1>1. IsFrame(f, Len(nodes), w.at)
  BY ONLY Inv, Going, f = top, w = World, Situation
<1>2. g = [f EXCEPT !.kind = k, !.at = b, !.todo = t]
  BY ONLY g = [top EXCEPT !.kind = k, !.at = at, !.todo = t], f = top, b = at
<1>3. g = Edit(f, k, b, f.kids, t, f.type)
  BY ONLY <1>1, <1>2, EditAll
<1>4. g.from = f.from /\ g.kids = f.kids
  BY ONLY <1>3, EditIs
<1> QED BY ONLY <1>4, f = top

LEMMA KeptIs ==
    ASSUME Inv, Going
    PROVE  /\ Kept(top) /\ Kept(Done) /\ Kept(WithKid(Done, 0)) /\ \A s : Kept(Instead(s))
           /\ Done.from = top.from /\ Done.kids = top.kids
           /\ \A x : Kept([Done EXCEPT !.at = x])
           /\ \A y : Kept([top EXCEPT !.type = y])
           /\ \A k, x : Kept([Done EXCEPT !.kind = k, !.at = x])
           /\ \A k, t : Kept([top EXCEPT !.kind = k, !.todo = t])
           /\ \A k, x, t : Kept([top EXCEPT !.kind = k, !.at = x, !.todo = t])
           /\ [top EXCEPT !.kids = <<>>].from = top.from /\ [top EXCEPT !.kids = <<>>].kids = <<>>
           /\ [Done EXCEPT !.kids = <<>>].from = top.from
           /\ [Done EXCEPT !.kids = <<>>].kids = <<>>
<1> PICK f : f = top
  OBVIOUS
<1> PICK d : d = Done
  OBVIOUS
<1> PICK w : w = World
  OBVIOUS
<1>1. IsFrame(f, Len(nodes), w.at) /\ Len(nodes) \in Nat
  BY ONLY Inv, Going, f = top, w = World, Situation
<1>2. f = [kind |-> f.kind, from |-> f.from, at |-> f.at, kids |-> f.kids,
           todo |-> f.todo, type |-> f.type, min |-> f.min]
  BY ONLY <1>1 DEF IsFrame
<1>3. d = [f EXCEPT !.todo = Tail(f.todo)]
  BY ONLY f = top, d = Done DEF Done
<1>4. /\ d = [kind |-> d.kind, from |-> d.from, at |-> d.at, kids |-> d.kids,
              todo |-> d.todo, type |-> d.type, min |-> d.min]
      /\ d.from = f.from /\ d.kids = f.kids
  <2> PICK t : t = Tail(f.todo)
    OBVIOUS
  <2>1. d = [f EXCEPT !.todo = t]
    BY ONLY <1>3, t = Tail(f.todo)
  <2> QED BY ONLY <1>2, <2>1
<1>5. \A g : g.from = f.from /\ g.kids = f.kids => Kept(g)
  BY ONLY f = top, PartSame DEF Kept
<1>6. Kept(f) /\ Kept(d)
  BY ONLY <1>4, <1>5
<1>7. Kept(WithKid(d, 0))
  <2> PICK S : S = 0 .. Len(nodes)
    OBVIOUS
  <2> PICK s : s = Append(f.kids, 0)
    OBVIOUS
  <2> PICK g : g = [d EXCEPT !.kids = s]
    OBVIOUS
  <2>1. f.kids \in Seq(S) /\ 0 \in S
    <3>1. f.kids \in Seq(0 .. Len(nodes))
      BY ONLY <1>1, FrameKids
    <3> QED BY ONLY <1>1, <3>1, S = 0 .. Len(nodes)
  <2>2. Part(s, f.kids)
    BY ONLY <2>1, s = Append(f.kids, 0), PartNull
  <2>3. g.from = f.from /\ g.kids = s
    BY ONLY <1>4, g = [d EXCEPT !.kids = s]
  <2>4. Kept(g)
    BY ONLY <2>2, <2>3, f = top DEF Kept
  <2>5. WithKid(d, 0) = g
    BY ONLY <1>4, s = Append(f.kids, 0), g = [d EXCEPT !.kids = s] DEF WithKid
  <2> QED BY ONLY <2>4, <2>5
<1>8. ASSUME NEW s PROVE Kept(Instead(s))
  <2> PICK t : t = s \o Tail(f.todo)
    OBVIOUS
  <2> PICK g : g = [f EXCEPT !.todo = t]
    OBVIOUS
  <2>1. Instead(s) = g
    BY ONLY f = top, t = s \o Tail(f.todo), g = [f EXCEPT !.todo = t] DEF Instead
  <2>2. g.from = f.from /\ g.kids = f.kids
    BY ONLY <1>2, g = [f EXCEPT !.todo = t]
  <2> QED BY ONLY <1>5, <2>1, <2>2
<1>9. ASSUME NEW x PROVE Kept([d EXCEPT !.at = x])
  <2> PICK g : g = [d EXCEPT !.at = x]
    OBVIOUS
  <2>1. g.from = f.from /\ g.kids = f.kids
    BY ONLY <1>4, g = [d EXCEPT !.at = x]
  <2> QED BY ONLY <1>5, <2>1, g = [d EXCEPT !.at = x]
<1>10. ASSUME NEW x PROVE Kept([f EXCEPT !.type = x])
  <2> PICK g : g = [f EXCEPT !.type = x]
    OBVIOUS
  <2>1. g.from = f.from /\ g.kids = f.kids
    BY ONLY <1>2, g = [f EXCEPT !.type = x]
  <2> QED BY ONLY <1>5, <2>1, g = [f EXCEPT !.type = x]
<1>11. ASSUME NEW k, NEW x PROVE Kept([d EXCEPT !.kind = k, !.at = x])
  <2> PICK g : g = [d EXCEPT !.kind = k, !.at = x]
    OBVIOUS
  <2>1. g.from = f.from /\ g.kids = f.kids
    BY ONLY <1>4, g = [d EXCEPT !.kind = k, !.at = x]
  <2> QED BY ONLY <1>5, <2>1, g = [d EXCEPT !.kind = k, !.at = x]
<1>12. ASSUME NEW k, NEW t PROVE Kept([f EXCEPT !.kind = k, !.todo = t])
  <2> PICK g : g = [f EXCEPT !.kind = k, !.todo = t]
    OBVIOUS
  <2>1. g.from = f.from /\ g.kids = f.kids
    BY ONLY <1>2, g = [f EXCEPT !.kind = k, !.todo = t]
  <2> QED BY ONLY <1>5, <2>1, g = [f EXCEPT !.kind = k, !.todo = t]
<1>13. ASSUME NEW k, NEW x, NEW t
       PROVE  Kept([f EXCEPT !.kind = k, !.at = x, !.todo = t])
  <2> PICK g : g = [f EXCEPT !.kind = k, !.at = x, !.todo = t]
    OBVIOUS
  <2>1. g.from = f.from /\ g.kids = f.kids
    BY ONLY <1>2, g = [f EXCEPT !.kind = k, !.at = x, !.todo = t]
  <2> QED BY ONLY <1>5, <2>1, g = [f EXCEPT !.kind = k, !.at = x, !.todo = t]
<1>14. [f EXCEPT !.kids = <<>>].from = f.from /\ [f EXCEPT !.kids = <<>>].kids = <<>>
  BY ONLY <1>2
<1>15. [d EXCEPT !.kids = <<>>].from = f.from /\ [d EXCEPT !.kids = <<>>].kids = <<>>
  BY ONLY <1>4
<1>16. /\ Kept(top) /\ Kept(Done) /\ Kept(WithKid(Done, 0)) /\ \A s : Kept(Instead(s))
       /\ Done.from = top.from /\ Done.kids = top.kids
  BY ONLY <1>4, <1>6, <1>7, <1>8, f = top, d = Done
<1>17. \A x : Kept([Done EXCEPT !.at = x])
  BY ONLY <1>9, d = Done
<1>18. \A y : Kept([top EXCEPT !.type = y])
  BY ONLY <1>10, f = top
<1>19. \A k, x : Kept([Done EXCEPT !.kind = k, !.at = x])
  BY ONLY <1>11, d = Done
<1>20. \A k, t : Kept([top EXCEPT !.kind = k, !.todo = t])
  BY ONLY <1>12, f = top
<1>21. \A k, x, t : Kept([top EXCEPT !.kind = k, !.at = x, !.todo = t])
  BY ONLY <1>13, f = top
<1>23. [top EXCEPT !.kids = <<>>].from = top.from /\ [top EXCEPT !.kids = <<>>].kids = <<>>
  BY ONLY <1>14, f = top
<1>24. [Done EXCEPT !.kids = <<>>].from = top.from /\ [Done EXCEPT !.kids = <<>>].kids = <<>>
  BY ONLY <1>15, f = top, d = Done
<1> QED BY ONLY <1>16, <1>17, <1>18, <1>19, <1>20, <1>21, <1>23, <1>24

-----------------------------------------------------------------------------
(* The steps that only go on.                                              *)

LEMMA NestedKept ==
    ASSUME Inv, Nested, Going, Stay \/ parse_advance, NEW g, Go(<<g>>), Kept(g)
    PROVE  Nested'
  BY NestedGoes DEF Kept

LEMMA NestedRejects ==
    ASSUME Nested, Reject
    PROVE  Nested'
  BY DEF Nested, Reject, Stay

(* A call begins at P->cur.                                                *)
LEMMA NestedEnters ==
    ASSUME Inv, Nested, Going, Stay, NEW x, NEW d, Go(<<Enter(x), d>>), Kept(d)
    PROVE  Nested'
<1> PICK c : c = Enter(x)
  OBVIOUS
<1>1. c.from = at /\ c.kids = <<>>
  BY ONLY c = Enter(x) DEF Enter
<1>2. d.from = top.from /\ Part(d.kids, top.kids)
  BY ONLY Kept(d) DEF Kept
<1>3. Go(<<c, d>>)
  BY ONLY Go(<<Enter(x), d>>), c = Enter(x)
<1> QED BY ONLY Inv, Nested, Going, Stay, <1>1, <1>2, <1>3, NestedCalls

LEMMA NestedBecomes ==
    ASSUME Inv, Nested, Going, Stay \/ parse_advance, NEW k, NEW t, Becomes(k, t)
    PROVE  Nested'
<1> PICK g : g = [top EXCEPT !.kind = k, !.at = at, !.todo = t]
  OBVIOUS
<1>1. Go(<<g>>)
  BY ONLY Becomes(k, t), g = [top EXCEPT !.kind = k, !.at = at, !.todo = t] DEF Becomes
<1>2. g.from = top.from /\ g.kids = top.kids
  BY ONLY Inv, Going, g = [top EXCEPT !.kind = k, !.at = at, !.todo = t], NodeKeeps
<1>3. Kept(g)
  BY ONLY <1>2, PartSame DEF Kept
<1> QED BY ONLY Inv, Nested, Going, Stay \/ parse_advance, <1>1, <1>3, NestedKept

LEMMA NestedWraps ==
    ASSUME Inv, Nested, Going, Stay \/ parse_advance, NEW k, NEW e, e = top \/ e = Done, Wrap(k, e)
    PROVE  Nested'
<1> PICK t : t = Steps(k)
  OBVIOUS
<1> PICK c : c = [top EXCEPT !.kind = k, !.at = at, !.todo = t]
  OBVIOUS
<1> PICK d : d = [e EXCEPT !.kids = <<>>]
  OBVIOUS
<1>1. Go(<<c, d>>)
  BY ONLY Wrap(k, e), c = [top EXCEPT !.kind = k, !.at = at, !.todo = t], t = Steps(k),
          d = [e EXCEPT !.kids = <<>>] DEF Wrap
<1>2. c.from = top.from /\ c.kids = top.kids
  BY ONLY Inv, Going, c = [top EXCEPT !.kind = k, !.at = at, !.todo = t], NodeKeeps
<1>3. d.from = top.from /\ d.kids = <<>>
  BY ONLY Inv, Going, e = top \/ e = Done, d = [e EXCEPT !.kids = <<>>], KeptIs
<1>4. Part(c.kids, top.kids)
  BY ONLY <1>2, PartSame
<1> QED BY ONLY Inv, Nested, Going, Stay \/ parse_advance, <1>1, <1>2, <1>3, <1>4, NestedCalls

LEMMA StandardNests ==
    ASSUME Inv, Nested, parse_expect \/ CallStep \/ parse_match \/ parse_check
    PROVE  Nested'
<1>1. CASE parse_expect
  <2>1. Going /\ (Reject \/ (parse_advance /\ Go(<<Done>>)))
    BY ONLY <1>1 DEF parse_expect
  <2> QED BY ONLY Inv, Nested, <2>1, NestedRejects, NestedKept, KeptIs
<1>2. CASE CallStep
  <2> PICK x : x = todo[2]
    OBVIOUS
  <2>1. Going /\ Stay /\ Go(<<Enter(x), Done>>)
    BY ONLY <1>2, x = todo[2] DEF CallStep
  <2> QED BY ONLY Inv, Nested, <2>1, NestedEnters, KeptIs
<1>3. CASE parse_match
  <2> PICK s : s = <<Call(todo[3])>> \o (IF todo[1] = "again" THEN <<todo>> ELSE <<>>)
    OBVIOUS
  <2>1. /\ Going
        /\ \/ parse_advance /\ Go(<<Instead(s)>>)
           \/ Stay /\ Go(<<WithKid(Done, 0)>>)
           \/ Stay /\ Go(<<Done>>)
    BY ONLY <1>3, s = <<Call(todo[3])>> \o (IF todo[1] = "again" THEN <<todo>> ELSE <<>>), Zenon
       DEF parse_match
  <2> QED BY ONLY Inv, Nested, <2>1, NestedKept, KeptIs
<1>4. CASE parse_check
  <2> PICK x : x = todo[3]
    OBVIOUS
  <2> PICK s : s = <<Call(x)>>
    OBVIOUS
  <2>1. /\ Going /\ Stay
        /\ \/ Go(<<WithKid(Done, 0)>>) \/ Go(<<Instead(s)>>) \/ Go(<<Done>>)
           \/ Go(<<Enter(x), top>>)
    BY ONLY <1>4, x = todo[3], s = <<Call(x)>>, Zenon DEF parse_check
  <2> QED BY ONLY Inv, Nested, <2>1, NestedKept, NestedEnters, KeptIs
<1> QED BY ONLY parse_expect \/ CallStep \/ parse_match \/ parse_check, <1>1, <1>2, <1>3, <1>4

LEMMA ExpressionNests ==
    ASSUME Inv, Nested, Expression
    PROVE  Nested'
<1>1. ASSUME NEW k, Going, Stay \/ parse_advance, Wrap(k, top) \/ Wrap(k, Done) PROVE Nested'
  BY ONLY Inv, Nested, <1>1, NestedWraps
<1>2. ASSUME Going, Stay \/ parse_advance, Go(<<Done>>) PROVE Nested'
  BY ONLY Inv, Nested, <1>2, NestedKept, KeptIs
<1>3. ASSUME NEW s, Going, Stay \/ parse_advance, Go(<<Instead(s)>>) PROVE Nested'
  BY ONLY Inv, Nested, <1>3, NestedKept, KeptIs
<1>4. ASSUME NEW k, NEW t, Going, Stay \/ parse_advance, Becomes(k, t) PROVE Nested'
  BY ONLY Inv, Nested, <1>4, NestedBecomes
<1>5. CASE parse_expression
  BY ONLY <1>1, <1>2, <1>5, Zenon DEF parse_expression, At
<1>6. CASE parse_assignment
  BY ONLY <1>1, <1>2, <1>6, Zenon DEF parse_assignment, At
<1>7. CASE parse_conditional
  BY ONLY <1>1, <1>2, <1>7, Zenon DEF parse_conditional, At
<1>8. CASE parse_binary
  BY ONLY <1>1, <1>2, <1>8, Zenon DEF parse_binary, At
<1>9. CASE parse_unary
  BY ONLY <1>4, <1>9, Zenon DEF parse_unary, At
<1>10. CASE parse_sizeof
  BY ONLY <1>3, <1>10, Zenon DEF parse_sizeof, At
<1>11. CASE parse_postfix
  BY ONLY <1>1, <1>2, <1>11, Zenon DEF parse_postfix, At
<1>12. CASE Arguments
  <2> PICK s : s = <<Call("assignment"), Again(",", "assignment")>>
    OBVIOUS
  <2>1. Going /\ Stay /\ (Go(<<Done>>) \/ Go(<<Instead(s)>>))
    BY ONLY <1>12, s = <<Call("assignment"), Again(",", "assignment")>> DEF Arguments, At
  <2> QED BY ONLY <1>2, <1>3, <2>1
<1>13. CASE parse_primary
  <2>1. /\ Going
        /\ \/ parse_advance /\ \E k, t : Becomes(k, t)
           \/ Reject
    BY ONLY <1>13, Zenon DEF parse_primary, At
  <2> QED BY ONLY Nested, <1>4, <2>1, NestedRejects
<1> QED BY ONLY Expression, <1>5, <1>6, <1>7, <1>8, <1>9, <1>10, <1>11, <1>12, <1>13 DEF Expression

LEMMA StatementNests ==
    ASSUME Inv, Nested, parse_statement
    PROVE  Nested'
<1>1. Going /\ (Stay \/ parse_advance) /\ \E k, t : Becomes(k, t)
  BY ONLY parse_statement, Zenon DEF parse_statement, At
<1> QED BY ONLY Inv, Nested, <1>1, NestedBecomes

-----------------------------------------------------------------------------
(* The steps that return.                                                  *)

(* A kid of the innermost call is free, and younger than those of others.  *)
LEMMA KidIsFree ==
    ASSUME Inv, Nested, Going, 1 \in DOMAIN top.kids, NEW n, n = top.kids[1], n # 0
    PROVE  /\ n \in DOMAIN nodes /\ top.from <= nodes[n].from /\ nodes[n].to < at
           /\ \A m \in DOMAIN nodes : \A j \in DOMAIN nodes[m].kids : nodes[m].kids[j] # n
           /\ \A i \in DOMAIN goals : i # 1 =>
                \A j \in DOMAIN goals[i].kids : goals[i].kids[j] # 0 => goals[i].kids[j] < n
<1> PICK f : f = goals[1]
  OBVIOUS
<1>1. /\ Placed(nodes) /\ Calls(goals, nodes) /\ top = f /\ 1 \in DOMAIN goals /\ IsCall(f, nodes)
  BY ONLY Inv, Going, f = goals[1], Grounds
<1>2. Laid(goals, nodes, at)
  BY ONLY Nested DEF Nested
<1>3. Own(f, at, nodes)
  <2>1. Bound(goals, 1, at) = at
    BY DEF Bound
  <2> QED BY ONLY <1>1, <1>2, <2>1, f = goals[1] DEF Laid
<1>4. 1 \in DOMAIN f.kids /\ n = f.kids[1]
  BY ONLY <1>1, 1 \in DOMAIN top.kids, n = top.kids[1]
<1>5. n \in DOMAIN nodes
  BY ONLY <1>1, <1>4, n # 0, KidIs
<1>6. /\ f.from <= nodes[n].from /\ nodes[n].to < at
      /\ \A m \in DOMAIN nodes : \A j \in DOMAIN nodes[m].kids : nodes[m].kids[j] # n
  BY ONLY <1>3, <1>4, n # 0 DEF Own
<1>7. ASSUME NEW i \in DOMAIN goals, i # 1, NEW j \in DOMAIN goals[i].kids, goals[i].kids[j] # 0
      PROVE  goals[i].kids[j] < n
  <2>1. 1 < i
    <3> PICK S : S = Elements(goals)
      OBVIOUS
    <3>1. goals \in Seq(S)
      BY ONLY <1>1, S = Elements(goals) DEF Calls, IsSeq
    <3>2. i \in 1 .. Len(goals) /\ Len(goals) \in Nat
      BY ONLY <3>1, i \in DOMAIN goals
    <3> QED BY ONLY <3>2, i # 1
  <2>2. Older(goals[i], f)
    BY ONLY <1>1, <1>2, <2>1, i \in DOMAIN goals, f = goals[1] DEF Laid
  <2> QED BY ONLY <1>4, <2>2, n # 0, j \in DOMAIN goals[i].kids, goals[i].kids[j] # 0 DEF Older
<1> QED BY ONLY <1>1, <1>5, <1>6, <1>7

(* What was parsed is passed on, or NULL returned.                         *)
LEMMA NestedPasses ==
    ASSUME Inv, Inv', Nested, Going, Stay \/ parse_advance, UNCHANGED nodes, NEW n, NEW type,
           Returns(n, type), n # 0 => 1 \in DOMAIN top.kids /\ n = top.kids[1]
    PROVE  Nested'
<1> PICK ms : ms = nodes
  OBVIOUS
<1>1. ms = nodes' /\ Nest(ms) /\ Laid(goals, ms, at)
  BY ONLY UNCHANGED nodes, Nested, ms = nodes DEF Nested
<1>2. Placed(ms) /\ at \in Int
  BY ONLY Inv, Going, Grounds, ms = nodes
<1>3. at' \in Int /\ at <= at'
  BY ONLY <1>2, Stay \/ parse_advance, Onward
<1>4. Len(nodes) <= Len(ms)
  BY ONLY <1>2, ms = nodes DEF Placed
<1>5. \A i \in DOMAIN goals : i # 1 => Own(goals[i], Bound(goals, i, at), ms)
  BY ONLY <1>1 DEF Laid
<1>6. n # 0 =>
            /\ n \in DOMAIN ms /\ top.from <= ms[n].from /\ ms[n].to < at'
            /\ \A m \in DOMAIN ms : \A j \in DOMAIN ms[m].kids : ms[m].kids[j] # n
            /\ \A i \in DOMAIN goals : i # 1 =>
                \A j \in DOMAIN goals[i].kids : goals[i].kids[j] # 0 => goals[i].kids[j] < n
  <2> SUFFICES ASSUME n # 0
      PROVE /\ n \in DOMAIN ms /\ top.from <= ms[n].from /\ ms[n].to < at'
            /\ \A m \in DOMAIN ms : \A j \in DOMAIN ms[m].kids : ms[m].kids[j] # n
            /\ \A i \in DOMAIN goals : i # 1 =>
                \A j \in DOMAIN goals[i].kids : goals[i].kids[j] # 0 => goals[i].kids[j] < n
    OBVIOUS
  <2>1. /\ n \in DOMAIN ms /\ top.from <= ms[n].from /\ ms[n].to < at
        /\ \A m \in DOMAIN ms : \A j \in DOMAIN ms[m].kids : ms[m].kids[j] # n
        /\ \A i \in DOMAIN goals : i # 1 =>
                \A j \in DOMAIN goals[i].kids : goals[i].kids[j] # 0 => goals[i].kids[j] < n
    BY ONLY Inv, Nested, Going, n # 0, n # 0 => 1 \in DOMAIN top.kids /\ n = top.kids[1],
            ms = nodes, KidIsFree
  <2>2. ms[n].to \in Int
    BY ONLY <1>2, <2>1 DEF Placed
  <2>3. ms[n].to < at'
    BY ONLY <1>2, <1>3, <2>1, <2>2
  <2> QED BY ONLY <2>1, <2>3
<1> QED BY ONLY Inv, Inv', Nested, Going, Stay \/ parse_advance, Returns(n, type),
                <1>1, <1>4, <1>5, <1>6, NestedReturns

LEMMA DeriveKept ==
    ASSUME Inv, Derive
    PROVE  Going /\ Stay /\ \E g : Go(<<g>>) /\ Kept(g)
<1> PICK f : f = top
  OBVIOUS
<1> PICK e : e = Done
  OBVIOUS
<1> PICK w : w = World
  OBVIOUS
<1> PICK y : y = Derived(e.type, todo[2], IF todo[1] = "array" THEN Last(top.kids) ELSE 0)
  OBVIOUS
<1> PICK s : s = IF todo[1] = "array" THEN Front(e.kids) ELSE e.kids
  OBVIOUS
<1> PICK g : g = [e EXCEPT !.type = y, !.kids = s]
  OBVIOUS
<1>1. Going /\ Stay /\ Go(<<g>>) /\ top.todo # <<>> /\ todo[1] \in {"array", "func"}
  BY ONLY Derive, e = Done,
          y = Derived(e.type, todo[2], IF todo[1] = "array" THEN Last(top.kids) ELSE 0),
          s = IF todo[1] = "array" THEN Front(e.kids) ELSE e.kids,
          g = [e EXCEPT !.type = y, !.kids = s]
     DEF Derive
<1>2. IsFrame(f, Len(nodes), w.at) /\ Stands(f, w) /\ w.at \in Nat /\ Len(nodes) \in Nat
  BY ONLY Inv, <1>1, f = top, w = World, Situation
<1>3. f.todo # Nothing /\ todo[1] = Word(Foremost(f.todo))
  BY ONLY <1>1, f = top, TodoIs
<1>4. e.from = f.from /\ e.kids = f.kids
  BY ONLY Inv, <1>1, f = top, e = Done, KeptIs
<1>5. Part(s, f.kids)
  <2>1. CASE todo[1] = "array"
    <3>1. f.kids # Nothing
      <4>1. \/ \E r \in AfterDims, j \in 1 .. w.at : f.todo = Left3(ArrayOf(j), Do("dims"), r)
                 /\ f.kids # Nothing
            \/ \E j \in 1 .. w.at : f.todo = Left1(FuncOf(j))
        BY ONLY <1>1, <1>2, <1>3, DeriveCases
      <4>2. \A j \in 1 .. w.at : f.todo # Left1(FuncOf(j))
        <5> SUFFICES ASSUME NEW j, f.todo = Left1(FuncOf(j)) PROVE FALSE
          OBVIOUS
        <5>1. Foremost(f.todo) = FuncOf(j)
          BY LeftFacts
        <5>2. todo[1] = "func"
          BY ONLY <1>3, <5>1, StepTags
        <5> QED BY ONLY <2>1, <5>2
      <4> QED BY ONLY <4>1, <4>2
    <3>2. f.kids \in Seq(0 .. Len(nodes))
      BY ONLY <1>2, FrameKids
    <3>3. s = Front(f.kids)
      BY ONLY <2>1, <1>4, s = IF todo[1] = "array" THEN Front(e.kids) ELSE e.kids
    <3> QED BY ONLY <1>2, <3>1, <3>2, <3>3, PartFront
  <2>2. CASE todo[1] # "array"
    <3>1. s = f.kids
      BY ONLY <2>2, <1>4, s = IF todo[1] = "array" THEN Front(e.kids) ELSE e.kids
    <3> QED BY ONLY <3>1, PartSame
  <2> QED BY ONLY <2>1, <2>2
<1>6. g.from = e.from /\ g.kids = s
  <2>1. e = Edit(f, f.kind, f.at, f.kids, Rest(f.todo), f.type)
    BY ONLY Inv, <1>1, f = top, w = World, e = Done, DoneIs
  <2>2. e = [kind |-> e.kind, from |-> e.from, at |-> e.at, kids |-> e.kids,
             todo |-> e.todo, type |-> e.type, min |-> e.min]
    BY ONLY <2>1 DEF Edit
  <2> QED BY ONLY <2>2, g = [e EXCEPT !.type = y, !.kids = s]
<1>7. Kept(g)
  BY ONLY <1>4, <1>5, <1>6, f = top DEF Kept
<1> QED BY ONLY <1>1, <1>7

LEMMA DeclarationNests ==
    ASSUME Inv, Inv', Nested, Declaration
    PROVE  Nested'
<1>1. ASSUME Going, Stay \/ parse_advance, NEW g, Go(<<g>>), Kept(g) PROVE Nested'
  BY ONLY Inv, Nested, <1>1, NestedKept
<1>2. ASSUME Going, Stay \/ parse_advance, UNCHANGED nodes, NEW y, Returns(0, y) PROVE Nested'
  BY ONLY Inv, Inv', Nested, <1>2, NestedPasses
<1>3. ASSUME Going, Stay \/ parse_advance, UNCHANGED nodes, Return(0) PROVE Nested'
  BY ONLY <1>2, <1>3 DEF Return
<1>4. ASSUME Going
      PROVE  /\ Kept(top) /\ Kept(Done) /\ \A s : Kept(Instead(s))
             /\ \A x : Kept([Done EXCEPT !.at = x])
             /\ \A y : Kept([top EXCEPT !.type = y])
             /\ \A k, x : Kept([Done EXCEPT !.kind = k, !.at = x])
             /\ \A k, t : Kept([top EXCEPT !.kind = k, !.todo = t])
  BY ONLY Inv, <1>4, KeptIs
<1>5. CASE Words
  <2> PICK y : y = Plain(Basic({Kind(toks[i]) : i \in top.from .. (at - 1)}))
    OBVIOUS
  <2>1. /\ Going
        /\ \/ parse_advance /\ Go(<<top>>)
           \/ Stay /\ UNCHANGED nodes /\ Returns(0, y)
    BY ONLY <1>5, y = Plain(Basic({Kind(toks[i]) : i \in top.from .. (at - 1)})) DEF Words, At
  <2> QED BY ONLY <2>1, <1>1, <1>2, <1>4
<1>6. CASE NothingDeclared
  <2>1. /\ Going
        /\ \/ parse_advance /\ UNCHANGED nodes /\ Return(0)
           \/ Stay /\ \E g : Go(<<g>>) /\ Kept(g)
    BY ONLY <1>4, <1>6, Zenon DEF NothingDeclared, At
  <2> QED BY ONLY <2>1, <1>1, <1>3
<1>7. CASE FuncOrDecl
  <2>1. /\ Going /\ Stay
        /\ (UNCHANGED nodes /\ Return(0)) \/ \E g : Go(<<g>>) /\ Kept(g)
    BY ONLY <1>4, <1>7, Zenon DEF FuncOrDecl, At
  <2> QED BY ONLY <2>1, <1>1, <1>3
<1>8. CASE Stars
  <2>1. Going /\ (Stay \/ parse_advance) /\ \E g : Go(<<g>>) /\ Kept(g)
    BY ONLY <1>4, <1>8, Zenon DEF Stars, At
  <2> QED BY ONLY <2>1, <1>1
<1>9. CASE DeclaratorName
  <2>1. Going /\ (Stay \/ parse_advance) /\ \E g : Go(<<g>>) /\ Kept(g)
    BY ONLY <1>4, <1>9, Zenon DEF DeclaratorName, At
  <2> QED BY ONLY <2>1, <1>1
<1>10. CASE VariableName
  <2>1. Going /\ (Reject \/ (parse_advance /\ \E g : Go(<<g>>) /\ Kept(g)))
    BY ONLY <1>4, <1>10, Zenon DEF VariableName, At
  <2> QED BY ONLY Nested, <2>1, <1>1, NestedRejects
<1>11. CASE Dimensions
  <2>1. Going /\ (Stay \/ parse_advance) /\ \E g : Go(<<g>>) /\ Kept(g)
    BY ONLY <1>4, <1>11, Zenon DEF Dimensions, At
  <2> QED BY ONLY <2>1, <1>1
<1>12. CASE Parameters
  <2>1. Going /\ (Stay \/ parse_advance) /\ \E g : Go(<<g>>) /\ Kept(g)
    BY ONLY <1>4, <1>12, Zenon DEF Parameters, At
  <2> QED BY ONLY <2>1, <1>1
<1>13. CASE Derive
  BY ONLY Inv, <1>13, <1>1, DeriveKept
<1>14. CASE ParameterList
  <2>1. Going /\ (Stay \/ parse_advance) /\ \E g : Go(<<g>>) /\ Kept(g)
    BY ONLY <1>4, <1>14, Zenon DEF ParameterList, At
  <2> QED BY ONLY <2>1, <1>1
<1>15. CASE Parameter
  <2>1. /\ Going
        /\ \/ parse_advance /\ Go(<<Done>>)
           \/ Stay /\ \E d : Go(<<Enter("PARAM"), d>>) /\ Kept(d)
    BY ONLY <1>4, <1>15, Zenon DEF Parameter, At
  <2> QED BY ONLY Inv, Nested, <2>1, <1>1, <1>4, NestedEnters
<1>16. CASE NextParameter
  <2>1. Going /\ (Stay \/ parse_advance) /\ \E g : Go(<<g>>) /\ Kept(g)
    BY ONLY <1>4, <1>16, Zenon DEF NextParameter, At
  <2> QED BY ONLY <2>1, <1>1
<1> QED BY ONLY Declaration, <1>5, <1>6, <1>7, <1>8, <1>9, <1>10, <1>11, <1>12, <1>13, <1>14,
                <1>15, <1>16 DEF Declaration

-----------------------------------------------------------------------------
(* What is returned is a node that has changed, or a new one.              *)

(* The one kid of a call that returns it.                                  *)
LEMMA OneKid ==
    ASSUME Inv, Going, top.todo = <<>>, NEW f, f = top,
           \/ f.kind \in PassedOn \/ f.kind = "parens" \/ (f.kind = "var_decl" /\ Len(f.kids) = 1)
    PROVE  1 \in DOMAIN f.kids /\ f.kids[1] # 0
<1> PICK w : w = World
  OBVIOUS
<1> PICK s : s = f.kids
  OBVIOUS
<1> PICK S : S = 0 .. Len(nodes)
  OBVIOUS
<1>1. /\ IsFrame(f, Len(nodes), w.at) /\ Stands(f, w) /\ 0 \notin DOMAIN w.level
  BY ONLY Inv, Going, f = top, w = World, Situation
<1>2. f.todo = Nothing /\ f.min \in Nat /\ s \in Seq(S) /\ f.kids \in Seq(S)
  BY ONLY <1>1, FrameRange, FrameKids, top.todo = <<>>, f = top, s = f.kids, S = 0 .. Len(nodes)
     DEF Nothing
<1>3. \E l : One(f.kids, w, l)
  <2>1. CASE f.kind \in PassedOn
    BY ONLY <1>1, <1>2, <2>1, PassKid
  <2>2. CASE f.kind = "parens" \/ (f.kind = "var_decl" /\ Len(f.kids) = 1)
    BY ONLY <1>1, <1>2, <2>2, WrappedKid
  <2> QED BY ONLY <2>1, <2>2,
           \/ f.kind \in PassedOn \/ f.kind = "parens" \/ (f.kind = "var_decl" /\ Len(f.kids) = 1)
<1>4. Len(s) = 1 /\ f.kids[1] \in DOMAIN w.level
  BY ONLY <1>3, s = f.kids DEF One, Fit
<1>5. 1 \in DOMAIN s
  BY ONLY <1>2, <1>4
<1> QED BY ONLY <1>1, <1>4, <1>5, s = f.kids

(* Parentheses are put around what was parsed, or a declaration around its *)
(* one variable.                                                           *)
LEMMA NestedCloses ==
    ASSUME Inv, Inv', Nested, Going, top.todo = <<>>, Stay, NEW f, f = top, NEW k, k = f.kids[1],
           Return(k), f.kind = "parens" \/ (f.kind = "var_decl" /\ Len(f.kids) = 1),
           nodes' = [nodes EXCEPT ![k] = [nodes[k] EXCEPT !.from = f.from, !.to = at - 1,
                        !.closed = IF f.kind = "parens" THEN nodes[k].closed + 1
                                   ELSE nodes[k].closed]]
    PROVE  Nested'
<1> PICK o : o = nodes[k]
  OBVIOUS
<1> PICK h : h = at - 1
  OBVIOUS
<1> PICK c : c = IF f.kind = "parens" THEN nodes[k].closed + 1 ELSE nodes[k].closed
  OBVIOUS
<1> PICK b : b = f.from
  OBVIOUS
<1> PICK u : u = [o EXCEPT !.from = b, !.to = h, !.closed = c]
  OBVIOUS
<1> PICK ns : ns = nodes
  OBVIOUS
<1> PICK ms : ms = nodes'
  OBVIOUS
<1> PICK y : y = IF Len(goals) = 1 THEN NoType ELSE goals[2].type
  OBVIOUS
<1>1. ms = Put(ns, k, u)
  BY ONLY o = nodes[k], h = at - 1, b = f.from, u = [o EXCEPT !.from = b, !.to = h, !.closed = c],
          c = IF f.kind = "parens" THEN nodes[k].closed + 1 ELSE nodes[k].closed,
          ns = nodes, ms = nodes',
          nodes' = [nodes EXCEPT ![k] = [nodes[k] EXCEPT !.from = f.from, !.to = at - 1,
                        !.closed = IF f.kind = "parens" THEN nodes[k].closed + 1
                                   ELSE nodes[k].closed]]
     DEF Put
<1>2. 1 \in DOMAIN f.kids /\ k # 0
  BY ONLY Inv, Going, top.todo = <<>>, f = top, k = f.kids[1],
          f.kind = "parens" \/ (f.kind = "var_decl" /\ Len(f.kids) = 1), OneKid
<1>3. /\ k \in DOMAIN ns /\ b <= o.from /\ o.to < at
      /\ \A m \in DOMAIN ns : \A j \in DOMAIN ns[m].kids : ns[m].kids[j] # k
      /\ \A i \in DOMAIN goals : i # 1 =>
            \A j \in DOMAIN goals[i].kids : goals[i].kids[j] # 0 => goals[i].kids[j] < k
  BY ONLY Inv, Nested, Going, f = top, k = f.kids[1], <1>2, ns = nodes, o = nodes[k], b = f.from,
          KidIsFree
<1>4. /\ Placed(ns) /\ Calls(goals, ns) /\ at \in Int /\ IsCall(f, ns)
  BY ONLY Inv, Going, f = top, ns = nodes, Grounds
<1>5. /\ DOMAIN ns = 1 .. Len(ns) /\ Len(ns) \in Nat /\ o.to \in Int /\ o.from \in Int /\ b \in Int
  BY ONLY <1>3, <1>4, ns = nodes, o = nodes[k], b = f.from DEF Placed, IsCall
<1>6. Placed(ms)
  <2>1. Held(ms, toks', at')
    BY ONLY Inv', ms = nodes' DEF Inv
  <2> QED BY ONLY <2>1, HeldPlaces
<1>7. u.from = b /\ u.to = h /\ u.kids = o.kids /\ h \in Int /\ o.to <= h /\ h < at
  <2>1. o = [kind |-> o.kind, tok |-> o.tok, from |-> o.from, to |-> o.to, kids |-> o.kids,
             type |-> o.type, closed |-> o.closed, value |-> o.value]
    <3>1. Held(nodes, toks, at) /\ k \in DOMAIN nodes
      BY ONLY Inv, <1>3, ns = nodes DEF Inv
    <3>2. IsNode(o, k - 1, at)
      BY ONLY <3>1, HeldSound, o = nodes[k]
    <3> QED BY ONLY <3>2 DEF IsNode
  <2>2. u.from = b /\ u.to = h /\ u.kids = o.kids
    BY ONLY <2>1, u = [o EXCEPT !.from = b, !.to = h, !.closed = c]
  <2>3. h \in Int /\ o.to <= h /\ h < at
    BY ONLY <1>3, <1>4, <1>5, h = at - 1
  <2> QED BY ONLY <2>2, <2>3
<1>8. /\ DOMAIN ms = DOMAIN ns /\ ms[k] = u /\ \A m \in DOMAIN ns : m # k => ms[m] = ns[m]
  BY ONLY <1>1, <1>3 DEF Put
<1>9. Len(ms) = Len(ns)
  <2> PICK l : l = Len(ms)
    OBVIOUS
  <2> PICK n : n = Len(ns)
    OBVIOUS
  <2>1. 1 .. l = 1 .. n /\ l \in Nat /\ n \in Nat
    BY ONLY <1>5, <1>6, <1>8, l = Len(ms), n = Len(ns) DEF Placed
  <2>2. l = n
    BY ONLY <2>1
  <2> QED BY ONLY <2>2, l = Len(ms), n = Len(ns)
<1>10. Widens(ns, ms, k)
  BY ONLY <1>3, <1>5, <1>7, <1>8, <1>9, ns = nodes, o = nodes[k] DEF Widens
<1>11. Nest(ms)
  BY ONLY <1>4, <1>10, Nested, ns = nodes, WidenedNest DEF Nested
<1>12. ASSUME NEW i \in DOMAIN goals, i # 1 PROVE Own(goals[i], Bound(goals, i, at), ms)
  <2>1. IsCall(goals[i], ns)
    BY ONLY <1>4, i \in DOMAIN goals DEF Calls
  <2>2. Own(goals[i], Bound(goals, i, at), ns)
    BY ONLY Nested, i \in DOMAIN goals, ns = nodes DEF Nested, Laid
  <2>3. \A j \in DOMAIN goals[i].kids : goals[i].kids[j] # k
    <3>1. k \in Int
      BY ONLY <1>3, <1>5
    <3> QED BY ONLY <1>2, <1>3, <3>1, i \in DOMAIN goals, i # 1
  <2> QED BY ONLY <1>4, <1>10, <2>1, <2>2, <2>3, WidenedOwn
<1>13. /\ k \in DOMAIN ms /\ f.from <= ms[k].from /\ ms[k].to < at'
       /\ \A m \in DOMAIN ms : \A j \in DOMAIN ms[m].kids : ms[m].kids[j] # k
  <2>1. at' = at
    BY ONLY Stay DEF Stay
  <2>2. f.from <= ms[k].from
    BY ONLY <1>5, <1>7, <1>8, b = f.from
  <2>3. \A m \in DOMAIN ns : ms[m].kids = ns[m].kids
    BY ONLY <1>7, <1>8, ns = nodes, o = nodes[k]
  <2> QED BY ONLY <1>3, <1>7, <1>8, <2>1, <2>2, <2>3
<1>14. Returns(k, y)
  BY ONLY Return(k), y = IF Len(goals) = 1 THEN NoType ELSE goals[2].type DEF Return
<1>15. Len(nodes) <= Len(ms)
  BY ONLY <1>5, <1>9, ns = nodes
<1> QED BY ONLY Inv, Inv', Nested, Going, Stay, ms = nodes', f = top, <1>3, <1>11, <1>12, <1>13,
                <1>14, <1>15, NestedReturns

LEMMA FunctionNests ==
    ASSUME Inv, Inv', Nested, FunctionReturn
    PROVE  Nested'
<1> PICK f : f = top
  OBVIOUS
<1> PICK k : k = f.kids[1]
  OBVIOUS
<1> PICK y : y = IF Len(goals) = 1 THEN NoType ELSE goals[2].type
  OBVIOUS
<1>1. /\ Going /\ top.todo = <<>> /\ Stay
      /\ \/ f.kind \in PassedOn /\ Return(k) /\ UNCHANGED nodes
         \/ f.kind = "declarator" /\ Return(0) /\ UNCHANGED nodes
         \/ /\ (f.kind = "parens" \/ (f.kind = "var_decl" /\ Len(f.kids) = 1))
            /\ Return(k)
            /\ nodes' = [nodes EXCEPT ![k] = [nodes[k] EXCEPT !.from = f.from, !.to = at - 1,
                        !.closed = IF f.kind = "parens" THEN nodes[k].closed + 1
                                   ELSE nodes[k].closed]]
  BY ONLY FunctionReturn, f = top, k = f.kids[1] DEF FunctionReturn
<1>2. CASE f.kind \in PassedOn /\ Return(k) /\ UNCHANGED nodes
  <2>1. 1 \in DOMAIN top.kids /\ k = top.kids[1]
    BY ONLY Inv, <1>1, <1>2, f = top, k = f.kids[1], OneKid
  <2>2. Returns(k, y)
    BY ONLY <1>2, y = IF Len(goals) = 1 THEN NoType ELSE goals[2].type DEF Return
  <2> QED BY ONLY Inv, Inv', Nested, <1>1, <1>2, <2>1, <2>2, NestedPasses
<1>3. CASE f.kind = "declarator" /\ Return(0) /\ UNCHANGED nodes
  <2>1. Returns(0, y)
    BY ONLY <1>3, y = IF Len(goals) = 1 THEN NoType ELSE goals[2].type DEF Return
  <2> QED BY ONLY Inv, Inv', Nested, <1>1, <1>3, <2>1, NestedPasses
<1>4. CASE /\ (f.kind = "parens" \/ (f.kind = "var_decl" /\ Len(f.kids) = 1))
            /\ Return(k)
            /\ nodes' = [nodes EXCEPT ![k] = [nodes[k] EXCEPT !.from = f.from, !.to = at - 1,
                        !.closed = IF f.kind = "parens" THEN nodes[k].closed + 1
                                   ELSE nodes[k].closed]]
  BY ONLY Inv, Inv', Nested, <1>1, <1>4, f = top, k = f.kids[1], NestedCloses
<1> QED BY ONLY <1>1, <1>2, <1>3, <1>4

(* The new node takes the kids of the call that built it.                  *)
LEMMA NodeNests ==
    ASSUME Inv, Inv', Nested, NodeReturn
    PROVE  Nested'
<1> PICK f : f = top
  OBVIOUS
<1> PICK ns : ns = nodes
  OBVIOUS
<1> PICK ms : ms = nodes'
  OBVIOUS
<1> PICK n : n = Len(nodes) + 1
  OBVIOUS
<1>1. /\ Going /\ Stay
      /\ \E k, t : new_node(k, t)
      /\ \E y : Returns(n, y)
  BY ONLY NodeReturn, n = Len(nodes) + 1, Zenon DEF NodeReturn, Return
<1>2. /\ Placed(ns) /\ Calls(goals, ns) /\ at \in Int /\ IsCall(f, ns) /\ goals[1] = f
      /\ 1 \in DOMAIN goals /\ f.from <= at
  BY ONLY Inv, <1>1, f = top, ns = nodes, Grounds
<1>3. DOMAIN ns = 1 .. Len(ns) /\ Len(ns) \in Nat
  BY ONLY <1>2 DEF Placed
<1>4. PICK k, t : new_node(k, t)
  BY ONLY <1>1
<1>5. PICK u : ms = Append(ns, u) /\ u.kids = f.kids /\ u.from = f.from /\ u.to = at - 1
  <2> PICK d : d = Value(k, IF k \in {"INT_LIT", "CHAR_LIT", "STR_LIT"}
                               THEN Literals[toks[t]].text ELSE <<>>)
    OBVIOUS
  <2> PICK z : z = TypeOf(f)
    OBVIOUS
  <2> PICK h : h = at - 1
    OBVIOUS
  <2> PICK u : u = [kind |-> k, tok |-> t, from |-> f.from, to |-> h, kids |-> f.kids,
                    type |-> z, closed |-> 0, value |-> d]
    OBVIOUS
  <2>1. ms = Append(ns, u)
    BY ONLY <1>4, f = top, ns = nodes, ms = nodes', z = TypeOf(f), h = at - 1,
            d = Value(k, IF k \in {"INT_LIT", "CHAR_LIT", "STR_LIT"}
                               THEN Literals[toks[t]].text ELSE <<>>),
            u = [kind |-> k, tok |-> t, from |-> f.from, to |-> h, kids |-> f.kids,
                 type |-> z, closed |-> 0, value |-> d]
       DEF new_node
  <2>2. u.kids = f.kids /\ u.from = f.from /\ u.to = h
    BY ONLY u = [kind |-> k, tok |-> t, from |-> f.from, to |-> h, kids |-> f.kids,
                 type |-> z, closed |-> 0, value |-> d]
  <2> QED BY ONLY <2>1, <2>2, h = at - 1
<1>6. Placed(ms)
  <2>1. Held(ms, toks', at')
    BY ONLY Inv', ms = nodes' DEF Inv
  <2> QED BY ONLY <2>1, HeldPlaces
<1>7. /\ DOMAIN ms = 1 .. (Len(ns) + 1) /\ Len(ms) = Len(ns) + 1 /\ ms[Len(ns) + 1] = u
      /\ \A m \in DOMAIN ns : ms[m] = ns[m]
  <2> PICK S : S = Elements(ns) \cup {u}
    OBVIOUS
  <2>1. ns \in Seq(S) /\ u \in S
    <3> PICK T : T = Elements(ns)
      OBVIOUS
    <3>1. ns \in Seq(T)
      <4>1. IsSeq(ns)
        BY ONLY Inv, ns = nodes, HeldSound DEF Inv
      <4> QED BY ONLY <4>1, T = Elements(ns) DEF IsSeq
    <3>2. T \subseteq S /\ u \in S
      BY ONLY T = Elements(ns), S = Elements(ns) \cup {u}
    <3>3. ns \in Seq(S)
      BY ONLY <3>1, <3>2, Wider
    <3> QED BY ONLY <3>2, <3>3
  <2>2. /\ Len(ms) = Len(ns) + 1 /\ ms[Len(ns) + 1] = u /\ \A m \in 1 .. Len(ns) : ms[m] = ns[m]
    BY ONLY <2>1, <1>5, AppendProperties
  <2>3. DOMAIN ms = 1 .. Len(ms)
    BY ONLY <1>6 DEF Placed
  <2> QED BY ONLY <2>2, <2>3, <1>3
<1>8. Builds(ns, ms, f, at)
  BY ONLY <1>5, <1>7 DEF Builds
<1>9. Nest(ns) /\ Laid(goals, ns, at)
  BY ONLY Nested, ns = nodes DEF Nested
<1>10. Own(f, at, ns)
  <2>1. Bound(goals, 1, at) = at
    BY DEF Bound
  <2> QED BY ONLY <1>2, <1>9, <2>1 DEF Laid
<1>11. Nest(ms)
  BY ONLY <1>2, <1>8, <1>9, <1>10, BuiltNest
<1>12. ASSUME NEW i \in DOMAIN goals, i # 1 PROVE Own(goals[i], Bound(goals, i, at), ms)
  <2>1. IsCall(goals[i], ns) /\ 1 < i
    <3> PICK S : S = Elements(goals)
      OBVIOUS
    <3>1. goals \in Seq(S) /\ IsCall(goals[i], ns)
      BY ONLY <1>2, i \in DOMAIN goals, S = Elements(goals) DEF Calls, IsSeq
    <3>2. i \in 1 .. Len(goals) /\ Len(goals) \in Nat
      BY ONLY <3>1, i \in DOMAIN goals
    <3> QED BY ONLY <3>1, <3>2, i # 1
  <2>2. Own(goals[i], Bound(goals, i, at), ns) /\ Older(goals[i], f)
    BY ONLY <1>2, <1>9, <2>1, i \in DOMAIN goals DEF Laid
  <2> QED BY ONLY <1>2, <1>8, <2>1, <2>2, BuiltOwn
<1>13. ASSUME NEW m \in DOMAIN ms, NEW j \in DOMAIN ms[m].kids PROVE ms[m].kids[j] # n
  <2> PICK s : s = ms[m].kids
    OBVIOUS
  <2>1. s \in Seq(0 .. (m - 1)) /\ m \in 1 .. n /\ n \in Int
    BY ONLY <1>3, <1>6, <1>7, m \in DOMAIN ms, n = Len(nodes) + 1, ns = nodes, s = ms[m].kids
       DEF Placed
  <2>2. s[j] \in 0 .. (m - 1)
    BY ONLY <2>1, j \in DOMAIN ms[m].kids, s = ms[m].kids
  <2>3. s[j] # n
    BY ONLY <2>1, <2>2
  <2> QED BY ONLY <2>3, s = ms[m].kids
<1>14. ASSUME NEW i \in DOMAIN goals, NEW j \in DOMAIN goals[i].kids, goals[i].kids[j] # 0
       PROVE  goals[i].kids[j] < n
  <2> PICK s : s = goals[i].kids
    OBVIOUS
  <2>1. s \in Seq(0 .. Len(ns))
    BY ONLY <1>2, i \in DOMAIN goals, s = goals[i].kids DEF Calls, IsCall
  <2>2. s[j] \in 0 .. Len(ns)
    BY ONLY <2>1, j \in DOMAIN goals[i].kids, s = goals[i].kids
  <2>3. s[j] < n
    BY ONLY <2>2, <1>3, n = Len(nodes) + 1, ns = nodes
  <2> QED BY ONLY <2>3, s = goals[i].kids
<1>15. n \in DOMAIN ms /\ n # 0 /\ f.from <= ms[n].from /\ ms[n].to < at' /\ Len(nodes) <= Len(ms)
  <2>1. at' = at
    BY ONLY <1>1 DEF Stay
  <2>2. f.from \in Int
    BY ONLY <1>2 DEF IsCall
  <2>3. ms[n].from = f.from /\ ms[n].to = at - 1 /\ n \in DOMAIN ms /\ n # 0
    BY ONLY <1>3, <1>5, <1>7, n = Len(nodes) + 1, ns = nodes
  <2>4. Len(nodes) <= Len(ms)
    BY ONLY <1>3, <1>7, ns = nodes
  <2> QED BY ONLY <1>2, <2>1, <2>2, <2>3, <2>4
<1>16. PICK y : Returns(n, y)
  BY ONLY <1>1
<1> QED BY ONLY Inv, Inv', Nested, <1>1, ms = nodes', f = top, <1>11, <1>12, <1>13, <1>14, <1>15,
                <1>16, NestedReturns

LEMMA NextNests ==
    ASSUME Inv, Inv', Nested, [Next]_vars
    PROVE  Nested'
<1>1. CASE Next
  BY ONLY Inv, Inv', Nested, <1>1, StandardNests, DeclarationNests, StatementNests,
          ExpressionNests, FunctionNests, NodeNests DEF Next
<1>2. CASE UNCHANGED vars
  <2>1. nodes' = nodes /\ goals' = goals /\ at' = at
    BY ONLY <1>2 DEF vars
  <2> QED BY ONLY Nested, <2>1 DEF Nested
<1> QED BY ONLY [Next]_vars, <1>1, <1>2

LEMMA InitNests ==
    ASSUME Init
    PROVE  Nested
<1> PICK f : f = [kind |-> "TRANSLATION_UNIT", from |-> 1, at |-> 1, kids |-> <<>>,
                  todo |-> Steps("TRANSLATION_UNIT"), type |-> NoType, min |-> 0]
  OBVIOUS
<1>1. goals = <<f>> /\ nodes = <<>> /\ f.kids = <<>>
  BY ONLY Init, f = [kind |-> "TRANSLATION_UNIT", from |-> 1, at |-> 1, kids |-> <<>>,
                  todo |-> Steps("TRANSLATION_UNIT"), type |-> NoType, min |-> 0] DEF Init
<1>2. Nest(nodes)
  BY ONLY <1>1 DEF Nest
<1>3. DOMAIN goals = {1} /\ goals[1] = f
  BY ONLY <1>1
<1>4. Laid(goals, nodes, at)
  BY ONLY <1>1, <1>3, PartNone DEF Laid
<1> QED BY ONLY <1>2, <1>4 DEF Nested

LEMMA NestedIs == Nested => TreesNest
<1> SUFFICES ASSUME Nest(nodes) PROVE TreesNest
  BY DEF Nested
<1> SUFFICES ASSUME NEW n \in DOMAIN nodes, NEW i \in DOMAIN nodes[n].kids, nodes[n].kids[i] # 0
             PROVE  /\ nodes[n].from <= nodes[nodes[n].kids[i]].from
                    /\ nodes[nodes[n].kids[i]].to <= nodes[n].to
                    /\ \A j \in DOMAIN nodes[n].kids : i < j /\ nodes[n].kids[j] # 0 =>
                        nodes[nodes[n].kids[i]].to < nodes[nodes[n].kids[j]].from
                    /\ \A m \in DOMAIN nodes \ {n} : nodes[n].kids[i] \notin Range(nodes[m].kids)
  BY DEF TreesNest
<1>1. /\ nodes[n].from <= nodes[nodes[n].kids[i]].from /\ nodes[nodes[n].kids[i]].to <= nodes[n].to
      /\ \A j \in DOMAIN nodes[n].kids :
          i < j /\ nodes[n].kids[j] # 0 => nodes[nodes[n].kids[i]].to < nodes[nodes[n].kids[j]].from
      /\ \A m \in DOMAIN nodes : m # n =>
          \A j \in DOMAIN nodes[m].kids : nodes[m].kids[j] # nodes[n].kids[i]
  BY DEF Nest
<1>2. \A m \in DOMAIN nodes \ {n} : nodes[n].kids[i] \notin Range(nodes[m].kids)
  BY ONLY <1>1 DEF Range
<1> QED BY ONLY <1>1, <1>2

(* In every state, also while parsing goes on, the nodes built are trees   *)
(* over the source of a file of any length: the kids of a node are         *)
(* disjoint pieces of it in its order, and a node is a kid of one node     *)
(* only, though parentheses and declarations widen nodes that were         *)
(* finished and the operators take what was parsed for their operand.      *)
THEOREM ParserNests == Spec => []TreesNest
<1>1. Init => Inv /\ Nested
  BY InitInv, InitNests
<1>2. (Inv /\ Nested) /\ [Next]_vars => (Inv /\ Nested)'
  <2> SUFFICES ASSUME Inv, Nested, [Next]_vars PROVE Inv' /\ Nested'
    OBVIOUS
  <2>1. Inv'
    BY ONLY Inv, [Next]_vars, NextInv
  <2>2. Nested'
    BY ONLY Inv, Nested, [Next]_vars, <2>1, NextNests
  <2> QED BY ONLY <2>1, <2>2
<1>3. Inv /\ Nested => TreesNest
  BY NestedIs
<1> QED BY <1>1, <1>2, <1>3, PTL DEF Spec

=============================================================================
