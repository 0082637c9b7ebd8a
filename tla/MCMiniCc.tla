------------------------------ MODULE MCMiniCc ------------------------------
(* Small files for mini-cc, as the cursors libclang shows for them.         *)
EXTENDS MiniCc

C(k, v, kids) == [k |-> k, v |-> v, kids |-> kids, init |-> 0]
Var(v, kids, init) == [k |-> "VarDecl", v |-> v, kids |-> kids, init |-> init]

Lit(n) == C("IntegerLiteral", n, <<>>)
Name(v) == C("DeclRefExpr", v, <<>>)
Read(v) == C("UnexposedExpr", "", <<Name(v)>>)   \* lvalue to rvalue
Convert(e) == C("UnexposedExpr", "char", <<e>>)  \* as in char x = a;
Bin(op, l, r) == C("BinaryOperator", op, <<l, r>>)
Assign == Bin("=", Name("a"), Lit("2"))
Fun(args) == C("CallExpr", "g", <<Read("g")>> \o args)
Chr == C("CharacterLiteral", "c", <<>>)

Exprs ==
    {Lit("1"), Read("a"), Read("b"), Read("z"), Convert(Read("b")), Chr, Assign,
     C("ParenExpr", "", <<Lit("2")>>), C("ParenExpr", "", <<Bin(">", Read("a"), Lit("1"))>>),
     C("UnaryOperator", "-", <<Lit("1")>>), C("UnaryOperator", "!", <<Read("a")>>),
     C("UnaryOperator", "~", <<Read("a")>>), C("UnaryOperator", "!", <<Chr>>),
     Bin("+", Read("a"), Bin("*", Lit("1"), Read("b"))), Bin("&", Read("a"), Lit("1")),
     Bin("+", Chr, Lit("1")), Fun(<<>>), Fun(<<Read("a"), Lit("1")>>), Fun(<<Lit("1"), Chr>>)}

Ret(e) == C("ReturnStmt", "", <<e>>)
Decl(vars) == C("DeclStmt", "", vars)
Block(s) == C("CompoundStmt", "", s)
If(e, s) == C("IfStmt", "", <<e>> \o s)
While(e, s) == C("WhileStmt", "", <<e, s>>)
For == C("ForStmt", "", <<Block(<<>>)>>)
Empty == C("NullStmt", "", <<>>)

Few == {Lit("1"), Read("a"), Bin(">", Read("a"), Lit("1")), Chr, Convert(Read("a"))}

Stmts ==
    {Ret(e) : e \in Exprs} \cup Exprs
    \cup {If(e, <<Ret(Lit("1"))>>) : e \in Few} \cup {While(e, Assign) : e \in Few}
    \cup {Decl(<<Var("x", <<e>>, 1)>>) : e \in Few}
    \cup {C("ReturnStmt", "", <<>>), For, Empty, Block(<<>>), Block(<<For, Ret(Lit("1"))>>),
          If(Read("a"), <<Empty, Block(<<Assign, Ret(Read("b"))>>)>>),
          While(Read("a"), Block(<<Decl(<<Var("x", <<>>, 0)>>), Assign>>)),
          Decl(<<Var("x", <<Lit("3")>>, 0)>>),                     \* int x[3];
          Decl(<<Var("x", <<C("TypeRef", "t", <<>>), Lit("1")>>, 2)>>),
          Decl(<<Var("x", <<>>, 0), Var("y", <<Lit("1")>>, 1)>>)}

Kernel == {Ret(Lit("1")), Ret(Read("b")), Ret(Bin("+", Read("a"), Lit("1"))), Assign, For, Empty,
           Decl(<<Var("x", <<>>, 0)>>), Decl(<<Var("x", <<>>, 0), Var("y", <<>>, 0)>>),
           If(Bin(">", Read("a"), Lit("1")), <<Assign>>), If(Read("a"), <<Assign, Ret(Lit("2"))>>)}

Bodies == {<<>>} \cup {<<s>> : s \in Stmts} \cup {<<s, Ret(Lit("1"))>> : s \in Stmts}
          \cup (Kernel \X Kernel) \cup (Kernel \X Kernel \X Kernel)

(* The types are those of the result and of the parameters.                *)
Definition(name, params, body) ==
    [k |-> "FunctionDecl", v |-> name, params |-> params, kids |-> <<Block(body)>>, main |-> TRUE,
     types |-> [t \in 1..Len(params) + 1 |-> "int"]]
Prototype(name) == [Definition(name, <<"a">>, <<>>) EXCEPT !.kids = <<>>]
Global == [Prototype("v") EXCEPT !.k = "VarDecl"]

Tops(name) ==
    {Prototype(name), Definition(name, <<"a", "b">>, <<Ret(Read("b"))>>),
     Definition(name, <<>>, <<Ret(Lit("1"))>>), Definition(name, <<"a">>, <<Ret(Read("z"))>>),
     Definition(name, <<"", "a", "">>, <<Empty, Ret(Read("a"))>>), Definition(name, <<>>, <<For>>),
     [Definition(name, <<"s">>, <<Ret(Read("s"))>>) EXCEPT !.types = <<"char *", "char *">>],
     [Definition(name, <<>>, <<Ret(Lit("2"))>>) EXCEPT !.main = FALSE]}

Files == {<<Definition("f", <<"a", "b">>, b)>> : b \in Bodies}
         \cup {<<x, Global, y, z>> : x \in Tops("f"), y \in Tops("g"), z \in Tops("h")}
         \cup {<<>>}

MCNames == {"f", "g", "h"}
MCImmediates == {"1", "2"}
MCSources == {[tops |-> t, parse |-> "ok"] : t \in Files}
             \cup {[tops |-> <<>>, parse |-> p] : p \in {"errors", "unreadable"}}
MCArgLists == {<<"file">>, <<"--ast", "file">>, <<"file", "--emit-obj">>, <<"file", "-?">>,
               <<"--ast">>}
MCPrograms == {top_level_visitor(t) : t \in Files}
=============================================================================
