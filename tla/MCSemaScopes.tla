---------------------------- MODULE MCSemaScopes ----------------------------
(***************************************************************************)
(* Small translation units for SemaScopes: globals x and f, a function     *)
(* with every small body, and a second function after it.                  *)
(***************************************************************************)
EXTENDS SemaScopes

CONSTANTS
    WideSize,  \* statements of a body over all forms
    DeepSize,  \* statements of a body over the scopes, declarations and uses
    GroupSize, \* statements of a body with declarations of several variables
    Only       \* kinds the bodies are restricted to

Tree == INSTANCE Trees

Read(x) == [callee |-> NotNamed, args |-> <<x>>]
Call(f, args) == [callee |-> f, args |-> args]

Form(kind, es) == [kind |-> kind, exprs |-> es, name |-> NotNamed, type |-> Type("void")]
Var(x, kind, es) == [Form("var", es) EXCEPT !.name = x, !.type = Type(kind)]

WideForms == {f \in
    {Var("x", "char", <<>>), Var("y", "int", <<Read("y")>>), Var("y", "array", <<>>),
     Form("expr", <<Read("x")>>), Form("expr", <<Call("f", <<"x", "y">>)>>),
     Form("expr", <<Call("f", <<"str", "x">>)>>), Form("return", <<Call("x", <<"0">>)>>),
     Form("for", <<Read("x"), Read("'c'"), Read("y")>>), Form("while", <<Read("x")>>),
     Form("switch", <<Read("x")>>), Form("compound", <<>>), Form("group", <<>>),
     Form("if", <<Read("x")>>)}
    : f.kind \in Only}

DeepForms == {f \in
    {Var("x", "int", <<Read("x")>>), Form("expr", <<Read("x")>>), Form("compound", <<>>),
     Form("group", <<>>), Form("for", <<Read("0")>>), Form("label", <<>>)} : f.kind \in Only}

(* Declarations of several variables, w declared nowhere else.             *)
GroupForms == {f \in
    {Var("w", "int", <<>>), Var("x", "int", <<Read("w")>>), Form("expr", <<Read("w")>>),
     Form("group", <<>>)} : f.kind \in Only}

Sorted(F) ==
    [leaf   |-> {f \in F : f.kind \in {"var", "expr", "return"}},
     one    |-> {f \in F : f.kind \in {"for", "while", "switch", "label"}},
     branch |-> {f \in F : f.kind = "if"},
     list   |-> {f \in F : f.kind \in {"compound", "group"}}]

ToBody(s) ==
    LET b == Tree!Over(Form("compound", <<>>), s)
        n == Len(b)
    IN [n |-> n,
        par   |-> [i \in 1 .. n |-> b[i].p],
        kind  |-> [i \in 1 .. n |-> b[i].form.kind],
        name  |-> [i \in 1 .. n |-> b[i].form.name],
        type  |-> [i \in 1 .. n |-> b[i].form.type],
        exprs |-> [i \in 1 .. n |-> b[i].form.exprs]]

(* Bodies whose groups are two variables or more.                          *)
Bodies(n, F) == {b \in {ToBody(s) : s \in Tree!Forests(n, Sorted(F))} : Body(b)}

Grouped(b) == \E m \in Nodes(b) : b.kind[m] = "group"

Entry(x, t) == [name |-> x, type |-> t]
Decl(entries) ==
    [kind |-> "decl", name |-> NotNamed, params |-> <<>>, entries |-> entries, body |-> [n |-> 0]]
Def(f, params, b) ==
    [kind |-> "func", name |-> f, params |-> params, entries |-> <<>>, body |-> b]

Ordinary(b) ==
    {<<Decl(<<Entry("x", Type("int")), Entry("f", Func(<<"int">>))>>),
       Def("main", <<Entry("y", Type("int"))>>, b),
       Def("g", <<Entry("x", Type("char")), Entry("z", Type("int"))>>,
           ToBody(<<[form |-> Form("expr", <<Call("main", <<"z">>)>>), p |-> 0]>>))>>}

(* Duplicate names, names that are declared later, parameters without one. *)
Odd(b) ==
    {<<Def("main", <<Entry(NotNamed, Type("int")), Entry("y", Type("char")), Entry("y", Type("int"))>>, b),
       Decl(<<Entry("x", Type("array"))>>),
       Decl(<<Entry("x", Type("int"))>>),
       Def("f", <<Entry("x", Type("int"))>>, ToBody(<<>>))>>}

MCPrograms ==
    UNION {Ordinary(b) : b \in Bodies(WideSize, WideForms) \cup Bodies(DeepSize, DeepForms)
                                \cup {g \in Bodies(GroupSize, GroupForms) : Grouped(g)}}
      \cup UNION {Odd(b) : b \in Bodies(2, WideForms)}

=============================================================================
