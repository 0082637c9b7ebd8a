----------------------------- MODULE MCQbeStmt -----------------------------
(***************************************************************************)
(* Small function bodies for QbeStmt: every tree of statements up to a     *)
(* number of nodes over a set of statement forms.                          *)
(***************************************************************************)
EXTENDS QbeStmt

Tree == INSTANCE Trees

CONSTANTS
    WideSize,  \* nodes of a body over all statement forms, the root apart
    DeepSize,  \* nodes of a body over the control statements, likewise
    LongSize,  \* nodes of a body with a case behind a full queue, likewise
    Only       \* kinds the bodies are restricted to; all of Kinds for none

(* A form: a statement with its expressions and its name.                  *)
Form(kind, ex) == [kind |-> kind, ex |-> ex, init |-> "none", post |-> "none",
                   name |-> "none", len |-> 4]
ForLoop(init, ex, post) ==
    [Form("for", ex) EXCEPT !.init = init, !.post = post]
Named(kind, name, len) == [Form(kind, "none") EXCEPT !.name = name, !.len = len]

WideForms == {f \in
    {Form("expr", "none"), Form("expr", "reject"), Form("expr", "cond"),
     Form("var", "none"), Form("var", "andor"), Form("return", "unary"),
     Form("break", "none"),
     Named("goto", "a", 1), Named("goto", "b", 1), Named("goto", "cc", 2),
     Named("label", "a", 1), Named("label", "b", 1),
     Form("if", "andor"), Form("while", "cond"), Form("do", "plain"),
     ForLoop("plain", "andor", "cond"),
     Form("switch", "plain"), Form("case", "plain"),
     Form("default", "none"), Form("compound", "none")} : f.kind \in Only}

(* Forms that matter where they occur at all, whatever surrounds them.     *)
RareForms == {f \in
    {Form("break", "none"), Form("continue", "none"), Form("do", "reject"),
     ForLoop("none", "none", "none"), ForLoop("plain", "plain", "reject"),
     ForLoop("reject", "none", "none"), Form("switch", "cond"),
     Form("case", "reject"), Form("if", "unary")} : f.kind \in Only}

DeepForms == {f \in
    {Form("break", "none"), Form("continue", "none"),
     Form("if", "plain"), Form("while", "plain"),
     ForLoop("none", "plain", "none"), Form("switch", "plain"),
     Form("case", "andor")} : f.kind \in Only}

LongForms == {f \in
    {Form("expr", "none"), Form("switch", "plain"),
     Form("case", "plain")} : f.kind \in Only}

Sorted(F) ==
    [leaf   |-> {f \in F : f.kind \in Leaves},
     one    |-> {f \in F : f.kind \in Single},
     branch |-> {f \in F : f.kind = "if"},
     list   |-> {f \in F : f.kind \in Lists}]

AllForests(n, F) == Tree!Forests(n, Sorted(F))

ToBody(s) ==
    LET b == Tree!Over(Form("compound", "none"), s)
        n == Len(b)
    IN [n |-> n,
        par  |-> [i \in 1 .. n |-> b[i].p],
        kind |-> [i \in 1 .. n |-> b[i].form.kind],
        ex   |-> [i \in 1 .. n |-> b[i].form.ex],
        init |-> [i \in 1 .. n |-> b[i].form.init],
        post |-> [i \in 1 .. n |-> b[i].form.post],
        name |-> [i \in 1 .. n |-> b[i].form.name],
        len  |-> [i \in 1 .. n |-> b[i].form.len]]

(* A case that the prepass queue of its switch has no room for.            *)
LateCase(a) ==
    \E n \in Nodes(a) :
        /\ a.kind[n] = "switch"
        /\ \E m \in Walked(a, n) \ Queued(a, n) : IsCase(a, m)

LongBodies == {a \in {ToBody(s) : s \in AllForests(LongSize, LongForms)} : LateCase(a)}

MCAsts == {ToBody(s) : s \in AllForests(WideSize, WideForms)
                             \cup AllForests(2, RareForms)
                             \cup AllForests(DeepSize, DeepForms)}
              \cup LongBodies

=============================================================================
