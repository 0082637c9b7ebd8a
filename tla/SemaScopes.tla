----------------------------- MODULE SemaScopes -----------------------------
(***************************************************************************)
(* Name resolution in the QBE-based compiler                               *)
(* (qbebasedcompiler/src/sema.c: scopes, declarations, lookups, the walk   *)
(* over the statements and the two passes of sema_program) and the names   *)
(* qbe_emit prints for what it resolved (qbe.c): a symbol's number becomes *)
(* the QBE temporary %v<number>.                                           *)
(*                                                                         *)
(* The body of a function is a tree whose nodes are numbered in preorder.  *)
(* A group is the compound without braces that the parser makes of a       *)
(* declaration of several variables, int a, b; (parser.c:299-304).         *)
(* The recursion of sema_stmt visits them in that order, but for the       *)
(* subtrees it skips; the calls that are pending are the ancestors of the  *)
(* node visited, and all they have left to do is to leave their scopes.    *)
(*                                                                         *)
(* Of an expression there remain the identifiers it reads, in the order of *)
(* their evaluation, and whether it is a call; of a type its kind.  The    *)
(* conversions that make_cast inserts are left out, but for the one that   *)
(* ends the analysis of a call's arguments; so are pointers to functions   *)
(* (sema.c:168), which no declaration this parser accepts gives a name.    *)
(***************************************************************************)
EXTENDS Integers, Sequences, FiniteSets

CONSTANT Programs  \* the translation units that may be analysed

Type(kind) == [kind |-> kind, params |-> <<>>]
Func(kinds) == [kind |-> "func", params |-> kinds]

(* Literals, by their spelling, next to the names.                         *)
Literals == {"0", "'c'", "str"}
LiteralType(a) ==
    Type(CASE a = "0" -> "int" [] a = "'c'" -> "int" [] a = "str" -> "array")

NotNamed == ""

(* sema_stmt returns at once for these, whatever is below them.            *)
Skipped == {"switch", "case", "default", "label", "break", "continue", "goto"}
Scoping == {"compound", "group", "for"}   \* what sema_stmt enters a scope for
Kinds == Skipped \cup Scoping \cup {"expr", "return", "var", "if", "while", "do"}
Leaves == {"expr", "return", "var", "break", "continue", "goto"}

Nodes(b) == 1 .. b.n

(* a is m or above it; 0 is above every node.  A subtree is an interval of *)
(* the preorder: m is below a if nothing between them hangs from above a.  *)
Ancestor(b, a, m) ==
    a = 0 \/ (m \in a .. b.n /\ \A k \in (a + 1) .. m : b.par[k] >= a)

IsList(s) == s \in Seq({s[k] : k \in DOMAIN s})

Body(b) ==
    /\ b.n \in Nat \ {0}
    /\ b.kind \in [Nodes(b) -> Kinds]
    /\ b.par \in [Nodes(b) -> 0 .. b.n]
    /\ \A m \in Nodes(b) : IF m = 1 THEN b.par[m] = 0 /\ b.kind[m] = "compound"
                           ELSE b.par[m] \in 1 .. (m - 1)
    /\ \A m \in Nodes(b) : m > 1 => Ancestor(b, b.par[m], m - 1)  \* preorder
    /\ \A m \in Nodes(b) : m > 1 => /\ b.kind[b.par[m]] \notin Leaves
                                    /\ b.kind[b.par[m]] = "group" => b.kind[m] = "var"
    /\ \A m \in Nodes(b) : b.kind[m] = "group" =>
          \E j, k \in Nodes(b) : j # k /\ b.par[j] = m /\ b.par[k] = m
    /\ \A m \in Nodes(b) : b.kind[m] \in {"compound", "group"} => b.exprs[m] = <<>>
    /\ \A m \in Nodes(b) : IsList(b.exprs[m]) /\ \A p \in DOMAIN b.exprs[m] :
          LET args == b.exprs[m][p].args
          IN IsList(args) /\ \A k \in DOMAIN args : args[k] # NotNamed

ASSUME SemaAssumption ==
    \A p \in Programs : IsList(p) /\ \A i \in DOMAIN p :
        /\ p[i].kind \in {"func", "decl"}
        /\ IsList(p[i].params) /\ IsList(p[i].entries)
        /\ p[i].kind = "func" => p[i].name # NotNamed /\ Body(p[i].body)

VARIABLES
    status,   \* "pass1", "pass2", "body" (of a function), "done" or "exit"
    prog,
    item,     \* the top-level declaration looked at
    at,       \* the next node of its body to be visited
    scopes,   \* the chain from S->scope, the innermost last
    local_counter,
    global_counter,
    decls,    \* what was declared: [site, id, global]
    refs      \* the identifiers resolved: [use, site, id, global]

vars == <<status, prog, item, at, scopes, local_counter, global_counter, decls, refs>>

It == prog[item]
body == It.body

(* A symbol keeps, for the properties, the place of its declaration:       *)
(* <<item, 0, k>> for a global, <<item, 1, k>> for a parameter,            *)
(* <<item, m, 0>> for the local declared at node m.                        *)
Symbol(name, type, id, global, site) ==
    [name |-> name, type |-> type, qbe_id |-> id, is_global |-> global, site |-> site]

Scope(owner) == [owner |-> owner, symbols |-> <<>>]

-----------------------------------------------------------------------------
sema_enter_scope(ss, owner) == Append(ss, Scope(owner))
sema_leave_scope(ss) == SubSeq(ss, 1, Len(ss) - 1)

Top(ss) == ss[Len(ss)]
Declared(ss, sym) == [ss EXCEPT ![Len(ss)].symbols = Append(@, sym)]

Names(scope) == {scope.symbols[k].name : k \in DOMAIN scope.symbols}
Found(ss, x) == \E i \in DOMAIN ss : x \in Names(ss[i])

(* Faulty: the oldest symbol of the name in that scope.                    *)
LookupOldest(ss, x) ==
    LET i == CHOOSE i \in DOMAIN ss :
                x \in Names(ss[i]) /\ \A j \in DOMAIN ss : j > i => x \notin Names(ss[j])
        syms == ss[i].symbols
    IN syms[CHOOSE k \in DOMAIN syms :
              syms[k].name = x /\ \A l \in DOMAIN syms : l < k => syms[l].name # x]

(* The innermost scope that has the name, and there the newest symbol.     *)
sema_lookup(ss, x) ==
    LET i == CHOOSE i \in DOMAIN ss :
                x \in Names(ss[i]) /\ \A j \in DOMAIN ss : j > i => x \notin Names(ss[j])
        syms == ss[i].symbols
    IN syms[CHOOSE k \in DOMAIN syms :
              syms[k].name = x /\ \A l \in DOMAIN syms : l > k => syms[l].name # x]

HasName(entries) == {k \in DOMAIN entries : entries[k].name # NotNamed}

(* A list of names declared one after the other, from the counter on.      *)
DeclareAll(ss, entries, counter, level) ==
    LET global == level = 0
        site(k) == <<item, level, k>>
        named == HasName(entries)
        before(k) == Cardinality({j \in named : j < k})
        id(k) == counter + before(k)
        symbol(n) == LET k == CHOOSE k \in named : before(k) = n - 1
                     IN Symbol(entries[k].name, entries[k].type, id(k), global, site(k))
    IN [scopes  |-> [ss EXCEPT ![Len(ss)].symbols =
                        @ \o [n \in 1 .. Cardinality(named) |-> symbol(n)]],
        counter |-> counter + Cardinality(named),
        decls   |-> {[site |-> site(k), id |-> id(k), global |-> global] : k \in named}]

(* sema_expr.  In a call the loop over the arguments goes on from what     *)
(* make_cast returns: after an argument that it converts there is no next. *)
IsName(a) == a \notin Literals
TypeOf(ss, a) == IF IsName(a) THEN sema_lookup(ss, a).type ELSE LiteralType(a)
IsCall(e) == e.callee # NotNamed

(* Faulty: the last parameter is not looked at.                            *)
ConvertedButLast(ss, e, k) ==
    LET ps == sema_lookup(ss, e.callee).type.params
    IN k < Len(ps) /\ TypeOf(ss, e.args[k]).kind # ps[k]

Converted(ss, e, k) ==
    LET ps == sema_lookup(ss, e.callee).type.params
    IN k <= Len(ps) /\ TypeOf(ss, e.args[k]).kind # ps[k]

Analysed(ss, e) ==
    {k \in DOMAIN e.args : IsCall(e) => \A j \in 1 .. (k - 1) :
        (IsName(e.args[j]) => Found(ss, e.args[j])) /\ ~Converted(ss, e, j)}

Accepted(ss, e) ==
    /\ IsCall(e) => Found(ss, e.callee) /\ sema_lookup(ss, e.callee).type.kind = "func"
    /\ \A k \in Analysed(ss, e) : IsName(e.args[k]) => Found(ss, e.args[k])

(* A use: <<item, node, expression of the node, argument>>, 0 for a callee.*)
Ref(ss, use, x) ==
    LET sym == sema_lookup(ss, x)
    IN [use |-> use, site |-> sym.site, id |-> sym.qbe_id, global |-> sym.is_global]

sema_expr(ss, m, p) ==
    LET e == body.exprs[m][p]
    IN {Ref(ss, <<item, m, p, k>>, e.args[k]) : k \in {j \in Analysed(ss, e) : IsName(e.args[j])}}
         \cup {Ref(ss, <<item, m, p, 0>>, x) : x \in {e.callee} \ {NotNamed}}

Exprs(m) == DOMAIN body.exprs[m]
AllAccepted(ss, m) == \A p \in Exprs(m) : Accepted(ss, body.exprs[m][p])
Resolve(ss, m) == refs' = refs \cup UNION {sema_expr(ss, m, p) : p \in Exprs(m)}

-----------------------------------------------------------------------------
(* sema_program, pass 1: functions and globals.                            *)
PassOne ==
    /\ status = "pass1" /\ item <= Len(prog)
    /\ LET entries == IF It.kind = "func"
                      THEN <<[name |-> It.name, type |-> Func([k \in DOMAIN It.params |-> It.params[k].type.kind])]>>
                      ELSE It.entries
           d == DeclareAll(scopes, entries, global_counter, 0)
       IN /\ scopes' = d.scopes
          /\ global_counter' = d.counter
          /\ decls' = decls \cup d.decls
    /\ item' = item + 1
    /\ UNCHANGED <<status, prog, at, local_counter, refs>>

BeginPassTwo ==
    /\ status = "pass1" /\ item > Len(prog)
    /\ status' = "pass2"
    /\ item' = 1
    /\ UNCHANGED <<prog, at, scopes, local_counter, global_counter, decls, refs>>

(* Pass 2: the declarators of a global are looked up again ...             *)
PassTwoDecl ==
    /\ status = "pass2" /\ item <= Len(prog) /\ It.kind = "decl"
    /\ refs' = refs \cup {Ref(scopes, <<item, 0, 0, k>>, It.entries[k].name) : k \in HasName(It.entries)}
    /\ item' = item + 1
    /\ UNCHANGED <<status, prog, at, scopes, local_counter, global_counter, decls>>

(* Faulty: the counter is reset after the parameters.                      *)
EnterFunctionRecounts ==
    /\ status = "pass2" /\ item <= Len(prog) /\ It.kind = "func"
    /\ LET d == DeclareAll(sema_enter_scope(scopes, 0), It.params, local_counter, 1)
       IN /\ scopes' = d.scopes
          /\ local_counter' = 0
          /\ decls' = decls \cup d.decls
    /\ status' = "body"
    /\ at' = 1
    /\ UNCHANGED <<prog, item, global_counter, refs>>

(* ... and a function is entered.                                          *)
EnterFunction ==
    /\ status = "pass2" /\ item <= Len(prog) /\ It.kind = "func"
    /\ LET d == DeclareAll(sema_enter_scope(scopes, 0), It.params, 0, 1)
       IN /\ scopes' = d.scopes
          /\ local_counter' = d.counter
          /\ decls' = decls \cup d.decls
    /\ status' = "body"
    /\ at' = 1
    /\ UNCHANGED <<prog, item, global_counter, refs>>

-----------------------------------------------------------------------------
(* sema_stmt.                                                              *)
(* The scope of a statement that is behind us is left before the next one. *)
Leaving == Len(scopes) > 2 /\ ~Ancestor(body, Top(scopes).owner, at)

Visit(kinds) ==
    /\ status = "body" /\ ~Leaving
    /\ at <= body.n
    /\ body.kind[at] \in kinds

After(m) ==
    CHOOSE k \in (m + 1) .. (body.n + 1) :
        /\ ~Ancestor(body, m, k)
        /\ \A j \in (m + 1) .. (k - 1) : Ancestor(body, m, j)

(* A group is a NODE_COMPOUND like any block.                              *)
Compound ==
    /\ Visit({"compound", "group"})
    /\ scopes' = sema_enter_scope(scopes, at)
    /\ at' = at + 1
    /\ UNCHANGED <<status, prog, item, local_counter, global_counter, decls, refs>>

(* Faulty: the numbers of the block are given out again.                   *)
LeaveScopeReuses ==
    /\ status = "body" /\ Leaving
    /\ scopes' = sema_leave_scope(scopes)
    /\ local_counter' = local_counter - Len(Top(scopes).symbols)
    /\ UNCHANGED <<status, prog, item, at, global_counter, decls, refs>>

LeaveScope ==
    /\ status = "body" /\ Leaving
    /\ scopes' = sema_leave_scope(scopes)
    /\ UNCHANGED <<status, prog, item, at, local_counter, global_counter, decls, refs>>

(* The name is declared before its initializer is analysed.                *)
WithVar ==
    Declared(scopes, Symbol(body.name[at], body.type[at], local_counter, FALSE, <<item, at, 0>>))

VarDecl ==
    /\ Visit({"var"}) /\ AllAccepted(WithVar, at)
    /\ scopes' = WithVar
    /\ local_counter' = local_counter + 1
    /\ decls' = decls \cup {[site |-> <<item, at, 0>>, id |-> local_counter, global |-> FALSE]}
    /\ Resolve(WithVar, at)
    /\ at' = at + 1
    /\ UNCHANGED <<status, prog, item, global_counter>>

(* Expression statements and returns; if, while and do before their        *)
(* statements.                                                             *)
Expressions ==
    /\ Visit({"expr", "return", "if", "while", "do"}) /\ AllAccepted(scopes, at)
    /\ Resolve(scopes, at)
    /\ at' = at + 1
    /\ UNCHANGED <<status, prog, item, scopes, local_counter, global_counter, decls>>

For ==
    /\ Visit({"for"}) /\ AllAccepted(scopes, at)
    /\ scopes' = sema_enter_scope(scopes, at)
    /\ Resolve(scopes', at)
    /\ at' = at + 1
    /\ UNCHANGED <<status, prog, item, local_counter, global_counter, decls>>

Skip ==
    /\ Visit(Skipped)
    /\ at' = After(at)
    /\ UNCHANGED <<status, prog, item, scopes, local_counter, global_counter, decls, refs>>

(* "undeclared identifier", "call of non-function": exit(1).               *)
Reject ==
    /\ Visit(Kinds \ Skipped)
    /\ ~AllAccepted(IF body.kind[at] = "var" THEN WithVar ELSE scopes, at)
    /\ status' = "exit"
    /\ UNCHANGED <<prog, item, at, scopes, local_counter, global_counter, decls, refs>>

(* Faulty: the scope of the function stays.                                *)
LeaveFunctionStays ==
    /\ status = "body" /\ ~Leaving /\ at > body.n
    /\ status' = "pass2"
    /\ item' = item + 1
    /\ UNCHANGED <<prog, at, scopes, local_counter, global_counter, decls, refs>>

LeaveFunction ==
    /\ status = "body" /\ ~Leaving /\ at > body.n
    /\ scopes' = sema_leave_scope(scopes)
    /\ status' = "pass2"
    /\ item' = item + 1
    /\ UNCHANGED <<prog, at, local_counter, global_counter, decls, refs>>

(* Faulty: the scope of the file stays.                                    *)
FinishStays ==
    /\ status = "pass2" /\ item > Len(prog)
    /\ status' = "done"
    /\ UNCHANGED <<prog, item, at, scopes, local_counter, global_counter, decls, refs>>

Finish ==
    /\ status = "pass2" /\ item > Len(prog)
    /\ scopes' = sema_leave_scope(scopes)
    /\ status' = "done"
    /\ UNCHANGED <<prog, item, at, local_counter, global_counter, decls, refs>>

Ended == status \in {"done", "exit"} /\ UNCHANGED vars

Init ==
    /\ status = "pass1"
    /\ prog \in Programs
    /\ item = 1 /\ at = 1
    /\ scopes = sema_enter_scope(<<>>, 0)
    /\ local_counter = 0 /\ global_counter = 0
    /\ decls = {} /\ refs = {}

Next ==
    \/ PassOne \/ BeginPassTwo \/ PassTwoDecl \/ EnterFunction
    \/ Compound \/ LeaveScope \/ VarDecl \/ Expressions \/ For \/ Skip \/ Reject
    \/ LeaveFunction \/ Finish \/ Ended

Spec == Init /\ [][Next]_vars

-----------------------------------------------------------------------------
(* What qbe_emit prints for a function: each parameter and each            *)
(* declaration among the statements of its body gets stack space; every    *)
(* identifier, analysed or not, is read through the number in its node,    *)
(* which is 0 until sema.c sets it.                                        *)
Functions == {i \in DOMAIN prog : prog[i].kind = "func"}

Allocated(i) ==
    {<<i, 1, k>> : k \in DOMAIN prog[i].params}
      \cup {<<i, m, 0>> : m \in {m \in Nodes(prog[i].body) :
                prog[i].body.kind[m] = "var" /\ prog[i].body.par[m] = 1}}

SymId(site) ==
    IF \E d \in decls : d.site = site
    THEN (CHOOSE d \in decls : d.site = site).id ELSE 0

Uses(i) ==
    UNION {UNION {{<<i, m, p, k>> : k \in
                      {j \in DOMAIN prog[i].body.exprs[m][p].args :
                          IsName(prog[i].body.exprs[m][p].args[j])}
                        \cup (IF IsCall(prog[i].body.exprs[m][p]) THEN {0} ELSE {})}
                  : p \in DOMAIN prog[i].body.exprs[m]} : m \in Nodes(prog[i].body)}

UseId(u) ==
    IF \E r \in refs : r.use = u THEN (CHOOSE r \in refs : r.use = u).id ELSE 0

-----------------------------------------------------------------------------
(* Types.                                                                  *)
Sites == Nat \X Nat \X Nat
DeclType == [site : Sites, id : Nat, global : BOOLEAN]
RefType == [use : Nat \X Nat \X Nat \X Nat, site : Sites, id : Nat, global : BOOLEAN]

TypeOK ==
    /\ status \in {"pass1", "pass2", "body", "done", "exit"}
    /\ item \in 1 .. (Len(prog) + 1)
    /\ status \in {"body", "exit"} => item \in Functions /\ at \in 1 .. (body.n + 1)
    /\ local_counter \in Nat /\ global_counter \in Nat
    /\ decls \subseteq DeclType /\ refs \subseteq RefType
    /\ (status = "done") <=> (scopes = <<>>)

(* The scope rules of C, read off the tree, where a group is no block: its *)
(* names belong to the block around it, like those of one declaration.     *)
Reached(b, m) == \A k \in Nodes(b) : b.kind[k] \in Skipped => ~Ancestor(b, k, m)

Blocks == {"compound", "for"}

Block(b, m) ==
    CHOOSE k \in Nodes(b) :
        /\ k # m /\ b.kind[k] \in Blocks /\ Ancestor(b, k, m)
        /\ \A j \in Nodes(b) : j # m /\ b.kind[j] \in Blocks /\ Ancestor(b, j, m) => j <= k

Visible(b, m, x) ==
    {d \in Nodes(b) : /\ b.kind[d] = "var" /\ b.name[d] = x /\ d <= m /\ Reached(b, d)
                      /\ Ancestor(b, Block(b, d), m)}

Nearest(b, S) ==
    CHOOSE d \in S : \A c \in S :
        Block(b, c) < Block(b, d) \/ (Block(b, c) = Block(b, d) /\ c <= d)

Globals(x) ==
    {<<i, 0, 1>> : i \in {j \in Functions : prog[j].name = x}}
      \cup UNION {{<<i, 0, k>> : k \in {j \in DOMAIN prog[i].entries : prog[i].entries[j].name = x}}
                    : i \in DOMAIN prog \ Functions}

Params(i, x) == {<<i, 1, k>> : k \in {j \in DOMAIN prog[i].params : prog[i].params[j].name = x}}

Last(S) == CHOOSE s \in S : \A t \in S : t[1] < s[1] \/ (t[1] = s[1] /\ t[3] <= s[3])

Nowhere == <<0, 0, 0>>

(* The declaration that the name x at node m of function i refers to.      *)
Refers(i, m, x) ==
    LET b == prog[i].body
        vs == Visible(b, m, x)
    IN CASE vs # {} -> <<i, Nearest(b, vs), 0>>
         [] vs = {} /\ Params(i, x) # {} -> Last(Params(i, x))
         [] vs = {} /\ Params(i, x) = {} /\ Globals(x) # {} -> Last(Globals(x))
         [] OTHER -> Nowhere

NameOf(u) ==
    LET e == prog[u[1]].body.exprs[u[2]][u[3]]
    IN IF u[4] = 0 THEN e.callee ELSE e.args[u[4]]

Site(u) == Refers(u[1], u[2], NameOf(u))

(* What the code gets wrong: the scope of a group is left behind it, so    *)
(* that a declaration in it is not there for the statements after it (the  *)
(* return of int a, b; return a; is "undeclared", or means an outer a).    *)
LostAt(i, m, x) ==
    LET b == prog[i].body
        d == Refers(i, m, x)[2]
    IN d > 1 /\ b.kind[b.par[d]] = "group" /\ ~Ancestor(b, b.par[d], m)

Lost(u) == LostAt(u[1], u[2], NameOf(u))

(* An expression that reads such a name: its other names may have been     *)
(* converted, or not analysed, by what the lost one was taken for.         *)
Muddled(u) ==
    LET e == prog[u[1]].body.exprs[u[2]][u[3]]
    IN \/ IsCall(e) /\ LostAt(u[1], u[2], e.callee)
       \/ \E k \in DOMAIN e.args : IsName(e.args[k]) /\ LostAt(u[1], u[2], e.args[k])

(* An identifier is resolved to the declaration that C's scope rules give  *)
(* it: the latest one before it in the innermost enclosing block that has  *)
(* one, else a parameter, else a global of the file.  No block sees the    *)
(* declarations of one that was left, and shadowing ends with its block.   *)
(* Except names declared several at once, once the declaration is over.    *)
ResolvesInnermost ==
    \A r \in refs : r.use[2] # 0 =>
        /\ ~Lost(r.use) => r.site = Site(r.use)
        /\ r.id = SymId(r.site)

TypeAt(s) ==
    IF s[2] > 1 THEN prog[s[1]].body.type[s[2]]
    ELSE IF s[2] = 1 THEN prog[s[1]].params[s[3]].type
    ELSE IF s[1] \in Functions
         THEN Func([k \in DOMAIN prog[s[1]].params |-> prog[s[1]].params[k].type.kind])
         ELSE prog[s[1]].entries[s[3]].type

KindAt(site) == IF site = Nowhere THEN "none" ELSE TypeAt(site).kind
ParamKinds(site) == IF KindAt(site) = "func" THEN TypeAt(site).params ELSE <<>>

Cut(u) ==
    LET e == prog[u[1]].body.exprs[u[2]][u[3]]
        ks == ParamKinds(Refers(u[1], u[2], e.callee))
        kind(k) == IF IsName(e.args[k]) THEN KindAt(Refers(u[1], u[2], e.args[k]))
                   ELSE LiteralType(e.args[k]).kind
    IN IsCall(e) /\ \E k \in DOMAIN e.args : k < u[4] /\ k <= Len(ks) /\ kind(k) # ks[k]

Unseen(u) == ~Reached(prog[u[1]].body, u[2]) \/ Cut(u)

(* Outside of what is skipped and of arguments after a converted one, an   *)
(* identifier is analysed; a unit is rejected only for a name that is      *)
(* declared nowhere it can be seen, or a call of what is no function.      *)
(* Except in expressions that read a name declared several at once after   *)
(* the declaration: a valid program is rejected for it.                    *)
RejectsRightly ==
    /\ status = "done" => \A i \in Functions : \A u \in Uses(i) : ~Muddled(u) =>
          ((\E r \in refs : r.use = u) <=> ~Unseen(u))
    /\ status = "exit" => \E u \in Uses(item) :
          /\ u[2] = at
          /\ Muddled(u) \/ (~Unseen(u) /\ (Site(u) = Nowhere \/ (u[4] = 0 /\ KindAt(Site(u)) # "func")))

(* The scopes are, at every statement, the blocks, groups and for loops    *)
(* around it, below those of the function and the file; none is left over  *)
(* between functions.                                                      *)
ScopesMatchNesting ==
    /\ status \in {"pass1", "pass2"} => Len(scopes) = 1
    /\ status = "body" =>
          LET around == {scopes[i].owner : i \in 3 .. Len(scopes)}
          IN /\ Len(scopes) = 2 + Cardinality(around)
             /\ \A i, j \in 3 .. Len(scopes) : i < j => scopes[i].owner < scopes[j].owner
             /\ ~Leaving /\ at <= body.n => around =
                   {k \in Nodes(body) : k # at /\ body.kind[k] \in Scoping /\ Ancestor(body, k, at)}

(* No two variables of a function have the same number, however blocks     *)
(* nest and follow each other, and no two globals do.                      *)
NumbersDistinct ==
    \A d, e \in decls :
        d.site # e.site /\ d.global = e.global /\ (d.global \/ d.site[1] = e.site[1])
            => d.id # e.id

(* No two variables of a function share a number, and what a use in it is  *)
(* printed as names the variable it means, and stack space of no other:    *)
(* except globals, which are printed like locals, locals of inner blocks,  *)
(* which get no space, identifiers that were not analysed, functions with  *)
(* parameters that have no name, and names declared several at once.       *)
KnownGap(u) ==
    \/ Unseen(u) \/ Muddled(u)
    \/ Site(u) \notin Allocated(u[1])
    \/ \E k \in DOMAIN prog[u[1]].params : prog[u[1]].params[k].name = NotNamed

NamesFaithful ==
    /\ NumbersDistinct
    /\ status = "done" => \A i \in Functions : \A u \in Uses(i) : ~KnownGap(u) =>
          {s \in Allocated(i) : SymId(s) = UseId(u)} = {Site(u)}

-----------------------------------------------------------------------------
(* What a comment says of the emitter, and the code does not do.           *)

(* qbe.c:2, "Supports: ... function calls, globals": what is printed for a *)
(* global or a function is not a local variable.                           *)
GlobalsAreNotLocals ==
    status = "done" => \A i \in Functions : \A r, q \in refs :
        r.use[1] = i /\ q.use[1] = i /\ r.use[2] > 0 /\ q.use[2] > 0 /\ r.id = q.id
            => r.global = q.global

=============================================================================
