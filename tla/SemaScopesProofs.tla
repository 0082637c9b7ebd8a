-------------------------- MODULE SemaScopesProofs --------------------------
(***************************************************************************)
(* The scopes of the analysis are the blocks around the statement it is    *)
(* at, no two variables of a function get one number, and a name is        *)
(* resolved to the declaration it means, for every program.                *)
(***************************************************************************)
EXTENDS SemaScopes, SetsAndLists, SequenceTheorems

-----------------------------------------------------------------------------
(* Subtrees.                                                               *)

LEMMA OwnAncestor ==
    ASSUME NEW b, Body(b), NEW m \in Nodes(b)
    PROVE  Ancestor(b, m, m)
BY DEF Ancestor, Body, Nodes

(* What is between a node and one below it is below it as well.            *)
LEMMA Between ==
    ASSUME NEW b, Body(b), NEW a \in Nodes(b), NEW m \in Int, Ancestor(b, a, m),
           NEW k \in a .. m
    PROVE  Ancestor(b, a, k) /\ m \in Nodes(b) /\ k \in Nodes(b)
BY DEF Ancestor, Body, Nodes

LEMMA AncestorTransitive ==
    ASSUME NEW b, Body(b), NEW a \in Nodes(b), NEW k \in Nodes(b), NEW m \in Int,
           Ancestor(b, a, k), Ancestor(b, k, m)
    PROVE  Ancestor(b, a, m) /\ a <= k /\ k <= m
<1>1. /\ a \in Nat /\ k \in Nat /\ a # 0 /\ k # 0 /\ a <= k /\ k <= m /\ m <= b.n
      /\ \A i \in (a + 1) .. k : b.par[i] >= a
      /\ \A i \in (k + 1) .. m : b.par[i] >= k
  BY DEF Ancestor, Nodes, Body
<1>2. ASSUME NEW i \in (a + 1) .. m PROVE b.par[i] >= a
  <2>1. CASE i <= k
    BY <1>1, <2>1
  <2>2. CASE i > k
    <3>1. b.par[i] >= k
      BY <1>1, <2>2
    <3>2. b.par[i] \in Int
      BY <1>1 DEF Body, Nodes
    <3> QED BY <1>1, <3>1, <3>2
  <2> QED BY <1>1, <2>1, <2>2
<1> QED BY <1>1, <1>2 DEF Ancestor, Body

(* The interval is the subtree: a node is below another one if it is that  *)
(* node, or its parent is below it.                                        *)
LEMMA SubtreeIsInterval ==
    ASSUME NEW b, Body(b), NEW a \in Nodes(b), NEW m \in Nodes(b)
    PROVE  Ancestor(b, a, m) <=> (a = m \/ (m > 1 /\ Ancestor(b, a, b.par[m])))
<1>1. a \in 1 .. b.n /\ m \in 1 .. b.n /\ b.n \in Nat
  BY DEF Nodes, Body
<1>2. m > 1 => b.par[m] \in 1 .. (m - 1) /\ Ancestor(b, b.par[m], m - 1)
  BY <1>1 DEF Body
<1>3. ASSUME Ancestor(b, a, m), a # m PROVE m > 1 /\ Ancestor(b, a, b.par[m])
  <2>1. a < m /\ b.par[m] >= a
    BY <1>1, <1>3 DEF Ancestor
  <2>2. b.par[m] \in a .. m
    BY <1>1, <1>2, <2>1
  <2> QED BY <1>1, <1>3, <2>1, <2>2, Between
<1>4. ASSUME m > 1, Ancestor(b, a, b.par[m]) PROVE Ancestor(b, a, m)
  <2>1. Ancestor(b, a, m - 1) /\ a <= b.par[m]
    BY <1>1, <1>2, <1>4, AncestorTransitive DEF Nodes
  <2> QED BY <1>1, <1>2, <2>1 DEF Ancestor
<1> QED BY <1>3, <1>4, OwnAncestor

(* The node after a subtree is the first that is not in it.                *)
LEMMA AfterIsNext ==
    ASSUME Body(body), NEW m \in Nodes(body)
    PROVE  /\ After(m) \in (m + 1) .. (body.n + 1)
           /\ ~Ancestor(body, m, After(m))
           /\ \A j \in (m + 1) .. (After(m) - 1) : Ancestor(body, m, j)
<1> DEFINE T == {k \in (m + 1) .. (body.n + 1) : ~Ancestor(body, m, k)}
<1>1. m \in 1 .. body.n /\ body.n \in Nat
  BY DEF Nodes, Body
<1>2. body.n + 1 \in T
  BY <1>1 DEF Ancestor
<1>3. T \in SUBSET Nat /\ T # {}
  BY <1>1, <1>2
<1>4. PICK k \in T : \A j \in T : k <= j
  <2> HIDE DEF T
  <2> QED BY <1>3, HasSmallest
<1>5. \A j \in (m + 1) .. (k - 1) : Ancestor(body, m, j)
  BY <1>1, <1>4
<1> QED BY <1>4, <1>5 DEF After

-----------------------------------------------------------------------------
(* Symbols.                                                                *)

(* What the program declares at a site.                                    *)
NameAt(s) ==
    IF s[2] = 0 THEN IF prog[s[1]].kind = "func" THEN prog[s[1]].name
                     ELSE prog[s[1]].entries[s[3]].name
    ELSE IF s[2] = 1 THEN prog[s[1]].params[s[3]].name
    ELSE prog[s[1]].body.name[s[2]]

SymbolAt(s, id) == Symbol(NameAt(s), TypeAt(s), id, s[2] = 0, s)

Symbols == {SymbolAt(s, id) : s \in Sites, id \in Nat}
Chains == Seq([owner : Nat, symbols : Seq(Symbols)])

LEMMA SymbolFields ==
    ASSUME NEW sym \in Symbols
    PROVE  /\ sym = SymbolAt(sym.site, sym.qbe_id)
           /\ sym.site \in Sites /\ sym.qbe_id \in Nat
           /\ sym.is_global = (sym.site[2] = 0)
           /\ sym.name = NameAt(sym.site) /\ sym.type = TypeAt(sym.site)
BY DEF Symbols, SymbolAt, Symbol

LEMMA ChainElement ==
    ASSUME NEW ss \in Chains, NEW i \in DOMAIN ss
    PROVE  /\ ss[i] \in [owner : Nat, symbols : Seq(Symbols)]
           /\ ss[i].owner \in Nat /\ ss[i].symbols \in Seq(Symbols)
           /\ Len(ss[i].symbols) \in Nat /\ DOMAIN ss[i].symbols = 1 .. Len(ss[i].symbols)
           /\ \A k \in DOMAIN ss[i].symbols : ss[i].symbols[k] \in Symbols
<1> DEFINE F == [owner : Nat, symbols : Seq(Symbols)]
<1>1. ss \in Seq(F)
  BY DEF Chains
<1> HIDE DEF F
<1>2. ss[i] \in F
  BY <1>1, ElementOfSeq
<1>3. ss[i].owner \in Nat /\ ss[i].symbols \in Seq(Symbols)
  BY <1>2 DEF F
<1>4. \A k \in DOMAIN ss[i].symbols : ss[i].symbols[k] \in Symbols
  BY <1>3, ElementOfSeq
<1> QED BY <1>2, <1>3, <1>4 DEF F

(* The last of the scopes with the name, and the last of its symbols.      *)
Innermost(ss, x, i, k) ==
    /\ i \in DOMAIN ss /\ k \in DOMAIN ss[i].symbols
    /\ ss[i].symbols[k].name = x
    /\ \A j \in DOMAIN ss : j > i => x \notin Names(ss[j])
    /\ \A l \in DOMAIN ss[i].symbols : l > k => ss[i].symbols[l].name # x

LEMMA LookupFinds ==
    ASSUME NEW ss \in Chains, NEW x, Found(ss, x)
    PROVE  \E i \in DOMAIN ss : \E k \in DOMAIN ss[i].symbols :
              Innermost(ss, x, i, k) /\ sema_lookup(ss, x) = ss[i].symbols[k]
<1> DEFINE I == {i \in DOMAIN ss : x \in Names(ss[i])}
           i == CHOOSE i \in DOMAIN ss :
                   x \in Names(ss[i]) /\ \A j \in DOMAIN ss : j > i => x \notin Names(ss[j])
           K == {k \in DOMAIN ss[i].symbols : ss[i].symbols[k].name = x}
           k == CHOOSE k \in DOMAIN ss[i].symbols :
                   /\ ss[i].symbols[k].name = x
                   /\ \A l \in DOMAIN ss[i].symbols : l > k => ss[i].symbols[l].name # x
<1>1. Len(ss) \in Nat /\ DOMAIN ss = 1 .. Len(ss)
  BY DEF Chains
<1>2. \E m \in I : \A j \in I : j <= m
  <2>1. I \in SUBSET (0 .. Len(ss)) /\ I # {}
    BY <1>1 DEF Found
  <2> HIDE DEF I
  <2> QED BY <1>1, <2>1, HasLargest
<1>3. /\ i \in DOMAIN ss /\ x \in Names(ss[i])
      /\ \A j \in DOMAIN ss : j > i => x \notin Names(ss[j])
  <2>1. PICK m \in I : \A j \in I : j <= m
    BY <1>2
  <2>2. \A j \in DOMAIN ss : j > m => x \notin Names(ss[j])
    BY <1>1, <2>1
  <2> QED BY <2>1, <2>2
<1> HIDE DEF i, I
<1>4. ss[i].symbols \in Seq(Symbols)
  BY <1>3, ChainElement
<1>5. Len(ss[i].symbols) \in Nat /\ DOMAIN ss[i].symbols = 1 .. Len(ss[i].symbols)
  BY <1>4
<1>6. \E m \in K : \A l \in K : l <= m
  <2>1. K \in SUBSET (0 .. Len(ss[i].symbols)) /\ K # {}
    BY <1>3, <1>5 DEF Names
  <2> HIDE DEF K
  <2> QED BY <1>5, <2>1, HasLargest
<1>7. /\ k \in DOMAIN ss[i].symbols /\ ss[i].symbols[k].name = x
      /\ \A l \in DOMAIN ss[i].symbols : l > k => ss[i].symbols[l].name # x
  <2>1. PICK m \in K : \A l \in K : l <= m
    BY <1>6
  <2>2. \A l \in DOMAIN ss[i].symbols : l > m => ss[i].symbols[l].name # x
    BY <1>5, <2>1
  <2> QED BY <2>1, <2>2
<1>8. sema_lookup(ss, x) = ss[i].symbols[k]
  BY DEF sema_lookup, i
<1> HIDE DEF k
<1> QED BY <1>3, <1>7, <1>8 DEF Innermost

LEMMA LookupIsSymbol ==
    ASSUME NEW ss \in Chains, NEW x, Found(ss, x)
    PROVE  sema_lookup(ss, x) \in Symbols /\ sema_lookup(ss, x).name = x
<1>1. PICK i \in DOMAIN ss : \E k \in DOMAIN ss[i].symbols :
              Innermost(ss, x, i, k) /\ sema_lookup(ss, x) = ss[i].symbols[k]
  BY LookupFinds
<1> QED BY <1>1, ChainElement DEF Innermost

-----------------------------------------------------------------------------
(* Programs and declarations.                                              *)

LEMMA ListFacts ==
    ASSUME NEW s, IsList(s)
    PROVE  Len(s) \in Nat /\ DOMAIN s = 1 .. Len(s)
<1> DEFINE R == {s[k] : k \in DOMAIN s}
<1>1. s \in Seq(R)
  BY DEF IsList
<1> HIDE DEF R
<1> QED BY <1>1

LEMMA ProgramFacts ==
    ASSUME prog \in Programs
    PROVE  /\ Len(prog) \in Nat /\ DOMAIN prog = 1 .. Len(prog)
           /\ \A i \in DOMAIN prog :
                 /\ prog[i].kind \in {"func", "decl"}
                 /\ IsList(prog[i].params) /\ IsList(prog[i].entries)
                 /\ prog[i].kind = "func" => prog[i].name # NotNamed /\ Body(prog[i].body)
<1>1. IsList(prog)
  BY SemaAssumption
<1> QED BY <1>1, ListFacts, SemaAssumption

LEMMA NamedFinite ==
    ASSUME NEW entries, IsList(entries)
    PROVE  /\ HasName(entries) \subseteq 1 .. Len(entries) /\ HasName(entries) \subseteq Int
           /\ IsFiniteSet(HasName(entries)) /\ Cardinality(HasName(entries)) \in Nat
<1>1. Len(entries) \in Nat /\ DOMAIN entries = 1 .. Len(entries)
  BY ListFacts
<1>2. HasName(entries) \in SUBSET (1 .. Len(entries))
  BY <1>1 DEF HasName
<1>3. IsFiniteSet(1 .. Len(entries))
  BY <1>1, FS_Interval
<1>4. IsFiniteSet(HasName(entries))
  BY <1>2, <1>3, FS_Subset
<1> QED BY <1>1, <1>2, <1>4, FS_CardinalityType

(* The symbols of a list of names, the number of the first given.          *)
Fresh(entries, counter, level) ==
    [n \in 1 .. Cardinality(HasName(entries)) |->
        SymbolAt(<<item, level, Nth(HasName(entries), n)>>, counter + (n - 1))]

LEMMA FreshSymbols ==
    ASSUME NEW entries, IsList(entries), NEW counter \in Nat, NEW level \in Nat, item \in Nat
    PROVE  /\ Fresh(entries, counter, level) \in Seq(Symbols)
           /\ Len(Fresh(entries, counter, level)) = Cardinality(HasName(entries))
<1> DEFINE N == HasName(entries)
<1>1. N \subseteq 1 .. Len(entries) /\ N \subseteq Int /\ IsFiniteSet(N) /\ Cardinality(N) \in Nat
  BY NamedFinite
<1>2. ASSUME NEW n \in 1 .. Cardinality(N)
      PROVE  SymbolAt(<<item, level, Nth(N, n)>>, counter + (n - 1)) \in Symbols
  <2>1. Nth(N, n) \in N
    BY <1>1, NthElement
  <2>2. Nth(N, n) \in Nat
    BY <1>1, <2>1, ListFacts
  <2>3. <<item, level, Nth(N, n)>> \in Sites /\ counter + (n - 1) \in Nat
    BY <1>1, <2>2 DEF Sites
  <2> QED BY <2>3 DEF Symbols
<1> DEFINE f == Fresh(entries, counter, level)
           m == Cardinality(N)
<1>3. f \in [1 .. m -> Symbols]
  BY <1>2 DEF Fresh
<1>4. m \in Nat
  BY <1>1
<1> HIDE DEF f, m
<1>5. f \in Seq(Symbols) /\ DOMAIN f = 1 .. m
  BY <1>3, <1>4
<1>6. Len(f) = m
  BY <1>4, <1>5, LenProperties
<1> QED BY <1>5, <1>6 DEF f, m

(* What the program declares at the sites of a list.                       *)
AsDeclared(entries, level) ==
    \A k \in HasName(entries) : /\ entries[k].name = NameAt(<<item, level, k>>)
                                /\ entries[k].type = TypeAt(<<item, level, k>>)

(* The symbols of the innermost scope change.                              *)
WithSymbols(ss, syms) == [ss EXCEPT ![Len(ss)].symbols = syms]

(* What is recorded of them.                                               *)
Records(entries, from, level) ==
    {[site |-> <<item, level, k>>, id |-> from + Rank(HasName(entries), k),
      global |-> level = 0] : k \in HasName(entries)}

LEMMA Declaring ==
    ASSUME NEW ss, NEW entries, IsList(entries), NEW counter \in Nat, NEW level \in Nat,
           AsDeclared(entries, level)
    PROVE  LET d == DeclareAll(ss, entries, counter, level)
           IN /\ d.scopes = WithSymbols(ss, ss[Len(ss)].symbols \o Fresh(entries, counter, level))
              /\ d.counter = counter + Cardinality(HasName(entries))
              /\ d.decls = Records(entries, counter, level)
<1> DEFINE N == HasName(entries)
<1>1. N \subseteq Int /\ IsFiniteSet(N)
  BY NamedFinite
<1> DEFINE symbol(n) ==
             LET k == CHOOSE k \in N : Cardinality({j \in N : j < k}) = n - 1
             IN Symbol(entries[k].name, entries[k].type,
                       counter + Cardinality({j \in N : j < k}), level = 0, <<item, level, k>>)
           added == [n \in 1 .. Cardinality(N) |-> symbol(n)]
<1>2. ASSUME NEW n \in 1 .. Cardinality(N)
      PROVE  symbol(n) = SymbolAt(<<item, level, Nth(N, n)>>, counter + (n - 1))
  <2> DEFINE k == Nth(N, n)
  <2>1. k \in N /\ Rank(N, k) = n - 1
    BY <1>1, NthElement
  <2>2. entries[k].name = NameAt(<<item, level, k>>) /\ entries[k].type = TypeAt(<<item, level, k>>)
    BY <2>1 DEF AsDeclared
  <2>3. Symbol(entries[k].name, entries[k].type, counter + Rank(N, k), level = 0, <<item, level, k>>)
          = SymbolAt(<<item, level, k>>, counter + (n - 1))
    BY <2>1, <2>2 DEF SymbolAt
  <2> QED BY <2>3 DEF Nth, Rank
<1>3. added = Fresh(entries, counter, level)
  <2> HIDE DEF symbol
  <2> QED BY <1>2 DEF Fresh
<1>4. LET d == DeclareAll(ss, entries, counter, level)
      IN /\ d.scopes = WithSymbols(ss, ss[Len(ss)].symbols \o added)
         /\ d.counter = counter + Cardinality(N)
         /\ d.decls = {[site |-> <<item, level, k>>, id |-> counter + Rank(N, k),
                        global |-> level = 0] : k \in N}
  BY DEF DeclareAll, Rank, WithSymbols
<1> HIDE DEF added
<1>5. {[site |-> <<item, level, k>>, id |-> counter + Rank(N, k), global |-> level = 0] : k \in N}
        = Records(entries, counter, level)
  BY DEF Records
<1> QED BY <1>3, <1>4, <1>5

-----------------------------------------------------------------------------
(* Chains of scopes.                                                       *)

LEMMA EnterChain ==
    ASSUME NEW ss \in Chains, NEW o \in Nat
    PROVE  LET tt == sema_enter_scope(ss, o)
           IN /\ tt \in Chains /\ Len(tt) = Len(ss) + 1 /\ Len(ss) \in Nat
              /\ \A i \in 1 .. Len(ss) : tt[i] = ss[i]
              /\ tt[Len(ss) + 1].owner = o /\ tt[Len(ss) + 1].symbols = <<>>
<1> DEFINE F == [owner : Nat, symbols : Seq(Symbols)]
<1>1. Scope(o) \in F /\ Scope(o).owner = o /\ Scope(o).symbols = <<>>
  BY DEF Scope
<1>2. ss \in Seq(F)
  BY DEF Chains
<1> HIDE DEF F
<1>3. /\ Append(ss, Scope(o)) \in Seq(F) /\ Len(ss) \in Nat
      /\ Len(Append(ss, Scope(o))) = Len(ss) + 1
      /\ \A i \in 1 .. Len(ss) : Append(ss, Scope(o))[i] = ss[i]
      /\ Append(ss, Scope(o))[Len(ss) + 1] = Scope(o)
  BY <1>1, <1>2, AppendProperties, LenProperties
<1> QED BY <1>1, <1>3 DEF sema_enter_scope, Chains, F

LEMMA LeaveChain ==
    ASSUME NEW ss \in Chains, Len(ss) > 0
    PROVE  LET tt == sema_leave_scope(ss)
           IN /\ tt \in Chains /\ Len(tt) = Len(ss) - 1 /\ Len(ss) \in Nat
              /\ \A i \in 1 .. Len(tt) : tt[i] = ss[i]
<1> DEFINE F == [owner : Nat, symbols : Seq(Symbols)]
           tt == SubSeq(ss, 1, Len(ss) - 1)
<1>1. ss \in Seq(F)
  BY DEF Chains
<1> HIDE DEF F
<1>2. Len(ss) \in Nat
  BY <1>1, LenProperties
<1>a. \A i \in 1 .. Len(ss) - 1 : ss[i] \in F
  BY <1>1, <1>2
<1>b. Len(ss) - 1 \in Int /\ (IF 1 <= Len(ss) - 1 THEN (Len(ss) - 1) - 1 + 1 ELSE 0) = Len(ss) - 1
  BY <1>2
<1>3. /\ tt \in Seq(F) /\ Len(tt) = Len(ss) - 1
      /\ \A i \in 1 .. (Len(ss) - 1) - 1 + 1 : tt[i] = ss[1 + i - 1]
  BY <1>a, <1>b, SubSeqProperties
<1>4. \A i \in 1 .. Len(ss) - 1 : tt[i] = ss[i]
  BY <1>2, <1>3
<1> HIDE DEF tt
<1>5. tt \in Chains /\ Len(tt) = Len(ss) - 1 /\ \A i \in 1 .. Len(tt) : tt[i] = ss[i]
  BY <1>3, <1>4 DEF Chains, F
<1> QED BY <1>2, <1>5 DEF sema_leave_scope, tt

LEMMA GrowChain ==
    ASSUME NEW ss \in Chains, Len(ss) > 0, NEW syms \in Seq(Symbols)
    PROVE  LET tt == WithSymbols(ss, syms)
           IN /\ tt \in Chains /\ Len(tt) = Len(ss) /\ Len(ss) \in Nat
              /\ \A i \in 1 .. Len(ss) : tt[i].owner = ss[i].owner
              /\ \A i \in 1 .. Len(ss) : i # Len(ss) => tt[i] = ss[i]
              /\ tt[Len(ss)].symbols = syms
<1> DEFINE F == [owner : Nat, symbols : Seq(Symbols)]
           n == Len(ss)
           fr == [ss[n] EXCEPT !.symbols = syms]
           tt == [ss EXCEPT ![n] = fr]
<1>1. ss \in Seq(F) /\ n \in Nat /\ DOMAIN ss = 1 .. n
  BY DEF Chains
<1>2. n \in DOMAIN ss
  BY <1>1
<1>3. ss[n] \in F
  BY <1>2, ChainElement
<1>4. fr \in F /\ fr.owner = ss[n].owner /\ fr.symbols = syms
  BY <1>3
<1> HIDE DEF F, n, fr
<1>5. tt \in Seq(F) /\ Len(tt) = n /\ tt[n] = fr /\ \A i \in 1 .. n : i # n => tt[i] = ss[i]
  BY <1>1, <1>2, <1>4, ExceptSeq
<1>6. WithSymbols(ss, syms) = tt
  BY DEF n, fr, WithSymbols
<1> HIDE DEF tt
<1>7. tt \in Chains
  BY <1>5 DEF Chains, F
<1>8. \A i \in 1 .. n : tt[i].owner = ss[i].owner
  BY <1>4, <1>5
<1> QED BY <1>1, <1>4, <1>5, <1>6, <1>7, <1>8 DEF n

-----------------------------------------------------------------------------
(* The scopes around a statement.                                          *)

InBody == status \in {"body", "exit"}
BlockScopes == 3 .. Len(scopes)   \* the scopes of statements

Shape ==
    /\ prog \in Programs
    /\ status \in {"pass1", "pass2", "body", "done", "exit"}
    /\ item \in 1 .. (Len(prog) + 1)
    /\ InBody => item \in DOMAIN prog /\ It.kind = "func" /\ at \in 1 .. (body.n + 1)
    /\ local_counter \in Nat /\ global_counter \in Nat
    /\ scopes \in Chains
    /\ status \in {"pass1", "pass2"} => Len(scopes) = 1
    /\ InBody => Len(scopes) >= 2
    /\ status = "done" => Len(scopes) = 0

(* The blocks entered and not left are a chain of nodes, one inside the    *)
(* other; all that are around the next statement are among them; and that  *)
(* statement is not below one that is skipped.                             *)
Nesting ==
    InBody =>
      /\ \A i \in BlockScopes : /\ scopes[i].owner \in Nodes(body) /\ scopes[i].owner < at
                           /\ body.kind[scopes[i].owner] \in Scoping
      /\ \A i, j \in BlockScopes : i < j => /\ scopes[i].owner < scopes[j].owner
                                       /\ Ancestor(body, scopes[i].owner, scopes[j].owner)
      /\ \A k \in Nodes(body) : k < at /\ body.kind[k] \in Scoping /\ Ancestor(body, k, at)
            => \E i \in BlockScopes : scopes[i].owner = k
      /\ \A k \in Nodes(body) : k < at /\ body.kind[k] \in Skipped => ~Ancestor(body, k, at)

LEMMA BodyFacts ==
    ASSUME Shape, InBody
    PROVE  /\ item \in DOMAIN prog /\ item \in Nat /\ It.kind = "func"
           /\ Body(body) /\ body.n \in Nat /\ body.n > 0 /\ Nodes(body) = 1 .. body.n
           /\ at \in Nat /\ at \in 1 .. (body.n + 1)
           /\ \A m \in Nodes(body) : body.kind[m] \in Kinds
           /\ scopes \in Chains /\ Len(scopes) \in Nat /\ DOMAIN scopes = 1 .. Len(scopes)
           /\ Len(scopes) >= 2
           /\ IsList(It.params)
<1>1. prog \in Programs /\ scopes \in Chains
  BY DEF Shape
<1>2. item \in DOMAIN prog /\ It.kind = "func" /\ at \in 1 .. (body.n + 1)
  BY DEF Shape
<1>3. Body(body) /\ IsList(It.params) /\ item \in Nat
  BY <1>1, <1>2, ProgramFacts DEF It, body
<1>4. body.n \in Nat /\ body.n > 0 /\ \A m \in Nodes(body) : body.kind[m] \in Kinds
  BY <1>3 DEF Body
<1>5. Len(scopes) \in Nat /\ DOMAIN scopes = 1 .. Len(scopes)
  BY <1>1 DEF Chains
<1> QED BY <1>1, <1>2, <1>3, <1>4, <1>5 DEF Shape, Nodes

(* Before the next statement is visited, the blocks are those around it.   *)
LEMMA Around ==
    ASSUME Shape, Nesting, InBody, ~Leaving
    PROVE  /\ at > body.n => Len(scopes) = 2
           /\ \A i \in BlockScopes : Ancestor(body, scopes[i].owner, at)
<1>1. /\ Body(body) /\ body.n \in Nat /\ at \in Nat /\ Len(scopes) \in Nat /\ Len(scopes) >= 2
      /\ Nodes(body) = 1 .. body.n
  BY BodyFacts
<1>2. /\ \A i \in BlockScopes : scopes[i].owner \in Nodes(body)
      /\ \A i, j \in BlockScopes : i < j => Ancestor(body, scopes[i].owner, scopes[j].owner)
  BY DEF Nesting
<1>3. CASE Len(scopes) = 2
  BY <1>1, <1>3 DEF BlockScopes
<1>4. CASE Len(scopes) > 2
  <2> DEFINE n == Len(scopes)
             top == scopes[n].owner
  <2>1. n \in BlockScopes
    BY <1>1, <1>4 DEF BlockScopes
  <2>2. top \in Nodes(body) /\ Ancestor(body, top, at)
    BY <1>2, <1>4, <2>1 DEF Leaving, Top
  <2>3. at <= body.n
    BY <1>1, <2>2 DEF Ancestor
  <2>4. ASSUME NEW i \in BlockScopes PROVE Ancestor(body, scopes[i].owner, at)
    <3>1. CASE i = n
      BY <2>2, <3>1
    <3>2. CASE i < n
      <4>1. Ancestor(body, scopes[i].owner, top) /\ scopes[i].owner \in Nodes(body)
        BY <1>2, <2>1, <3>2
      <4>2. at \in Int
        BY <1>1
      <4> HIDE DEF top, n
      <4> QED BY <1>1, <2>2, <4>1, <4>2, AncestorTransitive
    <3> QED BY <1>1, <3>1, <3>2 DEF BlockScopes
  <2> QED BY <1>1, <2>3, <2>4
<1>5. Len(scopes) = 2 \/ Len(scopes) > 2
  <2> DEFINE n == Len(scopes)
  <2>1. n \in Nat /\ n >= 2
    BY <1>1
  <2> HIDE DEF n
  <2>2. n = 2 \/ n > 2
    BY <2>1
  <2> QED BY <2>2 DEF n
<1> QED BY <1>3, <1>4, <1>5

(* Stepping over a node that opens no scope, or into one that does.        *)
LEMMA StayNests ==
    ASSUME Shape, Nesting, status = "body", ~Leaving, at \in Nodes(body),
           body.kind[at] \notin Scoping \cup Skipped,
           at' = at + 1, UNCHANGED <<status, prog, item>>,
           Len(scopes') = Len(scopes), \A i \in BlockScopes : scopes'[i].owner = scopes[i].owner
    PROVE  Nesting'
<1>1. /\ Body(body) /\ body.n \in Nat /\ at \in Nat /\ Len(scopes) \in Nat
      /\ Nodes(body) = 1 .. body.n
  BY BodyFacts DEF InBody
<1>2. body' = body /\ BlockScopes' = BlockScopes
  BY DEF body, It, BlockScopes
<1>3. \A k \in Nodes(body) : k <= at /\ Ancestor(body, k, at + 1) => Ancestor(body, k, at)
  <2> SUFFICES ASSUME NEW k \in Nodes(body), k <= at, Ancestor(body, k, at + 1)
               PROVE  Ancestor(body, k, at)
    OBVIOUS
  <2>1. at \in k .. (at + 1) /\ at + 1 \in Int
    BY <1>1
  <2> QED BY <1>1, <2>1, Between
<1>4. \A i \in BlockScopes : scopes[i].owner \in Nodes(body) /\ scopes[i].owner < at + 1
  BY <1>1 DEF Nesting, InBody
<1>5. \A k \in Nodes(body) : k < at + 1 <=> k < at \/ k = at
  BY <1>1
<1>6. \A k \in Nodes(body) : k < at + 1 /\ body.kind[k] \in Scoping /\ Ancestor(body, k, at + 1)
          => \E i \in BlockScopes : scopes[i].owner = k
  BY <1>1, <1>3, <1>5 DEF Nesting, InBody
<1>7. \A k \in Nodes(body) : k < at + 1 /\ body.kind[k] \in Skipped => ~Ancestor(body, k, at + 1)
  BY <1>1, <1>3, <1>5 DEF Nesting, InBody
<1>8. \A i \in BlockScopes : body.kind[scopes[i].owner] \in Scoping
  BY DEF Nesting, InBody
<1>9. \A i, j \in BlockScopes : i < j => /\ scopes[i].owner < scopes[j].owner
                                    /\ Ancestor(body, scopes[i].owner, scopes[j].owner)
  BY DEF Nesting, InBody
<1> QED BY <1>2, <1>4, <1>6, <1>7, <1>8, <1>9 DEF Nesting

LEMMA PushNests ==
    ASSUME Shape, Nesting, status = "body", ~Leaving, at \in Nodes(body),
           body.kind[at] \in Scoping,
           at' = at + 1, UNCHANGED <<status, prog, item>>,
           scopes' = sema_enter_scope(scopes, at)
    PROVE  Nesting'
<1>1. /\ Body(body) /\ body.n \in Nat /\ at \in Nat /\ Len(scopes) \in Nat /\ Len(scopes) >= 2
      /\ Nodes(body) = 1 .. body.n /\ scopes \in Chains
  BY BodyFacts DEF InBody
<1> DEFINE n == Len(scopes) + 1
<1>2. /\ body' = body /\ Len(scopes') = n /\ scopes'[n].owner = at
      /\ \A i \in BlockScopes : scopes'[i] = scopes[i]
  <2>1. body' = body
    BY DEF body, It
  <2>2. /\ Len(scopes') = n /\ scopes'[n].owner = at
        /\ \A i \in 1 .. Len(scopes) : scopes'[i] = scopes[i]
    BY <1>1, EnterChain
  <2> QED BY <1>1, <2>1, <2>2 DEF BlockScopes
<1>3. \A i \in BlockScopes' : i = n \/ i \in BlockScopes
  BY <1>1, <1>2 DEF BlockScopes
<1>4. BlockScopes \subseteq BlockScopes' /\ n \in BlockScopes' /\ \A i \in BlockScopes : i < n
  BY <1>1, <1>2 DEF BlockScopes
<1>5. \A k \in Nodes(body) : k <= at /\ Ancestor(body, k, at + 1) => Ancestor(body, k, at)
  <2> SUFFICES ASSUME NEW k \in Nodes(body), k <= at, Ancestor(body, k, at + 1)
               PROVE  Ancestor(body, k, at)
    OBVIOUS
  <2>1. at \in k .. (at + 1) /\ at + 1 \in Int
    BY <1>1
  <2> QED BY <1>1, <2>1, Between
<1>6. /\ \A i \in BlockScopes : /\ scopes[i].owner \in Nodes(body) /\ scopes[i].owner < at
                           /\ body.kind[scopes[i].owner] \in Scoping
                           /\ Ancestor(body, scopes[i].owner, at)
      /\ \A i, j \in BlockScopes : i < j => /\ scopes[i].owner < scopes[j].owner
                                       /\ Ancestor(body, scopes[i].owner, scopes[j].owner)
  BY Around DEF Nesting, InBody
<1>7. \A k \in Nodes(body) : k < at + 1 <=> k < at \/ k = at
  BY <1>1
<1>8. Scoping \cap Skipped = {}
  BY DEF Scoping, Skipped
<1> HIDE DEF n
<1>a. \A i \in BlockScopes' : /\ scopes'[i].owner \in Nodes(body) /\ scopes'[i].owner < at + 1
                         /\ body.kind[scopes'[i].owner] \in Scoping
  BY <1>1, <1>2, <1>3, <1>6, <1>7
<1>b. \A i, j \in BlockScopes' : i < j => /\ scopes'[i].owner < scopes'[j].owner
                                     /\ Ancestor(body, scopes'[i].owner, scopes'[j].owner)
  <2> SUFFICES ASSUME NEW i \in BlockScopes', NEW j \in BlockScopes', i < j
               PROVE  /\ scopes'[i].owner < scopes'[j].owner
                      /\ Ancestor(body, scopes'[i].owner, scopes'[j].owner)
    OBVIOUS
  <2>1. i \in Int /\ j \in Int /\ n \in Int /\ i \in BlockScopes
    BY <1>1, <1>2, <1>3, <1>4 DEF BlockScopes
  <2> QED BY <1>2, <1>3, <1>6, <2>1
<1>c. \A k \in Nodes(body) : k < at + 1 /\ body.kind[k] \in Scoping /\ Ancestor(body, k, at + 1)
          => \E i \in BlockScopes' : scopes'[i].owner = k
  <2> SUFFICES ASSUME NEW k \in Nodes(body), k < at + 1, body.kind[k] \in Scoping,
                      Ancestor(body, k, at + 1)
               PROVE  \E i \in BlockScopes' : scopes'[i].owner = k
    OBVIOUS
  <2>1. CASE k = at
    BY <1>2, <1>4, <2>1
  <2>2. CASE k < at
    <3>1. Ancestor(body, k, at)
      BY <1>1, <1>5, <2>2
    <3>2. \E i \in BlockScopes : scopes[i].owner = k
      BY <2>2, <3>1 DEF Nesting, InBody
    <3> QED BY <1>2, <1>4, <3>2
  <2> QED BY <1>7, <2>1, <2>2
<1>d. \A k \in Nodes(body) : k < at + 1 /\ body.kind[k] \in Skipped => ~Ancestor(body, k, at + 1)
  <2> SUFFICES ASSUME NEW k \in Nodes(body), k < at + 1, body.kind[k] \in Skipped,
                      Ancestor(body, k, at + 1)
               PROVE  FALSE
    OBVIOUS
  <2>1. k < at /\ k <= at
    BY <1>1, <1>7, <1>8
  <2>2. Ancestor(body, k, at)
    BY <1>5, <2>1
  <2> QED BY <2>1, <2>2 DEF Nesting, InBody
<1> QED BY <1>2, <1>a, <1>b, <1>c, <1>d DEF Nesting

LEMMA SkipNests ==
    ASSUME Shape, Nesting, status = "body", at \in Nodes(body), body.kind[at] \in Skipped,
           at' = After(at), UNCHANGED <<status, prog, item, scopes>>
    PROVE  Nesting' /\ at' \in 1 .. (body.n + 1)
<1>1. /\ Body(body) /\ body.n \in Nat /\ at \in Nat /\ Nodes(body) = 1 .. body.n /\ at >= 1
  BY BodyFacts DEF InBody
<1>2. body' = body /\ BlockScopes' = BlockScopes
  BY DEF body, It, BlockScopes
<1> DEFINE a == After(at)
<1>3. /\ a \in (at + 1) .. (body.n + 1) /\ ~Ancestor(body, at, a)
      /\ \A j \in (at + 1) .. (a - 1) : Ancestor(body, at, j)
  BY <1>1, AfterIsNext
<1>4. at' = a
  OBVIOUS
<1> HIDE DEF a
<1>5. ASSUME NEW k \in Nodes(body), k < a, Ancestor(body, k, a)
      PROVE  k < at /\ Ancestor(body, k, at)
  <2>1. k # at
    BY <1>3, <1>5
  <2>2. ASSUME k > at PROVE FALSE
    <3>1. Ancestor(body, at, k)
      BY <1>1, <1>3, <1>5, <2>2
    <3>2. a \in Int
      BY <1>1, <1>3
    <3> QED BY <1>1, <1>3, <1>5, <3>1, <3>2, AncestorTransitive
  <2>3. k < at
    BY <1>1, <2>1, <2>2
  <2>4. at \in k .. a /\ a \in Int
    BY <1>1, <1>3, <2>3
  <2> QED BY <1>1, <1>5, <2>3, <2>4, Between
<1>6. \A i \in BlockScopes : /\ scopes[i].owner \in Nodes(body) /\ scopes[i].owner < a
                        /\ body.kind[scopes[i].owner] \in Scoping
  <2> SUFFICES ASSUME NEW i \in BlockScopes
               PROVE  /\ scopes[i].owner \in Nodes(body) /\ scopes[i].owner < a
                      /\ body.kind[scopes[i].owner] \in Scoping
    OBVIOUS
  <2>1. /\ scopes[i].owner \in Nodes(body) /\ scopes[i].owner < at
        /\ body.kind[scopes[i].owner] \in Scoping
    BY DEF Nesting, InBody
  <2> QED BY <1>1, <1>3, <2>1
<1>7. \A i, j \in BlockScopes : i < j => /\ scopes[i].owner < scopes[j].owner
                                    /\ Ancestor(body, scopes[i].owner, scopes[j].owner)
  BY DEF Nesting, InBody
<1>8. \A k \in Nodes(body) : k < a /\ body.kind[k] \in Scoping /\ Ancestor(body, k, a)
          => \E i \in BlockScopes : scopes[i].owner = k
  BY <1>5 DEF Nesting, InBody
<1>9. \A k \in Nodes(body) : k < a /\ body.kind[k] \in Skipped => ~Ancestor(body, k, a)
  BY <1>5 DEF Nesting, InBody
<1>10. Nesting'
  BY <1>2, <1>4, <1>6, <1>7, <1>8, <1>9 DEF Nesting
<1> QED BY <1>1, <1>3, <1>4, <1>10

LEMMA LeaveNests ==
    ASSUME Shape, Nesting, status = "body", Leaving,
           UNCHANGED <<status, prog, item, at>>, scopes' = sema_leave_scope(scopes)
    PROVE  Nesting' /\ scopes' \in Chains /\ Len(scopes') = Len(scopes) - 1 /\ Len(scopes') >= 2
<1>1. /\ Body(body) /\ body.n \in Nat /\ Len(scopes) \in Nat /\ scopes \in Chains
      /\ Nodes(body) = 1 .. body.n
  BY BodyFacts DEF InBody
<1> DEFINE n == Len(scopes)
<1>2. n > 2 /\ ~Ancestor(body, scopes[n].owner, at) /\ n \in Nat
  BY <1>1 DEF Leaving, Top
<1>3. /\ scopes' \in Chains /\ Len(scopes') = n - 1
      /\ \A i \in 1 .. (n - 1) : scopes'[i] = scopes[i]
  <2>1. LET tt == sema_leave_scope(scopes)
        IN /\ tt \in Chains /\ Len(tt) = Len(scopes) - 1
           /\ \A i \in 1 .. Len(tt) : tt[i] = scopes[i]
    BY <1>1, <1>2, LeaveChain
  <2> QED BY <2>1
<1>4. body' = body
  BY DEF body, It
<1>5. /\ BlockScopes = 3 .. n /\ BlockScopes' = 3 .. (n - 1)
      /\ \A i \in BlockScopes' : i \in BlockScopes /\ scopes'[i] = scopes[i]
      /\ \A i \in BlockScopes : i = n \/ i \in BlockScopes'
  <2>1. BlockScopes = 3 .. n /\ BlockScopes' = 3 .. (n - 1)
    BY <1>3 DEF BlockScopes
  <2> QED BY <1>2, <1>3, <2>1
<1> HIDE DEF n
<1>6. \A k \in Nodes(body) : k < at /\ body.kind[k] \in Scoping /\ Ancestor(body, k, at)
          => \E i \in BlockScopes' : scopes'[i].owner = k
  <2> SUFFICES ASSUME NEW k \in Nodes(body), k < at, body.kind[k] \in Scoping,
                      Ancestor(body, k, at)
               PROVE  \E i \in BlockScopes' : scopes'[i].owner = k
    OBVIOUS
  <2>1. PICK i \in BlockScopes : scopes[i].owner = k
    BY DEF Nesting, InBody
  <2>2. i # n
    BY <1>2, <2>1
  <2> QED BY <1>5, <2>1, <2>2
<1>7. Nesting'
  BY <1>4, <1>5, <1>6 DEF Nesting, InBody
<1>8. n - 1 >= 2
  BY <1>2
<1> QED BY <1>3, <1>7, <1>8 DEF n

-----------------------------------------------------------------------------
(* Declaring the names of the file and of a function.                      *)

TopEntries ==
    IF It.kind = "func"
    THEN <<[name |-> It.name,
            type |-> Func([k \in DOMAIN It.params |-> It.params[k].type.kind])]>>
    ELSE It.entries

LEMMA TopDeclares ==
    ASSUME prog \in Programs, item \in DOMAIN prog
    PROVE  IsList(TopEntries) /\ AsDeclared(TopEntries, 0) /\ item \in Nat
<1>1. /\ It.kind \in {"func", "decl"} /\ IsList(It.entries) /\ item \in Nat
  BY ProgramFacts DEF It
<1>2. CASE It.kind = "func"
  <2> DEFINE e == [name |-> It.name,
                   type |-> Func([k \in DOMAIN It.params |-> It.params[k].type.kind])]
  <2>1. TopEntries = <<e>>
    BY <1>2 DEF TopEntries
  <2>2. /\ NameAt(<<item, 0, 1>>) = It.name
        /\ TypeAt(<<item, 0, 1>>) = Func([k \in DOMAIN It.params |-> It.params[k].type.kind])
    BY <1>2 DEF NameAt, TypeAt, It, Functions
  <2>3. e.name = NameAt(<<item, 0, 1>>) /\ e.type = TypeAt(<<item, 0, 1>>)
    BY <2>2
  <2> HIDE DEF e
  <2>4. IsList(<<e>>) /\ HasName(<<e>>) \subseteq {1}
    BY DEF IsList, HasName
  <2> QED BY <1>1, <2>1, <2>3, <2>4 DEF AsDeclared
<1>3. CASE It.kind # "func"
  BY <1>1, <1>3 DEF TopEntries, AsDeclared, NameAt, TypeAt, It, Functions
<1> QED BY <1>2, <1>3

LEMMA ParamsDeclare ==
    ASSUME prog \in Programs, item \in DOMAIN prog
    PROVE  IsList(It.params) /\ AsDeclared(It.params, 1) /\ item \in Nat
<1>1. IsList(It.params) /\ item \in Nat
  BY ProgramFacts DEF It
<1>2. AsDeclared(It.params, 1)
  BY DEF AsDeclared, NameAt, TypeAt, It
<1> QED BY <1>1, <1>2

LEMMA PassOneStep ==
    ASSUME Shape, PassOne
    PROVE  /\ item \in DOMAIN prog /\ item \in Nat /\ scopes' \in Chains
           /\ Len(scopes') = 1
           /\ scopes'[1].symbols = scopes[1].symbols \o Fresh(TopEntries, global_counter, 0)
           /\ global_counter' = global_counter + Cardinality(HasName(TopEntries))
           /\ decls' = decls \cup Records(TopEntries, global_counter, 0)
           /\ IsList(TopEntries)
<1>1. /\ item \in DOMAIN prog /\ prog \in Programs /\ scopes \in Chains /\ Len(scopes) = 1
      /\ global_counter \in Nat
  BY ProgramFacts DEF Shape, PassOne
<1>2. IsList(TopEntries) /\ AsDeclared(TopEntries, 0) /\ item \in Nat
  BY <1>1, TopDeclares
<1> DEFINE d == DeclareAll(scopes, TopEntries, global_counter, 0)
           fresh == Fresh(TopEntries, global_counter, 0)
           syms == scopes[1].symbols \o fresh
<1>3. scopes' = d.scopes /\ global_counter' = d.counter /\ decls' = decls \cup d.decls
  BY DEF PassOne, TopEntries
<1>4. /\ d.scopes = WithSymbols(scopes, scopes[Len(scopes)].symbols \o fresh)
      /\ d.counter = global_counter + Cardinality(HasName(TopEntries))
      /\ d.decls = Records(TopEntries, global_counter, 0)
  <2> HIDE DEF fresh
  <2>1. 0 \in Nat /\ global_counter \in Nat
    BY <1>1
  <2> QED BY ONLY SMTT(30), <1>2, <2>1, Declaring DEF fresh, d
<1> HIDE DEF d
<1>5. syms \in Seq(Symbols)
  <2>1. scopes[1].symbols \in Seq(Symbols)
    <3>1. 1 \in DOMAIN scopes
      BY <1>1 DEF Chains
    <3> QED BY <1>1, <3>1, ChainElement
  <2>2. fresh \in Seq(Symbols)
    BY <1>1, <1>2, FreshSymbols
  <2> HIDE DEF fresh
  <2> QED BY <2>1, <2>2, ConcatProperties
<1>6. scopes' = WithSymbols(scopes, syms)
  <2> HIDE DEF fresh
  <2> QED BY <1>1, <1>3, <1>4
<1> HIDE DEF syms, fresh
<1>7. scopes' \in Chains /\ Len(scopes') = Len(scopes) /\ scopes'[Len(scopes)].symbols = syms
  <2>1. Len(scopes) > 0
    BY <1>1
  <2> QED BY <1>1, <1>5, <1>6, <2>1, GrowChain
<1> QED BY <1>1, <1>2, <1>3, <1>4, <1>7 DEF syms, fresh

LEMMA EnterFunctionStep ==
    ASSUME Shape, EnterFunction
    PROVE  /\ item \in DOMAIN prog /\ item \in Nat /\ scopes' \in Chains
           /\ Len(scopes') = 2 /\ scopes'[1] = scopes[1]
           /\ scopes'[2].symbols = Fresh(It.params, 0, 1)
           /\ local_counter' = Cardinality(HasName(It.params))
           /\ decls' = decls \cup Records(It.params, 0, 1)
           /\ IsList(It.params)
<1>1. /\ item \in DOMAIN prog /\ prog \in Programs /\ scopes \in Chains /\ Len(scopes) = 1
  BY ProgramFacts DEF Shape, EnterFunction
<1>2. IsList(It.params) /\ AsDeclared(It.params, 1) /\ item \in Nat
  BY <1>1, ParamsDeclare
<1> DEFINE ss == sema_enter_scope(scopes, 0)
           d == DeclareAll(ss, It.params, 0, 1)
           fresh == Fresh(It.params, 0, 1)
<1>3. scopes' = d.scopes /\ local_counter' = d.counter /\ decls' = decls \cup d.decls
  BY DEF EnterFunction
<1>4. ss \in Chains /\ Len(ss) = 2 /\ ss[1] = scopes[1] /\ ss[2].symbols = <<>>
  <2>1. /\ ss \in Chains /\ Len(ss) = Len(scopes) + 1
        /\ \A i \in 1 .. Len(scopes) : ss[i] = scopes[i]
        /\ ss[Len(scopes) + 1].symbols = <<>>
    <3>1. scopes \in Chains /\ 0 \in Nat
      BY <1>1
    <3> QED BY ONLY <3>1, EnterChain DEF ss
  <2> HIDE DEF ss
  <2> QED BY <1>1, <2>1
<1> HIDE DEF ss
<1>5. /\ d.scopes = WithSymbols(ss, ss[Len(ss)].symbols \o fresh)
      /\ d.counter = 0 + Cardinality(HasName(It.params))
      /\ d.decls = Records(It.params, 0, 1)
  <2> HIDE DEF fresh
  <2>1. 0 \in Nat /\ 1 \in Nat
    OBVIOUS
  <2> QED BY ONLY <1>2, <2>1, Declaring DEF fresh, d
<1> HIDE DEF d
<1>6. fresh \in Seq(Symbols)
  BY <1>1, <1>2, FreshSymbols
<1> HIDE DEF fresh
<1>7. <<>> \o fresh = fresh
  BY <1>6, ConcatEmptySeq
<1>8. scopes' = WithSymbols(ss, fresh)
  BY <1>3, <1>4, <1>5, <1>7
<1>9. /\ scopes' \in Chains /\ Len(scopes') = 2 /\ scopes'[2].symbols = fresh
      /\ scopes'[1] = ss[1]
  <2>0. Len(ss) > 0
    BY <1>4
  <2>1. /\ scopes' \in Chains /\ Len(scopes') = Len(ss) /\ scopes'[Len(ss)].symbols = fresh
        /\ \A i \in 1 .. Len(ss) : i # Len(ss) => scopes'[i] = ss[i]
    BY ONLY <1>4, <1>6, <1>8, <2>0, GrowChain
  <2>2. 1 \in 1 .. Len(ss) /\ 1 # Len(ss)
    BY <1>4
  <2> QED BY <1>4, <1>8, <2>1, <2>2
<1>10. Cardinality(HasName(It.params)) \in Nat
  BY <1>2, NamedFinite
<1> QED BY <1>1, <1>2, <1>3, <1>4, <1>5, <1>9, <1>10 DEF fresh

-----------------------------------------------------------------------------
(* Every step keeps the shape of the scopes.                               *)

VarSymbol == SymbolAt(<<item, at, 0>>, local_counter)

LEMMA VarGrows ==
    ASSUME Shape, status = "body", at \in Nodes(body), body.kind[at] = "var"
    PROVE  LET n == Len(scopes)
           IN /\ at > 1 /\ VarSymbol \in Symbols /\ VarSymbol.site = <<item, at, 0>>
              /\ WithVar \in Chains /\ Len(WithVar) = n
              /\ \A i \in 1 .. n : WithVar[i].owner = scopes[i].owner
              /\ \A i \in 1 .. n : i # n => WithVar[i] = scopes[i]
              /\ WithVar[n].symbols = Append(scopes[n].symbols, VarSymbol)
<1>1. /\ Body(body) /\ at \in Nat /\ item \in Nat /\ scopes \in Chains /\ Nodes(body) = 1 .. body.n
      /\ Len(scopes) \in Nat /\ Len(scopes) >= 2 /\ DOMAIN scopes = 1 .. Len(scopes)
      /\ local_counter \in Nat
  BY BodyFacts DEF InBody, Shape
<1>2. at > 1
  BY <1>1 DEF Body
<1> DEFINE s == <<item, at, 0>>
           n == Len(scopes)
           syms == Append(scopes[n].symbols, VarSymbol)
<1>3. VarSymbol \in Symbols /\ VarSymbol.site = s
  <2>1. s \in Sites
    BY <1>1 DEF Sites
  <2> HIDE DEF s
  <2>2. VarSymbol = SymbolAt(s, local_counter)
    BY DEF VarSymbol, s
  <2>3. VarSymbol \in Symbols
    BY <1>1, <2>1, <2>2 DEF Symbols
  <2> QED BY <2>2, <2>3 DEF SymbolAt, Symbol
<1>4. Symbol(body.name[at], body.type[at], local_counter, FALSE, s) = VarSymbol
  <2>1. s[1] = item /\ s[2] = at /\ at # 0 /\ at # 1 /\ at > 1
    BY <1>1, <1>2
  <2> HIDE DEF s
  <2>2. NameAt(s) = body.name[at] /\ TypeAt(s) = body.type[at] /\ ~(s[2] = 0)
    BY <2>1 DEF NameAt, TypeAt, body, It
  <2>3. SymbolAt(s, local_counter) = VarSymbol
    BY DEF s, VarSymbol
  <2> QED BY <2>2, <2>3 DEF SymbolAt, Symbol
<1>5. WithVar = WithSymbols(scopes, syms)
  <2> HIDE DEF s
  <2>1. WithVar = Declared(scopes, VarSymbol)
    BY <1>4 DEF WithVar, s
  <2> QED BY <2>1 DEF Declared, WithSymbols
<1>6. scopes[n].symbols \in Seq(Symbols)
  BY <1>1, ChainElement
<1>7. syms \in Seq(Symbols)
  BY <1>3, <1>6, AppendProperties
<1> HIDE DEF syms, s
<1>8. LET tt == WithSymbols(scopes, syms)
      IN /\ tt \in Chains /\ Len(tt) = Len(scopes)
         /\ \A i \in 1 .. Len(scopes) : tt[i].owner = scopes[i].owner
         /\ \A i \in 1 .. Len(scopes) : i # Len(scopes) => tt[i] = scopes[i]
         /\ tt[Len(scopes)].symbols = syms
  <2>1. Len(scopes) > 0
    BY <1>1
  <2> QED BY ONLY <1>1, <1>7, <2>1, GrowChain
<1> QED BY <1>2, <1>3, <1>5, <1>8 DEF s, syms

(* What may be declared stays the same.                                    *)
LEMMA SymbolsFixed ==
    ASSUME UNCHANGED prog
    PROVE  Symbols' = Symbols /\ Chains' = Chains
<1>1. ASSUME NEW s PROVE NameAt(s)' = NameAt(s) /\ TypeAt(s)' = TypeAt(s)
  BY DEF NameAt, TypeAt, Functions
<1>2. ASSUME NEW s, NEW id PROVE SymbolAt(s, id)' = SymbolAt(s, id)
  BY <1>1 DEF SymbolAt, Symbol
<1>3. Symbols' = Symbols
  BY <1>2 DEF Symbols
<1> QED BY <1>3 DEF Chains

(* The shape of the next state, inside of a function and outside.          *)
LEMMA InsideShape ==
    ASSUME Shape, InBody, status' \in {"body", "exit"}, UNCHANGED <<prog, item>>,
           at' \in 1 .. (body.n + 1), local_counter' \in Nat, global_counter' \in Nat,
           scopes' \in Chains, Len(scopes') >= 2
    PROVE  Shape'
<1>1. body' = body /\ It' = It /\ Chains' = Chains
  BY SymbolsFixed DEF body, It
<1>2. prog \in Programs /\ item \in 1 .. (Len(prog) + 1) /\ item \in DOMAIN prog /\ It.kind = "func"
  BY DEF Shape
<1> QED BY <1>1, <1>2 DEF Shape, InBody

LEMMA OutsideShape ==
    ASSUME Shape, status' \in {"pass1", "pass2", "done"}, UNCHANGED prog,
           item' \in 1 .. (Len(prog) + 1), local_counter' \in Nat, global_counter' \in Nat,
           scopes' \in Chains, Len(scopes') = IF status' = "done" THEN 0 ELSE 1
    PROVE  Shape' /\ Nesting'
<1>1. Chains' = Chains
  BY SymbolsFixed
<1>2. prog \in Programs
  BY DEF Shape
<1> QED BY <1>1, <1>2 DEF Shape, Nesting, InBody

LEMMA InitShape ==
    ASSUME Init
    PROVE  Shape /\ Nesting
<1>1. <<>> \in Chains /\ 0 \in Nat /\ Len(<<>>) = 0
  BY DEF Chains
<1>2. scopes \in Chains /\ Len(scopes) = 0 + 1
  <2>1. LET tt == sema_enter_scope(<<>>, 0) IN tt \in Chains /\ Len(tt) = Len(<<>>) + 1
    BY ONLY <1>1, EnterChain
  <2> QED BY <1>1, <2>1 DEF Init
<1>3. prog \in Programs /\ Len(prog) \in Nat
  BY ProgramFacts DEF Init
<1> QED BY <1>2, <1>3 DEF Init, Shape, Nesting, InBody

LEMMA VisitFacts ==
    ASSUME Shape, NEW kinds, Visit(kinds)
    PROVE  /\ status = "body" /\ InBody /\ ~Leaving /\ at \in Nodes(body) /\ body.kind[at] \in kinds
           /\ at + 1 \in 1 .. (body.n + 1)
  BY BodyFacts DEF Visit, InBody

LEMMA NextShape ==
    ASSUME Shape, Nesting, [Next]_vars
    PROVE  Shape' /\ Nesting'
<1>0. /\ prog \in Programs /\ Len(prog) \in Nat /\ DOMAIN prog = 1 .. Len(prog)
      /\ local_counter \in Nat /\ global_counter \in Nat /\ scopes \in Chains
      /\ item \in 1 .. (Len(prog) + 1)
  BY ProgramFacts DEF Shape
<1>a. local_counter + 1 \in Nat
  BY <1>0
<1>b. /\ InBody => /\ at \in 1 .. (body.n + 1) /\ Len(scopes) >= 2 /\ Len(scopes) + 1 >= 2
      /\ status \in {"pass1", "pass2"} => Len(scopes) = 1
  BY BodyFacts DEF Shape
<1>1. CASE PassOne
  <2>1. /\ item \in DOMAIN prog /\ scopes' \in Chains /\ Len(scopes') = 1
        /\ global_counter' = global_counter + Cardinality(HasName(TopEntries))
        /\ Cardinality(HasName(TopEntries)) \in Nat
    BY <1>1, PassOneStep, NamedFinite
  <2>2. /\ status = "pass1" /\ status' = "pass1" /\ item' = item + 1
        /\ UNCHANGED <<prog, local_counter>>
    BY <1>1 DEF PassOne
  <2>3. global_counter' \in Nat
    BY <1>0, <2>1
  <2>4. item' \in 1 .. (Len(prog) + 1)
    BY <1>0, <2>1, <2>2
  <2> QED BY <1>0, <2>1, <2>2, <2>3, <2>4, OutsideShape
<1>2. CASE BeginPassTwo
  <2>1. /\ status = "pass1" /\ status' = "pass2" /\ item' = 1
        /\ UNCHANGED <<prog, local_counter, global_counter, scopes>>
    BY <1>2 DEF BeginPassTwo
  <2>2. 1 \in 1 .. (Len(prog) + 1)
    BY <1>0
  <2> QED BY <1>0, <1>b, <2>1, <2>2, OutsideShape
<1>3. CASE PassTwoDecl
  <2>1. /\ status = "pass2" /\ status' = "pass2" /\ item' = item + 1 /\ item <= Len(prog)
        /\ UNCHANGED <<prog, local_counter, global_counter, scopes>>
    BY <1>3 DEF PassTwoDecl
  <2>2. item' \in 1 .. (Len(prog) + 1)
    BY <1>0, <2>1
  <2> QED BY <1>0, <1>b, <2>1, <2>2, OutsideShape
<1>4. CASE EnterFunction
  <2>1. /\ item \in DOMAIN prog /\ scopes' \in Chains /\ Len(scopes') = 2
        /\ local_counter' = Cardinality(HasName(It.params))
        /\ Cardinality(HasName(It.params)) \in Nat
    BY <1>4, EnterFunctionStep, NamedFinite
  <2>2. /\ It.kind = "func" /\ status' = "body" /\ at' = 1
        /\ UNCHANGED <<prog, item, global_counter>>
    BY <1>4 DEF EnterFunction
  <2>3. body.n \in Nat /\ body.n > 0 /\ Nodes(body) = 1 .. body.n
    BY SMTT(30), <1>0, <2>1, <2>2, ProgramFacts DEF It, body, Body, Nodes
  <2>4. body' = body /\ It' = It
    BY <2>2 DEF body, It
  <2>5. Shape'
    <3>1. Chains' = Chains
      BY <2>2, SymbolsFixed
    <3>2. 1 \in 1 .. (body.n + 1)
      BY <2>3
    <3> QED BY <1>0, <2>1, <2>2, <2>4, <3>1, <3>2 DEF Shape, InBody
  <2>6. BlockScopes' = {}
    BY <2>1 DEF BlockScopes
  <2>7. Nesting'
    BY <2>2, <2>3, <2>4, <2>6 DEF Nesting
  <2> QED BY <2>5, <2>7
<1>5. CASE Compound
  <2>1. /\ status = "body" /\ InBody /\ ~Leaving /\ at \in Nodes(body) /\ body.kind[at] \in {"compound", "group"}
        /\ at + 1 \in 1 .. (body.n + 1)
    BY <1>5, VisitFacts DEF Compound
  <2>2. /\ scopes' = sema_enter_scope(scopes, at) /\ at' = at + 1
        /\ UNCHANGED <<status, prog, item, local_counter, global_counter>>
    BY <1>5 DEF Compound
  <2>3. Nesting'
    BY <2>1, <2>2, PushNests DEF Scoping
  <2>4. scopes' \in Chains /\ Len(scopes') = Len(scopes) + 1 /\ Len(scopes) \in Nat
    BY <2>1, <2>2, EnterChain, BodyFacts
  <2> QED BY <1>0, <1>b, <2>1, <2>2, <2>3, <2>4, InsideShape
<1>6. CASE LeaveScope
  <2>1. /\ status = "body" /\ Leaving /\ scopes' = sema_leave_scope(scopes)
        /\ UNCHANGED <<status, prog, item, at, local_counter, global_counter>>
    BY <1>6 DEF LeaveScope
  <2>2. Nesting' /\ scopes' \in Chains /\ Len(scopes') >= 2
    BY <2>1, LeaveNests
  <2> QED BY <1>0, <1>b, <2>1, <2>2, InsideShape DEF InBody
<1>7. CASE VarDecl
  <2>1. /\ status = "body" /\ InBody /\ ~Leaving /\ at \in Nodes(body) /\ body.kind[at] = "var"
        /\ at + 1 \in 1 .. (body.n + 1)
    BY <1>7, VisitFacts DEF VarDecl
  <2>2. /\ scopes' = WithVar /\ at' = at + 1 /\ local_counter' = local_counter + 1
        /\ UNCHANGED <<status, prog, item, global_counter>>
    BY <1>7 DEF VarDecl
  <2>3. /\ scopes' \in Chains /\ Len(scopes') = Len(scopes)
        /\ \A i \in 1 .. Len(scopes) : scopes'[i].owner = scopes[i].owner
    BY <2>1, <2>2, VarGrows
  <2>4. \A i \in BlockScopes : scopes'[i].owner = scopes[i].owner
    BY <2>1, <2>3, BodyFacts DEF BlockScopes
  <2>5. Nesting'
    BY <2>1, <2>2, <2>3, <2>4, StayNests DEF Scoping, Skipped
  <2> QED BY <1>0, <1>a, <1>b, <2>1, <2>2, <2>3, <2>5, InsideShape
<1>8. CASE Expressions
  <2>1. /\ status = "body" /\ InBody /\ ~Leaving /\ at \in Nodes(body)
        /\ body.kind[at] \in {"expr", "return", "if", "while", "do"}
        /\ at + 1 \in 1 .. (body.n + 1)
    BY <1>8, VisitFacts DEF Expressions
  <2>2. at' = at + 1 /\ UNCHANGED <<status, prog, item, scopes, local_counter, global_counter>>
    BY <1>8 DEF Expressions
  <2>3. Nesting'
    BY <2>1, <2>2, StayNests DEF Scoping, Skipped
  <2> QED BY <1>0, <1>b, <2>1, <2>2, <2>3, InsideShape
<1>9. CASE For
  <2>1. /\ status = "body" /\ InBody /\ ~Leaving /\ at \in Nodes(body) /\ body.kind[at] = "for"
        /\ at + 1 \in 1 .. (body.n + 1)
    BY <1>9, VisitFacts DEF For
  <2>2. /\ scopes' = sema_enter_scope(scopes, at) /\ at' = at + 1
        /\ UNCHANGED <<status, prog, item, local_counter, global_counter>>
    BY <1>9 DEF For
  <2>3. Nesting'
    BY <2>1, <2>2, PushNests DEF Scoping
  <2>4. scopes' \in Chains /\ Len(scopes') = Len(scopes) + 1 /\ Len(scopes) \in Nat
    BY <2>1, <2>2, EnterChain, BodyFacts
  <2> QED BY <1>0, <1>b, <2>1, <2>2, <2>3, <2>4, InsideShape
<1>10. CASE Skip
  <2>1. /\ status = "body" /\ InBody /\ ~Leaving /\ at \in Nodes(body) /\ body.kind[at] \in Skipped
    BY <1>10, VisitFacts DEF Skip
  <2>2. at' = After(at) /\ UNCHANGED <<status, prog, item, scopes, local_counter, global_counter>>
    BY <1>10 DEF Skip
  <2>3. Nesting' /\ at' \in 1 .. (body.n + 1)
    BY <2>1, <2>2, SkipNests
  <2> QED BY <1>0, <1>b, <2>1, <2>2, <2>3, InsideShape
<1>11. CASE Reject
  <2>1. /\ status = "body" /\ status' = "exit"
        /\ UNCHANGED <<prog, item, at, scopes, local_counter, global_counter>>
    BY <1>11 DEF Reject, Visit
  <2>2. body' = body /\ It' = It /\ BlockScopes' = BlockScopes
    BY <2>1 DEF body, It, BlockScopes
  <2>3. Nesting'
    BY <2>1, <2>2 DEF Nesting, InBody
  <2> QED BY <1>0, <1>b, <2>1, <2>3, InsideShape DEF InBody
<1>12. CASE LeaveFunction
  <2>1. /\ status = "body" /\ ~Leaving /\ at > body.n /\ status' = "pass2" /\ item' = item + 1
        /\ scopes' = sema_leave_scope(scopes)
        /\ UNCHANGED <<prog, local_counter, global_counter>>
    BY <1>12 DEF LeaveFunction
  <2>2. Len(scopes) = 2 /\ scopes \in Chains /\ item \in DOMAIN prog
    BY <2>1, Around, BodyFacts DEF InBody
  <2>3. scopes' \in Chains /\ Len(scopes') = 1
    <3>1. Len(scopes) > 0
      BY <2>2
    <3>2. sema_leave_scope(scopes) \in Chains /\ Len(sema_leave_scope(scopes)) = Len(scopes) - 1
      BY <2>2, <3>1, LeaveChain
    <3> QED BY <2>1, <2>2, <3>2
  <2>4. item' \in 1 .. (Len(prog) + 1)
    BY <1>0, <2>1, <2>2
  <2> QED BY <1>0, <2>1, <2>3, <2>4, OutsideShape
<1>13. CASE Finish
  <2>1. /\ status = "pass2" /\ status' = "done" /\ scopes' = sema_leave_scope(scopes)
        /\ UNCHANGED <<prog, item, local_counter, global_counter>>
    BY <1>13 DEF Finish
  <2>2. Len(scopes) = 1 /\ scopes \in Chains
    BY <2>1 DEF Shape
  <2>3. scopes' \in Chains /\ Len(scopes') = 0
    <3>1. Len(scopes) > 0
      BY <2>2
    <3>2. sema_leave_scope(scopes) \in Chains /\ Len(sema_leave_scope(scopes)) = Len(scopes) - 1
      BY <2>2, <3>1, LeaveChain
    <3> QED BY <2>1, <2>2, <3>2
  <2> QED BY <1>0, <2>1, <2>3, OutsideShape
<1>14. CASE UNCHANGED vars
  <2>1. UNCHANGED <<status, prog, item, at, scopes, local_counter, global_counter>>
    BY <1>14 DEF vars
  <2>2. body' = body /\ It' = It /\ BlockScopes' = BlockScopes
    BY <2>1 DEF body, It, BlockScopes
  <2>3. Chains' = Chains
    BY <2>1, SymbolsFixed
  <2> QED BY <2>1, <2>2, <2>3 DEF Shape, Nesting, InBody
<1> QED BY <1>1, <1>2, <1>3, <1>4, <1>5, <1>6, <1>7, <1>8, <1>9, <1>10, <1>11, <1>12, <1>13,
          <1>14 DEF Next, Ended

LEMMA NestingMatches ==
    ASSUME Shape, Nesting
    PROVE  ScopesMatchNesting
<1>1. status \in {"pass1", "pass2"} => Len(scopes) = 1
  BY DEF Shape
<1>2. ASSUME status = "body" PROVE LET around == {scopes[i].owner : i \in 3 .. Len(scopes)}
          IN /\ Len(scopes) = 2 + Cardinality(around)
             /\ \A i, j \in 3 .. Len(scopes) : i < j => scopes[i].owner < scopes[j].owner
             /\ ~Leaving /\ at <= body.n => around =
                   {k \in Nodes(body) : k # at /\ body.kind[k] \in Scoping /\ Ancestor(body, k, at)}
  <2> DEFINE around == {scopes[i].owner : i \in BlockScopes}
             f == [i \in BlockScopes |-> scopes[i].owner]
  <2>1. /\ Body(body) /\ at \in Nat /\ Len(scopes) \in Nat /\ Len(scopes) >= 2
        /\ Nodes(body) = 1 .. body.n /\ body.n \in Nat
    BY <1>2, BodyFacts DEF InBody
  <2>2. /\ \A i \in BlockScopes : /\ scopes[i].owner \in Nodes(body) /\ scopes[i].owner < at
                             /\ body.kind[scopes[i].owner] \in Scoping
        /\ \A i, j \in BlockScopes : i < j => scopes[i].owner < scopes[j].owner
        /\ \A k \in Nodes(body) : k < at /\ body.kind[k] \in Scoping /\ Ancestor(body, k, at)
              => \E i \in BlockScopes : scopes[i].owner = k
    BY <1>2 DEF Nesting, InBody
  <2>3. IsFiniteSet(BlockScopes) /\ Cardinality(BlockScopes) = Len(scopes) - 2
    <3> DEFINE n == Len(scopes)
    <3>1. n \in Nat /\ n \in Int /\ 3 \in Int /\ n >= 2 /\ BlockScopes = 3 .. n
      BY <2>1 DEF BlockScopes
    <3> HIDE DEF n
    <3>2. IsFiniteSet(3 .. n) /\ Cardinality(3 .. n) = IF 3 > n THEN 0 ELSE n - 3 + 1
      BY <3>1, FS_Interval
    <3>3. (IF 3 > n THEN 0 ELSE n - 3 + 1) = n - 2
      BY <3>1
    <3>4. IsFiniteSet(BlockScopes) /\ Cardinality(BlockScopes) = n - 2
      BY <3>1, <3>2, <3>3
    <3> QED BY <3>4 DEF n
  <2>4. f \in Surjection(BlockScopes, around)
    BY DEF Surjection
  <2>5. f \in Injection(BlockScopes, around)
    <3>1. ASSUME NEW i \in BlockScopes, NEW j \in BlockScopes, scopes[i].owner = scopes[j].owner PROVE i = j
      <4>1. i \in Int /\ j \in Int /\ scopes[i].owner \in Int /\ scopes[j].owner \in Int
        BY <2>1, <2>2 DEF BlockScopes
      <4> QED BY <2>2, <3>1, <4>1
    <3> QED BY <2>4, <3>1 DEF Injection, IsInjective, Surjection
  <2>6. Cardinality(around) = Cardinality(BlockScopes)
    <3> HIDE DEF f, around
    <3> QED BY <2>3, <2>4, <2>5, FS_Surjection
  <2>7. ASSUME ~Leaving, at <= body.n
        PROVE  around = {k \in Nodes(body) : k # at /\ body.kind[k] \in Scoping
                                               /\ Ancestor(body, k, at)}
    <3>1. \A i \in BlockScopes : Ancestor(body, scopes[i].owner, at) /\ scopes[i].owner # at
      BY <1>2, <2>1, <2>2, <2>7, Around DEF InBody
    <3>2. \A k \in Nodes(body) : k # at /\ Ancestor(body, k, at) => k < at
      BY <2>1 DEF Ancestor
    <3> QED BY <2>2, <3>1, <3>2
  <2>8. Len(scopes) = 2 + Cardinality(around)
    <3> HIDE DEF f, around
    <3> QED BY <2>1, <2>3, <2>6
  <2> QED BY <2>2, <2>7, <2>8 DEF BlockScopes
<1> QED BY <1>1, <1>2 DEF ScopesMatchNesting

(* The chain has the shape of the place the analysis is at: the file's     *)
(* scope, then the function's, then one per block or loop entered, each    *)
(* inside the one below it (sema_enter_scope and sema_leave_scope).        *)
THEOREM ScopesKeepShape == Spec => [](Shape /\ Nesting)
<1>1. Init => Shape /\ Nesting
  BY InitShape
<1>2. Shape /\ Nesting /\ [Next]_vars => (Shape /\ Nesting)'
  BY NextShape
<1> QED BY <1>1, <1>2, PTL DEF Spec

(* At every statement of every function the scopes are the blocks and for  *)
(* loops around it, below those of the function and the file, and between  *)
(* functions none is left over: sema_enter_scope and sema_leave_scope are  *)
(* balanced on every path, also past the statements that are skipped.      *)
THEOREM ScopesAreBlocks == Spec => []ScopesMatchNesting
<1>1. Shape /\ Nesting => ScopesMatchNesting
  BY NestingMatches
<1> QED BY <1>1, ScopesKeepShape, PTL

-----------------------------------------------------------------------------
(* Numbers.                                                                *)

(* The variables that must not share a number.                             *)
Together(d, e) == d.global = e.global /\ (d.global \/ d.site[1] = e.site[1])

Distinct(D) ==
    /\ D \subseteq DeclType
    /\ \A d \in D : d.global = (d.site[2] = 0)
    /\ \A d, e \in D : d.site = e.site => d = e
    /\ \A d, e \in D : d.site # e.site /\ Together(d, e) => d.id # e.id

(* What was declared so far, and the numbers below the counters.           *)
Placed(d) ==
    /\ d.global => d.id < global_counter
    /\ status = "pass1" => d.global /\ d.site[1] < item
    /\ status = "pass2" => d.global \/ d.site[1] < item
    /\ InBody => \/ d.global \/ d.site[1] < item
                 \/ /\ d.site[1] = item /\ d.id < local_counter
                    /\ d.site[2] = 1 \/ d.site[2] < at

Numbering == Distinct(decls) /\ \A d \in decls : Placed(d)

LEMMA DistinctUnion ==
    ASSUME NEW D, NEW N, Distinct(D), Distinct(N),
           \A d \in D, e \in N : d.site # e.site /\ (Together(d, e) => d.id < e.id)
    PROVE  Distinct(D \cup N)
<1> DEFINE U == D \cup N
<1>1. U \subseteq DeclType /\ \A d \in U : d.global = (d.site[2] = 0)
  BY DEF Distinct
<1>2. \A d, e \in U : d.site = e.site => d = e
  BY DEF Distinct
<1>3. ASSUME NEW d \in U, NEW e \in U, d.site # e.site, Together(d, e) PROVE d.id # e.id
  <2>1. d.id \in Nat /\ e.id \in Nat
    BY <1>1 DEF DeclType
  <2>2. Together(e, d)
    BY <1>3 DEF Together
  <2> QED BY <1>3, <2>1, <2>2 DEF Distinct
<1> QED BY <1>1, <1>2, <1>3 DEF Distinct

LEMMA RecordsDistinct ==
    ASSUME NEW entries, IsList(entries), NEW counter \in Nat, NEW level \in Nat, item \in Nat
    PROVE  /\ Distinct(Records(entries, counter, level))
           /\ \A d \in Records(entries, counter, level) :
                 /\ d.site[1] = item /\ d.site[2] = level /\ d.global = (level = 0)
                 /\ counter <= d.id /\ d.id < counter + Cardinality(HasName(entries))
<1> DEFINE N == HasName(entries)
           rec(k) == [site |-> <<item, level, k>>, id |-> counter + Rank(N, k), global |-> level = 0]
<1>1. N \subseteq 1 .. Len(entries) /\ N \subseteq Int /\ IsFiniteSet(N) /\ Cardinality(N) \in Nat
  BY NamedFinite
<1>2. ASSUME NEW k \in N PROVE Rank(N, k) \in Nat /\ Rank(N, k) < Cardinality(N)
  BY <1>1, RankBelow
<1>3. ASSUME NEW k \in N, NEW l \in N, k # l PROVE Rank(N, k) # Rank(N, l)
  <2>1. CASE k < l
    BY <1>1, <1>2, <2>1, RankGrows
  <2>2. CASE l < k
    BY <1>1, <1>2, <2>2, RankGrows
  <2> QED BY <1>1, <1>3, <2>1, <2>2
<1>4. \A k \in N : k \in Nat
  BY <1>1, ListFacts
<1> HIDE DEF N
<1>5. \A k \in N : rec(k) \in DeclType /\ rec(k).global = (rec(k).site[2] = 0)
  BY <1>2, <1>4 DEF DeclType, Sites
<1>6. \A k, l \in N : rec(k).site = rec(l).site => k = l
  OBVIOUS
<1>7. \A k, l \in N : k # l => rec(k).id # rec(l).id
  BY <1>2, <1>3
<1>8. \A k \in N : /\ rec(k).site[1] = item /\ rec(k).site[2] = level
                   /\ rec(k).global = (level = 0)
                   /\ counter <= rec(k).id /\ rec(k).id < counter + Cardinality(N)
  BY <1>1, <1>2
<1>9. Records(entries, counter, level) = {rec(k) : k \in N}
  BY DEF Records, N
<1> HIDE DEF rec
<1> QED BY <1>5, <1>6, <1>7, <1>8, <1>9 DEF Distinct, N

LEMMA PassOneNumbers ==
    ASSUME Shape, Numbering, PassOne
    PROVE  Numbering'
<1> DEFINE new == Records(TopEntries, global_counter, 0)
<1>1. /\ item \in Nat /\ global_counter \in Nat /\ IsList(TopEntries)
      /\ global_counter' = global_counter + Cardinality(HasName(TopEntries))
      /\ decls' = decls \cup new
  BY PassOneStep DEF Shape
<1>2. /\ Distinct(new)
      /\ \A d \in new : /\ d.site[1] = item /\ d.site[2] = 0 /\ d.global = (0 = 0)
                        /\ global_counter <= d.id
                        /\ d.id < global_counter + Cardinality(HasName(TopEntries))
  <2>1. 0 \in Nat
    OBVIOUS
  <2> QED BY ONLY <1>1, <2>1, RecordsDistinct
<1>3. Cardinality(HasName(TopEntries)) \in Nat
  BY <1>1, NamedFinite
<1> HIDE DEF new
<1>4. status = "pass1" /\ status' = "pass1" /\ item' = item + 1
  BY DEF PassOne
<1>5. /\ Distinct(decls) /\ decls \subseteq DeclType /\ new \subseteq DeclType
      /\ \A d \in decls : d.global /\ d.site[1] < item /\ d.id < global_counter
  BY <1>2, <1>4 DEF Numbering, Placed, Distinct
<1>6. \A d \in decls \cup new : d.id \in Nat /\ d.site[1] \in Nat
  BY <1>5 DEF DeclType, Sites
<1>7. \A d \in decls, e \in new : d.site # e.site /\ d.id < e.id
  BY <1>1, <1>2, <1>5, <1>6
<1>8. Distinct(decls \cup new)
  BY <1>2, <1>5, <1>7, DistinctUnion
<1>9. \A d \in decls \cup new : d.global /\ d.site[1] < item + 1 /\ d.id < global_counter'
  <2> DEFINE c == Cardinality(HasName(TopEntries))
  <2>1. /\ global_counter' = global_counter + c /\ c \in Nat
        /\ \A d \in new : d.site[1] = item /\ d.global /\ d.id < global_counter + c
    BY <1>1, <1>2, <1>3
  <2> HIDE DEF c
  <2> QED BY <1>1, <1>5, <1>6, <2>1
<1> QED BY <1>1, <1>4, <1>8, <1>9 DEF Numbering, Placed, InBody, Distinct, Together

LEMMA EnterFunctionNumbers ==
    ASSUME Shape, Numbering, EnterFunction
    PROVE  Numbering'
<1> DEFINE new == Records(It.params, 0, 1)
<1>1. /\ item \in Nat /\ IsList(It.params)
      /\ local_counter' = Cardinality(HasName(It.params))
      /\ decls' = decls \cup new
  BY EnterFunctionStep
<1>2. /\ Distinct(new)
      /\ \A d \in new : /\ d.site[1] = item /\ d.site[2] = 1 /\ d.global = (1 = 0)
                        /\ d.id < 0 + Cardinality(HasName(It.params))
  <2>1. 0 \in Nat /\ 1 \in Nat
    OBVIOUS
  <2> QED BY ONLY <1>1, <2>1, RecordsDistinct
<1>3. Cardinality(HasName(It.params)) \in Nat
  BY <1>1, NamedFinite
<1> HIDE DEF new
<1>4. status = "pass2" /\ status' = "body" /\ UNCHANGED <<item, global_counter>>
  BY DEF EnterFunction
<1>5. /\ Distinct(decls) /\ decls \subseteq DeclType /\ new \subseteq DeclType
      /\ \A d \in decls : (d.global \/ d.site[1] < item) /\ (d.global => d.id < global_counter)
      /\ \A d \in decls : d.global = (d.site[2] = 0)
  BY <1>2, <1>4 DEF Numbering, Placed, Distinct
<1>6. \A d \in decls \cup new : d.id \in Nat /\ d.site[1] \in Nat /\ d.global \in BOOLEAN
  BY <1>5 DEF DeclType, Sites
<1>7. \A d \in decls, e \in new : d.site # e.site /\ ~Together(d, e)
  BY <1>1, <1>2, <1>5, <1>6 DEF Together
<1>8. Distinct(decls \cup new)
  BY <1>2, <1>5, <1>7, DistinctUnion
<1>9. \A d \in new : /\ ~d.global /\ d.site[1] = item /\ d.site[2] = 1
                     /\ d.id < local_counter'
  BY <1>1, <1>2, <1>3, <1>6
<1> QED BY <1>1, <1>4, <1>5, <1>8, <1>9 DEF Numbering, Placed, InBody, Distinct, Together

LEMMA VarNumbers ==
    ASSUME Shape, Numbering, VarDecl
    PROVE  Numbering'
<1> DEFINE s == <<item, at, 0>>
           e == [site |-> s, id |-> local_counter, global |-> FALSE]
<1>1. /\ item \in Nat /\ at \in Nat /\ local_counter \in Nat /\ at > 1
      /\ status = "body" /\ body.kind[at] = "var" /\ at \in Nodes(body)
  <2>1. status = "body" /\ InBody /\ at \in Nodes(body) /\ body.kind[at] = "var"
    BY VisitFacts DEF VarDecl
  <2> QED BY <2>1, BodyFacts, VarGrows DEF Shape
<1>2. /\ decls' = decls \cup {e} /\ local_counter' = local_counter + 1 /\ at' = at + 1
      /\ UNCHANGED <<status, item, global_counter>>
  BY DEF VarDecl
<1>3. e \in DeclType /\ e.site = s /\ s[1] = item /\ s[2] = at /\ ~e.global /\ e.id = local_counter
  BY <1>1 DEF DeclType, Sites
<1> HIDE DEF e, s
<1>4. Distinct({e})
  <2>1. e.global = (e.site[2] = 0)
    <3>1. e.site[2] # 0 /\ e.global = FALSE
      BY <1>1, <1>3 DEF e
    <3> QED BY <3>1
  <2> QED BY <1>3, <2>1 DEF Distinct
<1>5. /\ Distinct(decls) /\ decls \subseteq DeclType
      /\ \A d \in decls : d.global = (d.site[2] = 0) /\ (d.global => d.id < global_counter)
      /\ \A d \in decls : \/ d.global \/ d.site[1] < item
                          \/ /\ d.site[1] = item /\ d.id < local_counter
                             /\ d.site[2] = 1 \/ d.site[2] < at
  BY <1>1 DEF Numbering, Placed, Distinct, InBody
<1>6. \A d \in decls : d.id \in Nat /\ d.site[1] \in Nat /\ d.site[2] \in Nat /\ d.global \in BOOLEAN
  BY <1>5 DEF DeclType, Sites
<1>7. \A d \in decls : d.site # e.site
  BY <1>1, <1>3, <1>5, <1>6
<1>8. \A d \in decls : Together(d, e) => d.id < e.id
  BY <1>1, <1>3, <1>5, <1>6 DEF Together
<1>9. Distinct(decls \cup {e})
  BY <1>4, <1>5, <1>7, <1>8, DistinctUnion
<1>10. \A d \in decls : \/ d.global \/ d.site[1] < item
                        \/ /\ d.site[1] = item /\ d.id < local_counter + 1
                           /\ d.site[2] = 1 \/ d.site[2] < at + 1
  BY <1>1, <1>5, <1>6
<1>11. /\ e.site[1] = item /\ e.id < local_counter + 1 /\ e.site[2] < at + 1 /\ ~e.global
  BY <1>1, <1>3
<1>12. \A d \in decls \cup {e} : Placed(d)'
  BY <1>1, <1>2, <1>5, <1>10, <1>11 DEF Placed, InBody
<1> QED BY <1>2, <1>9, <1>12 DEF Numbering, Distinct, Together

LEMMA SameNumbers ==
    ASSUME Shape, Numbering, UNCHANGED <<decls, global_counter>>,
           \/ UNCHANGED <<status, item, at, local_counter>>
           \/ BeginPassTwo \/ PassTwoDecl \/ LeaveFunction \/ Finish \/ Reject
           \/ InBody /\ at' >= at /\ at' \in Nat /\ UNCHANGED <<status, item, local_counter>>
    PROVE  Numbering'
<1>1. \A d \in decls : d.site[1] \in Nat /\ d.site[2] \in Nat
  BY DEF Numbering, Distinct, DeclType, Sites
<1>2. item \in Nat /\ (InBody => at \in Nat)
  BY ProgramFacts DEF Shape
<1>3. ASSUME NEW d \in decls PROVE Placed(d)'
  <2>1. Placed(d) /\ d.site[1] \in Nat /\ d.site[2] \in Nat
    BY <1>1, <1>3 DEF Numbering
  <2>2. CASE UNCHANGED <<status, item, at, local_counter>>
    BY <2>1, <2>2 DEF Placed, InBody
  <2>3. CASE BeginPassTwo
    BY <2>1, <2>3 DEF Placed, InBody, BeginPassTwo
  <2>4. CASE PassTwoDecl
    BY <1>2, <2>1, <2>4 DEF Placed, InBody, PassTwoDecl
  <2>5. CASE LeaveFunction
    BY <1>2, <2>1, <2>5 DEF Placed, InBody, LeaveFunction
  <2>6. CASE Finish
    BY <2>1, <2>6 DEF Placed, InBody, Finish
  <2>7. CASE Reject
    BY <2>1, <2>7 DEF Placed, InBody, Reject, Visit
  <2>8. CASE InBody /\ at' >= at /\ at' \in Nat /\ UNCHANGED <<status, item, local_counter>>
    BY <1>2, <2>1, <2>8 DEF Placed, InBody
  <2> QED BY <2>2, <2>3, <2>4, <2>5, <2>6, <2>7, <2>8
<1> QED BY <1>3 DEF Numbering, Distinct, Together

LEMMA NextNumbers ==
    ASSUME Shape, Numbering, [Next]_vars
    PROVE  Numbering'
<1>1. ASSUME NEW kinds, Visit(kinds) PROVE InBody /\ at \in Nat /\ at + 1 >= at /\ at + 1 \in Nat
  BY <1>1, VisitFacts, BodyFacts
<1>2. CASE PassOne
  BY <1>2, PassOneNumbers
<1>3. CASE EnterFunction
  BY <1>3, EnterFunctionNumbers
<1>4. CASE VarDecl
  BY <1>4, VarNumbers
<1>5. CASE BeginPassTwo
  BY <1>5, SameNumbers DEF BeginPassTwo
<1>6. CASE PassTwoDecl
  BY <1>6, SameNumbers DEF PassTwoDecl
<1>7. CASE Compound
  BY <1>1, <1>7, SameNumbers DEF Compound
<1>8. CASE LeaveScope
  BY <1>8, SameNumbers DEF LeaveScope
<1>9. CASE Expressions
  BY <1>1, <1>9, SameNumbers DEF Expressions
<1>10. CASE For
  BY <1>1, <1>10, SameNumbers DEF For
<1>11. CASE Skip
  <2>1. /\ InBody /\ at \in Nodes(body) /\ at \in Nat /\ Body(body) /\ body.n \in Nat
        /\ UNCHANGED <<status, item, local_counter, decls, global_counter>> /\ at' = After(at)
    BY <1>1, <1>11, VisitFacts, BodyFacts DEF Skip
  <2>2. After(at) \in (at + 1) .. (body.n + 1)
    BY <2>1, AfterIsNext
  <2>3. at' >= at /\ at' \in Nat
    BY <2>1, <2>2
  <2> QED BY <2>1, <2>3, SameNumbers
<1>12. CASE Reject
  BY <1>12, SameNumbers DEF Reject
<1>13. CASE LeaveFunction
  BY <1>13, SameNumbers DEF LeaveFunction
<1>14. CASE Finish
  BY <1>14, SameNumbers DEF Finish
<1>15. CASE UNCHANGED vars
  BY <1>15, SameNumbers DEF vars
<1> QED BY <1>2, <1>3, <1>4, <1>5, <1>6, <1>7, <1>8, <1>9, <1>10, <1>11, <1>12, <1>13, <1>14,
          <1>15 DEF Next, Ended

LEMMA InitNumbers ==
    ASSUME Init
    PROVE  Numbering
BY DEF Init, Numbering, Distinct

(* What was declared so far has numbers below the counter that gave them,  *)
(* and each number was given once.                                         *)
THEOREM NumbersStay == Spec => []Numbering
<1>1. Init => Numbering
  BY InitNumbers
<1>2. Shape /\ Nesting /\ Numbering /\ [Next]_vars => Numbering'
  BY NextNumbers
<1> QED BY <1>1, <1>2, ScopesKeepShape, PTL DEF Spec

(* No two variables of a function get one number, however blocks nest and  *)
(* follow each other, and no two globals do: the counters only grow, and   *)
(* local_counter starts anew where a function begins and nowhere else.     *)
THEOREM NumbersAreDistinct == Spec => []NumbersDistinct
<1>1. Numbering => NumbersDistinct
  BY DEF Numbering, Distinct, Together, NumbersDistinct
<1> QED BY <1>1, NumbersStay, PTL

-----------------------------------------------------------------------------
(* What a name denotes for the analysis: the scope rules over the scopes   *)
(* that it enters, among which are the groups.                             *)
ScopeOf(b, m) ==
    CHOOSE k \in Nodes(b) :
        /\ k # m /\ b.kind[k] \in Scoping /\ Ancestor(b, k, m)
        /\ \A j \in Nodes(b) : j # m /\ b.kind[j] \in Scoping /\ Ancestor(b, j, m) => j <= k

InScope(b, m, x) ==
    {d \in Nodes(b) : /\ b.kind[d] = "var" /\ b.name[d] = x /\ d <= m /\ Reached(b, d)
                      /\ Ancestor(b, ScopeOf(b, d), m)}

NearestScope(b, S) ==
    CHOOSE d \in S : \A c \in S :
        ScopeOf(b, c) < ScopeOf(b, d) \/ (ScopeOf(b, c) = ScopeOf(b, d) /\ c <= d)

Denotes(i, m, x) ==
    LET b == prog[i].body
        vs == InScope(b, m, x)
    IN CASE vs # {} -> <<i, NearestScope(b, vs), 0>>
         [] vs = {} /\ Params(i, x) # {} -> Last(Params(i, x))
         [] vs = {} /\ Params(i, x) = {} /\ Globals(x) # {} -> Last(Globals(x))
         [] OTHER -> Nowhere

SiteOf(u) == Denotes(u[1], u[2], NameOf(u))

CutBy(u) ==
    LET e == prog[u[1]].body.exprs[u[2]][u[3]]
        ks == ParamKinds(Denotes(u[1], u[2], e.callee))
        kind(k) == IF IsName(e.args[k]) THEN KindAt(Denotes(u[1], u[2], e.args[k]))
                   ELSE LiteralType(e.args[k]).kind
    IN IsCall(e) /\ \E k \in DOMAIN e.args : k < u[4] /\ k <= Len(ks) /\ kind(k) # ks[k]

UnseenBy(u) == ~Reached(prog[u[1]].body, u[2]) \/ CutBy(u)

-----------------------------------------------------------------------------
(* What a scope holds.                                                     *)

Before(s, t) ==
    \/ s[1] < t[1]
    \/ s[1] = t[1] /\ s[2] < t[2]
    \/ s[1] = t[1] /\ s[2] = t[2] /\ s[3] < t[3]

Places(syms) == {syms[k].site : k \in DOMAIN syms}
InOrder(syms) == \A k, l \in DOMAIN syms : k < l => Before(syms[k].site, syms[l].site)

(* The globals of the first n declarations, the named parameters, and what *)
(* was declared before node n directly in the block o.                     *)
GlobalsOf(i) == IF prog[i].kind = "func" THEN {1} ELSE HasName(prog[i].entries)
FileSites(n) == {s \in Sites : s[1] \in 1 .. n /\ s[2] = 0 /\ s[3] \in GlobalsOf(s[1])}
ParamSites == {<<item, 1, k>> : k \in HasName(It.params)}
Local(d, o) == body.kind[d] = "var" /\ Reached(body, d) /\ ScopeOf(body, d) = o
LocalSites(o, n) == {<<item, d, 0>> : d \in {d \in Nodes(body) : d < n /\ Local(d, o)}}

Filed == IF status = "pass1" THEN item - 1 ELSE Len(prog)

Held(i) ==
    IF i = 1 THEN FileSites(Filed)
    ELSE IF i = 2 THEN ParamSites ELSE LocalSites(scopes[i].owner, at)

Recorded(sym) == [site |-> sym.site, id |-> sym.qbe_id, global |-> sym.is_global]

Kept(i) ==
    /\ InOrder(scopes[i].symbols)
    /\ Places(scopes[i].symbols) = Held(i)
    /\ \A k \in DOMAIN scopes[i].symbols : Recorded(scopes[i].symbols[k]) \in decls

Contents == \A i \in DOMAIN scopes : Kept(i)

LEMMA FreshPlaces ==
    ASSUME NEW entries, IsList(entries), NEW counter \in Nat, NEW level \in Nat, item \in Nat
    PROVE  LET f == Fresh(entries, counter, level)
           IN /\ InOrder(f)
              /\ Places(f) = {<<item, level, k>> : k \in HasName(entries)}
              /\ \A n \in DOMAIN f : Recorded(f[n]) \in Records(entries, counter, level)
<1> DEFINE N == HasName(entries)
           f == Fresh(entries, counter, level)
           c == Cardinality(N)
           at_(k) == <<item, level, k>>
<1>1. N \subseteq Int /\ IsFiniteSet(N)
  BY NamedFinite
<1>2. /\ c \in Nat
      /\ \A n \in 1 .. c : Nth(N, n) \in N /\ Rank(N, Nth(N, n)) = n - 1
      /\ \A k \in N : Rank(N, k) + 1 \in 1 .. c /\ Nth(N, Rank(N, k) + 1) = k
      /\ \A m, n \in 1 .. c : m < n => Nth(N, m) < Nth(N, n)
  BY <1>1, NthElement
<1>3. DOMAIN f = 1 .. c
  BY DEF Fresh
<1>4. ASSUME NEW n \in 1 .. c
      PROVE  /\ f[n].site = at_(Nth(N, n)) /\ f[n].qbe_id = counter + (n - 1)
             /\ f[n].is_global = (level = 0)
  <2>1. f[n] = SymbolAt(at_(Nth(N, n)), counter + (n - 1))
    BY DEF Fresh
  <2> HIDE DEF f
  <2>2. at_(Nth(N, n))[2] = level
    OBVIOUS
  <2> HIDE DEF at_
  <2> QED BY <2>1, <2>2 DEF SymbolAt, Symbol
<1> HIDE DEF f, N, c
<1>5. Places(f) = {at_(k) : k \in N}
  <2>1. \A n \in DOMAIN f : f[n].site \in {at_(k) : k \in N}
    BY <1>2, <1>3, <1>4
  <2>2. \A k \in N : \E n \in DOMAIN f : f[n].site = at_(k)
    BY <1>2, <1>3, <1>4
  <2> HIDE DEF at_
  <2> QED BY <2>1, <2>2 DEF Places
<1>6. InOrder(f)
  <2> SUFFICES ASSUME NEW m \in 1 .. c, NEW n \in 1 .. c, m < n PROVE Before(f[m].site, f[n].site)
    BY <1>3 DEF InOrder
  <2>1. Nth(N, m) < Nth(N, n)
    BY <1>2
  <2> QED BY <1>4, <2>1 DEF Before
<1>7. ASSUME NEW n \in DOMAIN f PROVE Recorded(f[n]) \in Records(entries, counter, level)
  <2> DEFINE k == Nth(N, n)
  <2>1. k \in N /\ Rank(N, k) = n - 1
    BY <1>2, <1>3, <1>7
  <2>2. Recorded(f[n]) = [site |-> at_(k), id |-> counter + Rank(N, k), global |-> level = 0]
    BY <1>3, <1>4, <1>7, <2>1 DEF Recorded
  <2> HIDE DEF k
  <2> QED BY <2>1, <2>2 DEF Records, N
<1> QED BY <1>5, <1>6, <1>7 DEF f, N

LEMMA Longer ==
    ASSUME NEW s \in Seq(Symbols), NEW f \in Seq(Symbols), InOrder(s), InOrder(f),
           \A p \in Places(s), q \in Places(f) : Before(p, q)
    PROVE  /\ InOrder(s \o f) /\ Places(s \o f) = Places(s) \cup Places(f)
           /\ \A k \in DOMAIN (s \o f) : \/ \E l \in DOMAIN s : (s \o f)[k] = s[l]
                                         \/ \E l \in DOMAIN f : (s \o f)[k] = f[l]
<1> DEFINE t == s \o f
           m == Len(s)
           n == Len(f)
<1>1. /\ m \in Nat /\ n \in Nat /\ DOMAIN s = 1 .. m /\ DOMAIN f = 1 .. n /\ DOMAIN t = 1 .. (m + n)
      /\ \A k \in 1 .. (m + n) : t[k] = IF k <= m THEN s[k] ELSE f[k - m]
  <2>1. m \in Nat /\ n \in Nat /\ DOMAIN s = 1 .. m /\ DOMAIN f = 1 .. n
    BY LenProperties
  <2>2. t \in Seq(Symbols) /\ Len(t) = m + n
        /\ \A k \in 1 .. (m + n) : t[k] = IF k <= m THEN s[k] ELSE f[k - m]
    BY ConcatProperties
  <2>3. DOMAIN t = 1 .. Len(t)
    <3> HIDE DEF t
    <3> QED BY <2>2, LenProperties
  <2> HIDE DEF t, m, n
  <2> QED BY <2>1, <2>2, <2>3
<1> HIDE DEF t, m, n
<1>2. \A l \in 1 .. m : l \in 1 .. (m + n) /\ t[l] = s[l]
  BY <1>1
<1>3. \A l \in 1 .. n : l + m \in 1 .. (m + n) /\ t[l + m] = f[l]
  BY <1>1
<1>4. \A k \in 1 .. (m + n) : (k \in 1 .. m /\ t[k] = s[k]) \/ (k > m /\ k - m \in 1 .. n /\ t[k] = f[k - m])
  BY <1>1
<1>5. Places(t) = Places(s) \cup Places(f)
  <2>1. \A l \in 1 .. m : s[l].site \in Places(s)
    BY <1>1 DEF Places
  <2>2. \A l \in 1 .. n : f[l].site \in Places(f)
    BY <1>1 DEF Places
  <2>3. \A k \in 1 .. (m + n) : t[k].site \in Places(t)
    BY <1>1 DEF Places
  <2>4. ASSUME NEW p \in Places(t) PROVE p \in Places(s) \cup Places(f)
    <3>1. PICK k \in 1 .. (m + n) : p = t[k].site
      BY <1>1, <2>4 DEF Places
    <3> QED BY <1>4, <2>1, <2>2, <3>1
  <2>5. ASSUME NEW p \in Places(s) PROVE p \in Places(t)
    <3>1. PICK l \in 1 .. m : p = s[l].site
      BY <1>1, <2>5 DEF Places
    <3> QED BY <1>2, <2>3, <3>1
  <2>6. ASSUME NEW p \in Places(f) PROVE p \in Places(t)
    <3>1. PICK l \in 1 .. n : p = f[l].site
      BY <1>1, <2>6 DEF Places
    <3> QED BY <1>3, <2>3, <3>1
  <2> QED BY <2>4, <2>5, <2>6
<1>6. InOrder(t)
  <2> SUFFICES ASSUME NEW k \in 1 .. (m + n), NEW l \in 1 .. (m + n), k < l
               PROVE  Before(t[k].site, t[l].site)
    BY <1>1 DEF InOrder
  <2>1. CASE k \in 1 .. m /\ l \in 1 .. m
    BY <1>1, <1>2, <2>1 DEF InOrder
  <2>2. CASE k \in 1 .. m /\ l > m
    <3>1. t[k].site \in Places(s)
      BY <1>1, <1>2, <2>2 DEF Places
    <3>2. l - m \in 1 .. n /\ t[l] = f[l - m]
      BY <1>1, <1>4, <2>2
    <3>3. t[l].site \in Places(f)
      BY <1>1, <3>2 DEF Places
    <3> QED BY <3>1, <3>3
  <2>3. CASE k > m
    <3>1. /\ k - m \in 1 .. n /\ l - m \in 1 .. n /\ k - m < l - m
          /\ t[k] = f[k - m] /\ t[l] = f[l - m]
      BY <1>1, <1>4, <2>3
    <3> QED BY <1>1, <3>1 DEF InOrder
  <2> QED BY <1>1, <1>4, <2>1, <2>2, <2>3
<1>7. \A k \in DOMAIN t : (\E l \in DOMAIN s : t[k] = s[l]) \/ (\E l \in DOMAIN f : t[k] = f[l])
  BY <1>1, <1>4
<1> QED BY <1>5, <1>6, <1>7 DEF t

(* What the next state's scopes must hold.                                 *)
LEMMA FileHeld ==
    ASSUME UNCHANGED prog, NEW n, Filed' = n
    PROVE  Held(1)' = FileSites(n)
BY DEF Held, FileSites, GlobalsOf

LEMMA ParamHeld ==
    ASSUME UNCHANGED <<prog, item>>
    PROVE  Held(2)' = ParamSites
BY DEF Held, ParamSites, It

LEMMA BlockHeld ==
    ASSUME UNCHANGED <<prog, item>>, NEW i, i # 1, i # 2, NEW o, scopes'[i].owner = o,
           NEW a, at' = a
    PROVE  Held(i)' = LocalSites(o, a)
BY DEF Held, LocalSites, Local, body, It

LEMMA KeptStays ==
    ASSUME NEW i, Kept(i), scopes'[i].symbols = scopes[i].symbols, Held(i)' = Held(i),
           decls \subseteq decls'
    PROVE  Kept(i)'
BY DEF Kept, Recorded

(* The block a node is in.                                                 *)
LEMMA BlockOf ==
    ASSUME NEW b, Body(b), NEW m \in Nodes(b), m > 1
    PROVE  LET k == ScopeOf(b, m)
           IN /\ k \in Nodes(b) /\ k < m /\ b.kind[k] \in Scoping /\ Ancestor(b, k, m)
              /\ \A j \in Nodes(b) : j # m /\ b.kind[j] \in Scoping /\ Ancestor(b, j, m) => j <= k
<1> DEFINE S == {k \in Nodes(b) : k # m /\ b.kind[k] \in Scoping /\ Ancestor(b, k, m)}
<1>1. b.n \in Nat /\ Nodes(b) = 1 .. b.n
  BY DEF Body, Nodes
<1>2. 1 \in S
  <2>0. b.n >= 1 /\ 1 \in Nodes(b)
    BY <1>1
  <2>1. 1 \in Nodes(b) /\ b.kind[1] = "compound"
    BY <2>0 DEF Body
  <2>2. \A k \in 2 .. m : b.par[k] >= 1
    BY SMTT(30), <1>1 DEF Body
  <2>3. Ancestor(b, 1, m)
    BY <1>1, <2>2 DEF Ancestor
  <2> QED BY <2>1, <2>3 DEF Scoping
<1>3. S \in SUBSET (0 .. b.n)
  BY <1>1
<1>4. PICK top \in S : \A j \in S : j <= top
  <2> HIDE DEF S
  <2> QED BY <1>1, <1>2, <1>3, HasLargest
<1>5. LET k == ScopeOf(b, m)
      IN /\ k \in Nodes(b) /\ k # m /\ b.kind[k] \in Scoping /\ Ancestor(b, k, m)
         /\ \A j \in Nodes(b) : j # m /\ b.kind[j] \in Scoping /\ Ancestor(b, j, m) => j <= k
  BY <1>4 DEF ScopeOf
<1>6. \A k \in Nodes(b) : Ancestor(b, k, m) => k <= m
  BY <1>1 DEF Ancestor
<1> HIDE DEF S
<1> QED BY <1>1, <1>5, <1>6

LEMMA TopIsBlock ==
    ASSUME Shape, Nesting, status = "body", ~Leaving, at \in Nodes(body), at > 1
    PROVE  /\ Len(scopes) > 2 /\ Len(scopes) \in BlockScopes
           /\ scopes[Len(scopes)].owner = ScopeOf(body, at)
<1> DEFINE n == Len(scopes)
           o == ScopeOf(body, at)
<1>1. /\ Body(body) /\ n \in Nat /\ n >= 2 /\ Nodes(body) = 1 .. body.n /\ at \in Nat /\ body.n \in Nat
  BY BodyFacts DEF InBody
<1>2. /\ o \in Nodes(body) /\ o < at /\ body.kind[o] \in Scoping /\ Ancestor(body, o, at)
      /\ \A j \in Nodes(body) : j # at /\ body.kind[j] \in Scoping /\ Ancestor(body, j, at) => j <= o
  BY <1>1, BlockOf
<1> HIDE DEF o
<1>3. PICK i \in BlockScopes : scopes[i].owner = o
  BY <1>2 DEF Nesting, InBody
<1>4. i \in 3 .. n /\ n > 2 /\ n \in BlockScopes
  BY <1>1, <1>3 DEF BlockScopes
<1>5. /\ scopes[n].owner \in Nodes(body) /\ scopes[n].owner < at
      /\ body.kind[scopes[n].owner] \in Scoping /\ Ancestor(body, scopes[n].owner, at)
      /\ i < n => o < scopes[n].owner
  BY <1>3, <1>4, Around DEF Nesting, InBody
<1> HIDE DEF n
<1>6. scopes[n].owner <= o
  BY <1>1, <1>2, <1>5
<1>7. i = n
  BY <1>1, <1>2, <1>4, <1>5, <1>6
<1> QED BY <1>3, <1>4, <1>7 DEF n, o

LEMMA LocalsSame ==
    ASSUME Body(body), NEW o, NEW m \in Nat, NEW n \in Nat, m <= n,
           \A d \in Nodes(body) : m <= d /\ d < n => ~Local(d, o)
    PROVE  LocalSites(o, n) = LocalSites(o, m)
<1>1. \A d \in Nodes(body) : d \in Nat
  BY DEF Body, Nodes
<1>2. \A d \in Nodes(body) : d < n /\ Local(d, o) <=> d < m /\ Local(d, o)
  BY <1>1
<1> QED BY <1>2 DEF LocalSites

LEMMA PassOneContents ==
    ASSUME Shape, Contents, PassOne
    PROVE  Contents'
<1> DEFINE f == Fresh(TopEntries, global_counter, 0)
           s == scopes[1].symbols
<1>1. /\ item \in DOMAIN prog /\ item \in Nat /\ scopes' \in Chains /\ Len(scopes') = 1
      /\ scopes'[1].symbols = s \o f
      /\ decls' = decls \cup Records(TopEntries, global_counter, 0)
      /\ IsList(TopEntries) /\ global_counter \in Nat
  BY PassOneStep DEF Shape
<1>2. /\ InOrder(f) /\ Places(f) = {<<item, 0, k>> : k \in HasName(TopEntries)}
      /\ \A n \in DOMAIN f : Recorded(f[n]) \in Records(TopEntries, global_counter, 0)
      /\ f \in Seq(Symbols)
  <2>1. 0 \in Nat
    OBVIOUS
  <2> QED BY ONLY <1>1, <2>1, FreshPlaces, FreshSymbols
<1>3. status = "pass1" /\ status' = "pass1" /\ item' = item + 1 /\ UNCHANGED prog
  BY DEF PassOne
<1>4. DOMAIN scopes = {1} /\ DOMAIN scopes' = {1} /\ 1 \in DOMAIN scopes
  <2>1. scopes \in Chains /\ Len(scopes) = 1
    BY <1>3 DEF Shape
  <2> QED BY <1>1, <2>1 DEF Chains
<1>5. s \in Seq(Symbols) /\ Kept(1)
  BY <1>4, ChainElement DEF Shape, Contents
<1> HIDE DEF f, s
<1>6. HasName(TopEntries) = GlobalsOf(item)
  <2>1. CASE It.kind = "func"
    <3>1. It.name # NotNamed
      BY <1>1, <2>1, ProgramFacts DEF It, Shape
    <3> QED BY <2>1, <3>1 DEF GlobalsOf, TopEntries, HasName, It
  <2>2. CASE It.kind # "func"
    BY <2>2 DEF GlobalsOf, TopEntries, It
  <2> QED BY <2>1, <2>2
<1>7. \A k \in GlobalsOf(item) : k \in Nat
  BY <1>1, <1>6, NamedFinite, ListFacts
<1>8. FileSites(item) = FileSites(item - 1) \cup {<<item, 0, k>> : k \in GlobalsOf(item)}
  <2>1. ASSUME NEW p \in FileSites(item)
        PROVE  p \in FileSites(item - 1) \cup {<<item, 0, k>> : k \in GlobalsOf(item)}
    <3>1. p \in Sites /\ p[1] \in 1 .. item /\ p[2] = 0 /\ p[3] \in GlobalsOf(p[1])
      BY <2>1 DEF FileSites
    <3>2. p = <<p[1], p[2], p[3]>>
      BY <3>1 DEF Sites
    <3> QED BY <1>1, <3>1, <3>2 DEF FileSites
  <2>2. \A p \in FileSites(item - 1) : p \in FileSites(item)
    BY <1>1 DEF FileSites
  <2>3. ASSUME NEW k \in GlobalsOf(item) PROVE <<item, 0, k>> \in FileSites(item)
    <3>1. <<item, 0, k>> \in Sites /\ item \in 1 .. item
      BY <1>1, <1>3, <1>7, ProgramFacts DEF Sites, Shape
    <3> QED BY <3>1 DEF FileSites
  <2> QED BY <2>1, <2>2, <2>3
<1>9. InOrder(s) /\ Places(s) = FileSites(item - 1)
  BY <1>3, <1>5 DEF Kept, Held, Filed, s
<1>10. \A p \in Places(s), q \in Places(f) : Before(p, q)
  <2> SUFFICES ASSUME NEW p \in Places(s), NEW q \in Places(f) PROVE Before(p, q)
    OBVIOUS
  <2>1. p[1] \in 1 .. (item - 1)
    BY <1>9 DEF FileSites
  <2>2. q[1] = item
    BY <1>2
  <2> QED BY <1>1, <2>1, <2>2 DEF Before
<1>11. /\ InOrder(s \o f) /\ Places(s \o f) = Places(s) \cup Places(f)
       /\ \A k \in DOMAIN (s \o f) : \/ \E l \in DOMAIN s : (s \o f)[k] = s[l]
                                     \/ \E l \in DOMAIN f : (s \o f)[k] = f[l]
  BY <1>2, <1>5, <1>9, <1>10, Longer
<1>12. Held(1)' = FileSites(item)
  <2>1. Filed' = item
    BY <1>1, <1>3 DEF Filed
  <2> QED BY <1>3, <2>1, FileHeld
<1>13. \A k \in DOMAIN (s \o f) : Recorded((s \o f)[k]) \in decls'
  BY <1>1, <1>2, <1>5, <1>11 DEF Kept, s
<1>14. Kept(1)'
  <2> DEFINE t == s \o f
  <2>1. scopes'[1].symbols = t /\ InOrder(t) /\ Places(t) = Held(1)'
        /\ \A k \in DOMAIN t : Recorded(t[k]) \in decls'
    BY <1>1, <1>2, <1>6, <1>8, <1>9, <1>11, <1>12, <1>13
  <2> HIDE DEF t
  <2> QED BY <2>1 DEF Kept, Recorded
<1> QED BY <1>4, <1>14 DEF Contents

LEMMA EnterFunctionContents ==
    ASSUME Shape, Contents, EnterFunction
    PROVE  Contents'
<1> DEFINE f == Fresh(It.params, 0, 1)
<1>1. /\ item \in Nat /\ scopes' \in Chains /\ Len(scopes') = 2 /\ scopes'[1] = scopes[1]
      /\ scopes'[2].symbols = f /\ decls' = decls \cup Records(It.params, 0, 1)
      /\ IsList(It.params)
  BY EnterFunctionStep
<1>2. /\ InOrder(f) /\ Places(f) = {<<item, 1, k>> : k \in HasName(It.params)}
      /\ \A n \in DOMAIN f : Recorded(f[n]) \in Records(It.params, 0, 1)
  <2>1. 0 \in Nat /\ 1 \in Nat
    OBVIOUS
  <2> QED BY ONLY <1>1, <2>1, FreshPlaces
<1> HIDE DEF f
<1>3. status = "pass2" /\ status' = "body" /\ UNCHANGED <<prog, item>>
  BY DEF EnterFunction
<1>4. 1 \in DOMAIN scopes /\ DOMAIN scopes' = {1, 2}
  <2>1. scopes \in Chains /\ Len(scopes) = 1
    BY <1>3 DEF Shape
  <2> QED BY <1>1, <2>1 DEF Chains
<1>5. Kept(1)'
  <2>1. Held(1)' = FileSites(Len(prog)) /\ Held(1) = FileSites(Len(prog))
    BY <1>3, FileHeld DEF Filed, Held
  <2> QED BY <1>1, <1>4, <2>1, KeptStays DEF Contents
<1>6. Kept(2)'
  <2>1. Held(2)' = ParamSites
    BY <1>3, ParamHeld
  <2> QED BY <1>1, <1>2, <2>1 DEF Kept, Recorded, ParamSites
<1> QED BY <1>4, <1>5, <1>6 DEF Contents

(* Steps within a function that touch no scope but the innermost.          *)
LEMMA OldKept ==
    ASSUME Shape, Contents, status = "body", UNCHANGED <<status, prog, item>>,
           NEW i \in DOMAIN scopes, scopes'[i] = scopes[i], decls \subseteq decls',
           NEW a \in Nat, at' = a, at <= a,
           i > 2 => \A d \in Nodes(body) : at <= d /\ d < a => ~Local(d, scopes[i].owner)
    PROVE  Kept(i)'
<1>1. Body(body) /\ at \in Nat /\ DOMAIN scopes = 1 .. Len(scopes)
  BY BodyFacts DEF InBody
<1>2. i \in Nat /\ i > 0
  BY <1>1
<1>3. Held(i)' = Held(i)
  <2>1. CASE i = 1
    <3>1. Filed' = Len(prog) /\ Filed = Len(prog)
      BY DEF Filed
    <3> QED BY <2>1, <3>1, FileHeld DEF Held
  <2>2. CASE i = 2
    BY <2>2, ParamHeld DEF Held
  <2>3. CASE i > 2
    <3> DEFINE o == scopes[i].owner
    <3>1. LocalSites(o, a) = LocalSites(o, at)
      BY <1>1, <2>3, LocalsSame
    <3>2. Held(i)' = LocalSites(o, a)
      <4>1. scopes'[i].owner = o /\ i # 1 /\ i # 2
        BY <2>3
      <4> HIDE DEF o
      <4> QED BY <4>1, BlockHeld
    <3> QED BY <2>3, <3>1, <3>2 DEF Held
  <2> QED BY <1>2, <2>1, <2>2, <2>3
<1> QED BY <1>3, KeptStays DEF Contents

LEMMA StayContents ==
    ASSUME Shape, Contents, status = "body", UNCHANGED <<status, prog, item, scopes, decls>>,
           NEW a \in Nat, at' = a, at <= a,
           \A d \in Nodes(body) : at <= d /\ d < a => body.kind[d] # "var" \/ ~Reached(body, d)
    PROVE  Contents'
<1>1. ASSUME NEW i \in DOMAIN scopes PROVE Kept(i)'
  <2>1. scopes'[i] = scopes[i] /\ decls \subseteq decls'
    OBVIOUS
  <2>2. \A d \in Nodes(body) : at <= d /\ d < a => ~Local(d, scopes[i].owner)
    BY DEF Local
  <2> QED BY <1>1, <2>1, <2>2, OldKept
<1> QED BY <1>1 DEF Contents

LEMMA PushContents ==
    ASSUME Shape, Contents, status = "body", UNCHANGED <<status, prog, item, decls>>,
           at \in Nodes(body), body.kind[at] # "var", at' = at + 1,
           scopes' = sema_enter_scope(scopes, at)
    PROVE  Contents'
<1>0. at \in Nat /\ Len(scopes) \in Nat
  BY BodyFacts DEF InBody
<1> PICK n \in Nat : n = Len(scopes)
  BY <1>0
<1> PICK a \in Nat : a = at + 1
  BY <1>0
<1>1. /\ Body(body) /\ at \in Nat /\ a \in Nat /\ at <= a /\ Nodes(body) = 1 .. body.n
      /\ scopes \in Chains /\ n \in Nat /\ DOMAIN scopes = 1 .. n /\ n >= 2 /\ body.n \in Nat
  BY BodyFacts DEF InBody
<1>2. /\ scopes' \in Chains /\ Len(scopes') = n + 1 /\ DOMAIN scopes' = 1 .. (n + 1)
      /\ \A i \in 1 .. n : scopes'[i] = scopes[i]
      /\ scopes'[n + 1].owner = at /\ scopes'[n + 1].symbols = <<>>
  <2>1. /\ scopes' \in Chains /\ Len(scopes') = n + 1
        /\ \A i \in 1 .. n : scopes'[i] = scopes[i]
        /\ scopes'[n + 1].owner = at /\ scopes'[n + 1].symbols = <<>>
    <3>1. scopes \in Chains /\ at \in Nat
      BY <1>1
    <3> QED BY <3>1, EnterChain
  <2>2. DOMAIN scopes' = 1 .. Len(scopes')
    BY <2>1 DEF Chains
  <2> QED BY <2>1, <2>2
<1>3. ASSUME NEW i \in 1 .. n PROVE Kept(i)'
  <2>1. \A d \in Nodes(body) : at <= d /\ d < a => ~Local(d, scopes[i].owner)
    BY <1>1 DEF Local
  <2>2. i \in DOMAIN scopes /\ scopes'[i] = scopes[i] /\ decls \subseteq decls' /\ at' = a
    BY <1>1, <1>2, <1>3
  <2> QED BY <1>1, <2>1, <2>2, OldKept
<1>4. Kept(n + 1)'
  <2>1. LocalSites(at, a) = {}
    <3> SUFFICES ASSUME NEW d \in Nodes(body), d < a, Local(d, at) PROVE FALSE
      BY DEF LocalSites
    <3>1. d > 1
      BY <1>1 DEF Local, Body
    <3>2. ScopeOf(body, d) < d /\ ScopeOf(body, d) = at
      BY <1>1, <3>1, BlockOf DEF Local
    <3> QED BY <1>1, <3>2
  <2>2. Held(n + 1)' = LocalSites(at, a)
    <3> PICK i \in Nat : i = n + 1
      OBVIOUS
    <3>1. i # 1 /\ i # 2 /\ scopes'[i].owner = at /\ at' = a
      BY <1>1, <1>2
    <3> QED BY <3>1, BlockHeld
  <2>3. InOrder(<<>>) /\ Places(<<>>) = {} /\ DOMAIN <<>> = {}
    BY DEF InOrder, Places
  <2>4. /\ InOrder(scopes'[n + 1].symbols) /\ Places(scopes'[n + 1].symbols) = Held(n + 1)'
        /\ \A k \in DOMAIN scopes'[n + 1].symbols : Recorded(scopes'[n + 1].symbols[k]) \in decls'
    BY <1>2, <2>1, <2>2, <2>3
  <2> QED BY <2>4 DEF Kept, InOrder, Places, Recorded
<1>5. \A i \in 1 .. (n + 1) : i = n + 1 \/ i \in 1 .. n
  OBVIOUS
<1> QED BY <1>2, <1>3, <1>4, <1>5 DEF Contents

(* The scope a local variable is declared in, and those around it.         *)
LEMMA VarScope ==
    ASSUME Shape, Nesting, Contents, status = "body", ~Leaving, at \in Nodes(body),
           body.kind[at] = "var", NEW n \in Nat, n = Len(scopes), NEW a \in Nat, a = at + 1
    PROVE  /\ n > 2
           /\ \A i \in 3 .. n : i # n =>
                 \A d \in Nodes(body) : at <= d /\ d < a => ~Local(d, scopes[i].owner)
           /\ InOrder(WithVar[n].symbols)
           /\ Places(WithVar[n].symbols) = LocalSites(scopes[n].owner, a)
           /\ \A k \in DOMAIN WithVar[n].symbols : Recorded(WithVar[n].symbols[k]) \in
                 decls \cup {[site |-> <<item, at, 0>>, id |-> local_counter, global |-> FALSE]}
<1> PICK o : o = scopes[n].owner
  OBVIOUS
<1> DEFINE s == scopes[n].symbols
           p == <<item, at, 0>>
           r == [site |-> p, id |-> local_counter, global |-> FALSE]
<1>1. InBody
  BY DEF InBody
<1>2. /\ Body(body) /\ at \in Nat /\ Nodes(body) = 1 .. body.n
      /\ scopes \in Chains /\ DOMAIN scopes = 1 .. n /\ body.n \in Nat /\ item \in Nat
  BY <1>1, BodyFacts
<1>3. /\ at > 1 /\ VarSymbol \in Symbols /\ VarSymbol.site = p
      /\ WithVar[n].symbols = Append(s, VarSymbol)
  BY VarGrows
<1>4. n > 2 /\ n \in BlockScopes /\ o = ScopeOf(body, at)
  BY <1>3, TopIsBlock
<1> HIDE DEF s, p, r
<1>5. n # 1 /\ n # 2 /\ n \in 1 .. n
  BY <1>4
<1>6. Reached(body, at)
  <2> SUFFICES ASSUME NEW k \in Nodes(body), body.kind[k] \in Skipped, Ancestor(body, k, at)
               PROVE  FALSE
    BY DEF Reached
  <2>1. k <= at
    BY <1>2 DEF Ancestor
  <2>2. k # at
    BY DEF Skipped
  <2> QED BY <1>1, <1>2, <2>1, <2>2 DEF Nesting
<1>7. ASSUME NEW i \in 3 .. n, i # n, NEW d \in Nodes(body), at <= d, d < a
      PROVE  ~Local(d, scopes[i].owner)
  <2>1. d = at
    BY <1>2, <1>7
  <2>2. i \in BlockScopes /\ i < n
    BY <1>7 DEF BlockScopes
  <2>3. scopes[i].owner < o
    BY <1>1, <1>4, <2>2 DEF Nesting
  <2>4. o \in Int
    BY <1>2, <1>3, <1>4, BlockOf
  <2>5. ASSUME Local(at, scopes[i].owner) PROVE FALSE
    <3>1. scopes[i].owner = o
      BY <1>4, <2>5 DEF Local
    <3> QED BY <2>3, <2>4, <3>1
  <2> QED BY <2>1, <2>5
<1>8. s \in Seq(Symbols) /\ Kept(n)
  BY <1>2, <1>5, ChainElement DEF Contents, s
<1>9. InOrder(s) /\ Places(s) = LocalSites(o, at) /\ \A k \in DOMAIN s : Recorded(s[k]) \in decls
  BY <1>5, <1>8 DEF Kept, Held, s
<1> DEFINE e == <<VarSymbol>>
           t == s \o e
<1>10. e \in Seq(Symbols) /\ InOrder(e) /\ Places(e) = {p} /\ \A k \in DOMAIN e : e[k] = VarSymbol
  <2>1. e \in Seq(Symbols) /\ DOMAIN e = {1} /\ e[1] = VarSymbol
    BY <1>3
  <2> HIDE DEF e
  <2>2. InOrder(e) /\ Places(e) = {p}
    BY <1>3, <2>1 DEF InOrder, Places
  <2> QED BY <2>1, <2>2
<1>11. WithVar[n].symbols = t
  BY <1>3, <1>8, AppendIsConcat
<1>12. LocalSites(o, a) = LocalSites(o, at) \cup {p}
  <2>1. \A d \in Nodes(body) : d < a <=> d < at \/ d = at
    BY <1>2
  <2>2. Local(at, o)
    BY <1>4, <1>6 DEF Local
  <2> QED BY <2>1, <2>2 DEF LocalSites, p
<1>13. \A q \in Places(s), q2 \in Places(e) : Before(q, q2)
  <2> SUFFICES ASSUME NEW q \in Places(s) PROVE Before(q, p)
    BY <1>10
  <2>1. PICK d \in Nodes(body) : d < at /\ q = <<item, d, 0>>
    BY <1>9 DEF LocalSites
  <2> QED BY <2>1 DEF Before, p
<1> HIDE DEF e
<1>14. /\ InOrder(t) /\ Places(t) = Places(s) \cup Places(e)
       /\ \A k \in DOMAIN t : \/ \E l \in DOMAIN s : t[k] = s[l]
                              \/ \E l \in DOMAIN e : t[k] = e[l]
  BY <1>8, <1>9, <1>10, <1>13, Longer
<1>15. Recorded(VarSymbol) = r
  <2>1. VarSymbol.qbe_id = local_counter /\ VarSymbol.is_global = FALSE
    <3>1. p[2] # 0 /\ VarSymbol = SymbolAt(p, local_counter)
      BY <1>2, <1>3 DEF p, VarSymbol
    <3> QED BY <3>1 DEF SymbolAt, Symbol
  <2> QED BY <1>3, <2>1 DEF Recorded, r
<1>16. \A k \in DOMAIN t : Recorded(t[k]) \in decls \cup {r}
  BY <1>9, <1>10, <1>14, <1>15
<1> HIDE DEF t
<1> QED BY <1>4, <1>7, <1>9, <1>10, <1>11, <1>12, <1>14, <1>16 DEF p, r

LEMMA VarContents ==
    ASSUME Shape, Nesting, Contents, VarDecl
    PROVE  Contents'
<1>0. /\ status = "body" /\ InBody /\ ~Leaving /\ at \in Nodes(body) /\ body.kind[at] = "var"
      /\ at \in Nat /\ Len(scopes) \in Nat
  <2>1. Visit({"var"})
    BY DEF VarDecl
  <2>2. status = "body" /\ InBody /\ ~Leaving /\ at \in Nodes(body) /\ body.kind[at] \in {"var"}
    BY <2>1, VisitFacts
  <2> QED BY <2>2, BodyFacts
<1> PICK n \in Nat : n = Len(scopes)
  BY <1>0
<1> PICK a \in Nat : a = at + 1
  BY <1>0
<1> PICK o : o = scopes[n].owner
  OBVIOUS
<1> DEFINE r == [site |-> <<item, at, 0>>, id |-> local_counter, global |-> FALSE]
<1>1. /\ UNCHANGED <<status, prog, item>> /\ at' = a /\ decls' = decls \cup {r}
      /\ scopes' = WithVar
  BY DEF VarDecl
<1> HIDE DEF r
<1>2. /\ at <= a /\ DOMAIN scopes = 1 .. n /\ scopes' \in Chains /\ DOMAIN scopes' = 1 .. n
      /\ scopes'[n].owner = o /\ \A i \in 1 .. n : i # n => scopes'[i] = scopes[i]
  <2>1. /\ scopes' \in Chains /\ Len(scopes') = n /\ n \in 1 .. n
        /\ \A i \in 1 .. n : scopes'[i].owner = scopes[i].owner
        /\ \A i \in 1 .. n : i # n => scopes'[i] = scopes[i]
    <3>1. Len(scopes) >= 2
      BY <1>0, BodyFacts
    <3>2. n \in 1 .. n
      BY <3>1
    <3> QED BY <1>0, <1>1, <3>2, VarGrows
  <2>2. DOMAIN scopes' = 1 .. n
    BY <2>1 DEF Chains
  <2> QED BY <1>0, <2>1, <2>2, BodyFacts
<1>3. /\ n > 2
      /\ \A i \in 3 .. n : i # n =>
            \A d \in Nodes(body) : at <= d /\ d < a => ~Local(d, scopes[i].owner)
      /\ InOrder(scopes'[n].symbols)
      /\ Places(scopes'[n].symbols) = LocalSites(o, a)
      /\ \A k \in DOMAIN scopes'[n].symbols : Recorded(scopes'[n].symbols[k]) \in decls'
  BY <1>0, <1>1, VarScope DEF r
<1>4. ASSUME NEW i \in 1 .. n, i # n PROVE Kept(i)'
  <2>1. i > 2 => i \in 3 .. n
    BY <1>4
  <2>2. i > 2 => \A d \in Nodes(body) : at <= d /\ d < a => ~Local(d, scopes[i].owner)
    BY <1>3, <1>4, <2>1
  <2>3. i \in DOMAIN scopes /\ scopes'[i] = scopes[i] /\ decls \subseteq decls'
    BY <1>1, <1>2, <1>4
  <2> QED BY <1>0, <1>1, <1>2, <2>2, <2>3, OldKept
<1>5. Held(n)' = LocalSites(o, a)
  <2>1. n # 1 /\ n # 2 /\ scopes'[n].owner = o
    BY <1>2, <1>3
  <2> QED BY <1>1, <2>1, BlockHeld
<1>6. Kept(n)'
  BY <1>3, <1>5 DEF Kept, InOrder, Places, Recorded
<1> QED BY <1>2, <1>4, <1>6 DEF Contents

LEMMA NextContents ==
    ASSUME Shape, Nesting, Contents, [Next]_vars
    PROVE  Contents'
<1>1. ASSUME NEW kinds, Visit(kinds)
      PROVE  /\ status = "body" /\ at \in Nodes(body) /\ body.kind[at] \in kinds
             /\ at \in Nat /\ at + 1 \in Nat /\ at <= at + 1
             /\ \A d \in Nodes(body) : at <= d /\ d < at + 1 => d = at
  BY <1>1, VisitFacts, BodyFacts
<1>2. CASE PassOne
  BY <1>2, PassOneContents
<1>3. CASE EnterFunction
  BY <1>3, EnterFunctionContents
<1>4. CASE VarDecl
  BY <1>4, VarContents
<1>5. CASE Compound
  <2>1. Visit({"compound", "group"}) /\ scopes' = sema_enter_scope(scopes, at) /\ at' = at + 1
        /\ UNCHANGED <<status, prog, item, decls>>
    BY <1>5 DEF Compound
  <2>2. status = "body" /\ at \in Nodes(body) /\ body.kind[at] # "var"
    BY <1>1, <2>1
  <2> QED BY <2>1, <2>2, PushContents
<1>6. CASE For
  <2>1. Visit({"for"}) /\ scopes' = sema_enter_scope(scopes, at) /\ at' = at + 1
        /\ UNCHANGED <<status, prog, item, decls>>
    BY <1>6 DEF For
  <2>2. status = "body" /\ at \in Nodes(body) /\ body.kind[at] # "var"
    BY <1>1, <2>1
  <2> QED BY <2>1, <2>2, PushContents
<1>7. CASE Expressions
  <2>1. /\ Visit({"expr", "return", "if", "while", "do"}) /\ at' = at + 1
        /\ UNCHANGED <<status, prog, item, scopes, decls>>
    BY <1>7 DEF Expressions
  <2>2. /\ status = "body" /\ body.kind[at] # "var" /\ at + 1 \in Nat /\ at <= at + 1
        /\ \A d \in Nodes(body) : at <= d /\ d < at + 1 => d = at
    BY <1>1, <2>1
  <2> QED BY <2>1, <2>2, StayContents
<1>8. CASE Skip
  <2>1. Visit(Skipped) /\ at' = After(at) /\ UNCHANGED <<status, prog, item, scopes, decls>>
    BY <1>8 DEF Skip
  <2>2. /\ status = "body" /\ at \in Nodes(body) /\ at \in Nat /\ body.kind[at] \in Skipped
        /\ Body(body) /\ Nodes(body) = 1 .. body.n /\ body.n \in Nat
    BY <1>1, <2>1, BodyFacts DEF InBody
  <2> DEFINE a == After(at)
  <2>3. /\ a \in (at + 1) .. (body.n + 1)
        /\ \A j \in (at + 1) .. (a - 1) : Ancestor(body, at, j)
    BY <2>2, AfterIsNext
  <2> HIDE DEF a
  <2>4. ASSUME NEW d \in Nodes(body), at <= d, d < a PROVE ~Reached(body, d)
    <3>1. d = at \/ d \in (at + 1) .. (a - 1)
      BY <2>2, <2>3, <2>4
    <3>2. Ancestor(body, at, d)
      BY <2>2, <2>3, <3>1, OwnAncestor
    <3> QED BY <2>2, <3>2 DEF Reached
  <2>5. a \in Nat /\ at <= a /\ at' = a
    BY <2>1, <2>2, <2>3 DEF a
  <2> QED BY <2>1, <2>2, <2>4, <2>5, StayContents
<1>9. CASE LeaveScope
  <2>1. /\ status = "body" /\ Leaving /\ scopes' = sema_leave_scope(scopes)
        /\ UNCHANGED <<status, prog, item, at, decls>>
    BY <1>9 DEF LeaveScope
  <2>2. /\ scopes \in Chains /\ Len(scopes) > 0 /\ DOMAIN scopes = 1 .. Len(scopes) /\ at \in Nat
        /\ at <= at /\ \A d \in Nodes(body) : ~(at <= d /\ d < at)
    BY <2>1, BodyFacts DEF InBody
  <2>3. /\ Len(scopes') = Len(scopes) - 1 /\ Len(scopes) \in Nat /\ DOMAIN scopes' = 1 .. Len(scopes')
        /\ \A i \in 1 .. Len(scopes') : scopes'[i] = scopes[i]
    <3>1. scopes' \in Chains /\ Len(scopes') = Len(scopes) - 1 /\ Len(scopes) \in Nat
          /\ \A i \in 1 .. Len(scopes') : scopes'[i] = scopes[i]
      <4>1. scopes \in Chains /\ Len(scopes) > 0
        BY <2>2
      <4> QED BY ONLY <2>1, <4>1, LeaveChain
    <3>2. DOMAIN scopes' = 1 .. Len(scopes')
      BY <3>1 DEF Chains
    <3> QED BY <3>1, <3>2
  <2>4. ASSUME NEW i \in DOMAIN scopes' PROVE Kept(i)'
    <3>1. i \in DOMAIN scopes /\ scopes'[i] = scopes[i]
      BY <2>2, <2>3, <2>4
    <3>2. decls \subseteq decls'
      BY <2>1
    <3> QED BY <2>1, <2>2, <3>1, <3>2, OldKept
  <2> QED BY <2>4 DEF Contents
<1>10. CASE LeaveFunction
  <2>1. /\ status = "body" /\ ~Leaving /\ at > body.n /\ status' = "pass2"
        /\ scopes' = sema_leave_scope(scopes) /\ UNCHANGED <<prog, decls>>
    BY <1>10 DEF LeaveFunction
  <2>2. Len(scopes) = 2 /\ scopes \in Chains /\ 1 \in DOMAIN scopes
    BY <2>1, Around, BodyFacts DEF InBody
  <2>3. DOMAIN scopes' = {1} /\ scopes'[1] = scopes[1]
    <3>1. Len(scopes) > 0
      BY <2>2
    <3>2. LET tt == sema_leave_scope(scopes)
          IN /\ tt \in Chains /\ Len(tt) = Len(scopes) - 1
             /\ \A i \in 1 .. Len(tt) : tt[i] = scopes[i]
      BY <2>2, <3>1, LeaveChain
    <3> QED BY <2>1, <2>2, <3>2 DEF Chains
  <2>4. Held(1)' = FileSites(Len(prog)) /\ Held(1) = FileSites(Len(prog))
    BY <2>1, FileHeld DEF Filed, Held
  <2>5. Kept(1)'
    BY <2>1, <2>2, <2>3, <2>4, KeptStays DEF Contents
  <2> QED BY <2>3, <2>5 DEF Contents
<1>11. CASE Finish
  <2>1. Len(scopes) = 1 /\ scopes \in Chains /\ scopes' = sema_leave_scope(scopes)
    BY <1>11 DEF Finish, Shape
  <2>2. DOMAIN scopes' = {}
    <3>1. Len(scopes) > 0
      BY <2>1
    <3>2. LET tt == sema_leave_scope(scopes) IN tt \in Chains /\ Len(tt) = Len(scopes) - 1
      BY <2>1, <3>1, LeaveChain
    <3> QED BY <2>1, <3>2 DEF Chains
  <2> QED BY <2>2 DEF Contents
<1>12. CASE BeginPassTwo \/ PassTwoDecl
  <2>1. /\ UNCHANGED <<prog, scopes, decls>> /\ status \in {"pass1", "pass2"} /\ status' = "pass2"
        /\ status = "pass1" => item > Len(prog)
    BY <1>12 DEF BeginPassTwo, PassTwoDecl
  <2>2. DOMAIN scopes = {1} /\ item \in 1 .. (Len(prog) + 1) /\ Len(prog) \in Nat
    <3>1. scopes \in Chains /\ Len(scopes) = 1
      BY <2>1 DEF Shape
    <3> QED BY <3>1, ProgramFacts DEF Shape, Chains
  <2>3. Held(1)' = FileSites(Len(prog)) /\ Held(1) = FileSites(Len(prog))
    <3>1. Filed' = Len(prog) /\ Filed = Len(prog)
      BY <2>1, <2>2 DEF Filed
    <3> QED BY <2>1, <3>1, FileHeld DEF Held
  <2>4. Kept(1)'
    BY <2>1, <2>2, <2>3, KeptStays DEF Contents
  <2> QED BY <2>1, <2>2, <2>4 DEF Contents
<1>13. CASE Reject
  <2>1. UNCHANGED <<prog, item, at, scopes, decls>> /\ Filed' = Filed
    BY <1>13 DEF Reject, Visit, Filed
  <2>2. \A i \in DOMAIN scopes : Held(i)' = Held(i)
    BY <2>1 DEF Held, FileSites, GlobalsOf, ParamSites, LocalSites, Local, body, It
  <2> QED BY <2>1, <2>2, KeptStays DEF Contents
<1>14. CASE UNCHANGED vars
  <2>1. UNCHANGED <<prog, item, at, scopes, decls>> /\ Filed' = Filed
    BY <1>14 DEF vars, Filed
  <2>2. \A i \in DOMAIN scopes : Held(i)' = Held(i)
    BY <2>1 DEF Held, FileSites, GlobalsOf, ParamSites, LocalSites, Local, body, It
  <2> QED BY <2>1, <2>2, KeptStays DEF Contents
<1> QED BY <1>2, <1>3, <1>4, <1>5, <1>6, <1>7, <1>8, <1>9, <1>10, <1>11, <1>12, <1>13, <1>14
        DEF Next, Ended

LEMMA InitContents ==
    ASSUME Init
    PROVE  Contents
<1>1. LET ss == sema_enter_scope(<<>>, 0) IN DOMAIN ss = {1} /\ ss[1].symbols = <<>>
  BY DEF sema_enter_scope, Scope
<1>2. DOMAIN scopes = {1} /\ scopes[1].symbols = <<>>
  BY <1>1 DEF Init
<1>3. Held(1) = {}
  BY DEF Init, Held, Filed, FileSites
<1> QED BY <1>2, <1>3 DEF Contents, Kept, InOrder, Places

-----------------------------------------------------------------------------
(* What a lookup finds.                                                    *)

LEMMA FoundAt ==
    ASSUME NEW ss \in Chains, NEW x
    PROVE  Found(ss, x) <=> \E i \in DOMAIN ss : \E q \in Places(ss[i].symbols) : NameAt(q) = x
<1>1. ASSUME NEW i \in DOMAIN ss
      PROVE  x \in Names(ss[i]) <=> \E q \in Places(ss[i].symbols) : NameAt(q) = x
  <2>1. \A k \in DOMAIN ss[i].symbols : ss[i].symbols[k].name = NameAt(ss[i].symbols[k].site)
    BY ChainElement, SymbolFields
  <2> QED BY <2>1 DEF Names, Places
<1> QED BY <1>1 DEF Found

LEMMA LookupLast ==
    ASSUME NEW ss \in Chains, \A i \in DOMAIN ss : InOrder(ss[i].symbols), NEW x, Found(ss, x)
    PROVE  \E i \in DOMAIN ss :
              LET p == sema_lookup(ss, x).site
              IN /\ p \in Places(ss[i].symbols) /\ NameAt(p) = x
                 /\ \A q \in Places(ss[i].symbols) : NameAt(q) = x => q = p \/ Before(q, p)
                 /\ \A j \in DOMAIN ss : j > i => \A q \in Places(ss[j].symbols) : NameAt(q) # x
<1>1. PICK i \in DOMAIN ss : \E k \in DOMAIN ss[i].symbols :
              Innermost(ss, x, i, k) /\ sema_lookup(ss, x) = ss[i].symbols[k]
  BY LookupFinds
<1>2. PICK k \in DOMAIN ss[i].symbols :
              Innermost(ss, x, i, k) /\ sema_lookup(ss, x) = ss[i].symbols[k]
  BY <1>1
<1> DEFINE p == sema_lookup(ss, x).site
<1>3. \A j \in DOMAIN ss : \A l \in DOMAIN ss[j].symbols :
         ss[j].symbols[l].name = NameAt(ss[j].symbols[l].site)
  BY ChainElement, SymbolFields
<1>4. p \in Places(ss[i].symbols) /\ NameAt(p) = x
  BY <1>2, <1>3 DEF Places, Innermost
<1>5. ASSUME NEW q \in Places(ss[i].symbols), NameAt(q) = x PROVE q = p \/ Before(q, p)
  <2>1. PICK l \in DOMAIN ss[i].symbols : q = ss[i].symbols[l].site
    BY <1>5 DEF Places
  <2>2. ~(l > k)
    BY <1>2, <1>3, <1>5, <2>1 DEF Innermost
  <2>3. l \in Nat /\ k \in Nat
    BY <1>1, <1>2, <2>1, ChainElement
  <2>4. l = k \/ l < k
    BY <2>2, <2>3
  <2> QED BY <1>2, <2>1, <2>4 DEF InOrder
<1>6. ASSUME NEW j \in DOMAIN ss, j > i, NEW q \in Places(ss[j].symbols) PROVE NameAt(q) # x
  <2>1. x \notin Names(ss[j])
    BY <1>2, <1>6 DEF Innermost
  <2> QED BY <1>3, <1>6, <2>1 DEF Names, Places
<1> QED BY <1>4, <1>5, <1>6

LEMMA LastIs ==
    ASSUME NEW S \in SUBSET Sites, NEW level, \A q \in S : q[2] = level,
           NEW p \in S, \A q \in S : q = p \/ Before(q, p)
    PROVE  Last(S) = p
<1> DEFINE After_(s) == \A t \in S : t[1] < s[1] \/ (t[1] = s[1] /\ t[3] <= s[3])
<1>0. \A q \in S : q[1] \in Nat /\ q[2] \in Nat /\ q[3] \in Nat /\ q = <<q[1], q[2], q[3]>>
  BY DEF Sites
<1>1. After_(p)
  BY <1>0 DEF Before
<1>2. ASSUME NEW s \in S, After_(s) PROVE s = p
  <2>1. p[1] < s[1] \/ (p[1] = s[1] /\ p[3] <= s[3])
    BY <1>2
  <2>2. s[1] < p[1] \/ (s[1] = p[1] /\ s[3] <= p[3])
    BY <1>1
  <2>3. s[1] = p[1] /\ s[2] = p[2] /\ s[3] = p[3]
    BY <1>0, <2>1, <2>2
  <2> QED BY <1>0, <2>3
<1> HIDE DEF After_
<1>3. Last(S) = CHOOSE s \in S : After_(s)
  BY DEF Last, After_
<1> QED BY <1>1, <1>2, <1>3

LEMMA NearestIs ==
    ASSUME NEW b, NEW S \in SUBSET Nat, \A c \in S : ScopeOf(b, c) \in Nat, NEW d \in S,
           \A c \in S : ScopeOf(b, c) < ScopeOf(b, d) \/ (ScopeOf(b, c) = ScopeOf(b, d) /\ c <= d)
    PROVE  NearestScope(b, S) = d
<1> DEFINE Top_(e) == \A c \in S : ScopeOf(b, c) < ScopeOf(b, e) \/ (ScopeOf(b, c) = ScopeOf(b, e) /\ c <= e)
<1>1. ASSUME NEW e \in S, Top_(e) PROVE e = d
  <2>1. ScopeOf(b, d) < ScopeOf(b, e) \/ (ScopeOf(b, d) = ScopeOf(b, e) /\ d <= e)
    BY <1>1
  <2>2. ScopeOf(b, e) < ScopeOf(b, d) \/ (ScopeOf(b, e) = ScopeOf(b, d) /\ e <= d)
    OBVIOUS
  <2> QED BY <2>1, <2>2
<1>2. Top_(d)
  OBVIOUS
<1> HIDE DEF Top_
<1>3. NearestScope(b, S) = CHOOSE e \in S : Top_(e)
  BY DEF NearestScope, Top_
<1> QED BY <1>1, <1>2, <1>3

(* The scopes as an expression of the statement at hand sees them.         *)
View(ss) ==
    /\ ss \in Chains /\ Len(ss) >= 2
    /\ \A i \in DOMAIN ss : InOrder(ss[i].symbols)
    /\ Places(ss[1].symbols) = FileSites(Len(prog))
    /\ Places(ss[2].symbols) = ParamSites
    /\ \A i \in 3 .. Len(ss) : /\ Places(ss[i].symbols) = LocalSites(ss[i].owner, at + 1)
                               /\ ss[i].owner \in Nodes(body) /\ Ancestor(body, ss[i].owner, at)
    /\ \A i, j \in 3 .. Len(ss) : i < j => ss[i].owner < ss[j].owner
    /\ \A k \in Nodes(body) : k # at /\ body.kind[k] \in Scoping /\ Ancestor(body, k, at)
          => \E i \in 3 .. Len(ss) : ss[i].owner = k

LEMMA ViewScopes ==
    ASSUME Shape, Nesting, Contents, status = "body", ~Leaving, at \in Nodes(body),
           body.kind[at] # "var"
    PROVE  View(scopes)
<1>1. InBody
  BY DEF InBody
<1> PICK n : n = Len(scopes)
  OBVIOUS
<1>2. /\ Body(body) /\ at \in Nat /\ at + 1 \in Nat /\ at <= at + 1 /\ Nodes(body) = 1 .. body.n
      /\ scopes \in Chains /\ n \in Nat /\ n >= 2 /\ DOMAIN scopes = 1 .. n /\ body.n \in Nat
  BY <1>1, BodyFacts
<1>3. \A i \in 1 .. n : InOrder(scopes[i].symbols) /\ Places(scopes[i].symbols) = Held(i)
  BY <1>2 DEF Contents, Kept
<1>4. /\ 1 \in 1 .. n /\ 2 \in 1 .. n /\ BlockScopes = 3 .. n
      /\ \A i \in 3 .. n : i \in 1 .. n /\ i # 1 /\ i # 2
  BY <1>2 DEF BlockScopes
<1>5. Places(scopes[1].symbols) = FileSites(Len(prog)) /\ Places(scopes[2].symbols) = ParamSites
  BY <1>3, <1>4 DEF Held, Filed
<1>6. ASSUME NEW i \in 3 .. n
      PROVE  /\ Places(scopes[i].symbols) = LocalSites(scopes[i].owner, at + 1)
             /\ scopes[i].owner \in Nodes(body) /\ Ancestor(body, scopes[i].owner, at)
  <2>1. Places(scopes[i].symbols) = LocalSites(scopes[i].owner, at)
    BY <1>3, <1>4 DEF Held
  <2>2. \A d \in Nodes(body) : at <= d /\ d < at + 1 => ~Local(d, scopes[i].owner)
    BY <1>2 DEF Local
  <2>3. LocalSites(scopes[i].owner, at + 1) = LocalSites(scopes[i].owner, at)
    BY <1>2, <2>2, LocalsSame
  <2>4. scopes[i].owner \in Nodes(body) /\ Ancestor(body, scopes[i].owner, at)
    BY <1>1, <1>4, Around DEF Nesting
  <2> QED BY <2>1, <2>3, <2>4
<1>7. \A i, j \in 3 .. n : i < j => scopes[i].owner < scopes[j].owner
  BY <1>1, <1>4 DEF Nesting
<1>8. ASSUME NEW k \in Nodes(body), k # at, body.kind[k] \in Scoping, Ancestor(body, k, at)
      PROVE  \E i \in 3 .. n : scopes[i].owner = k
  <2>1. k < at
    BY <1>2, <1>8 DEF Ancestor
  <2> QED BY <1>1, <1>4, <1>8, <2>1 DEF Nesting
<1> QED BY <1>2, <1>3, <1>5, <1>6, <1>7, <1>8 DEF View

LEMMA ViewWithVar ==
    ASSUME Shape, Nesting, Contents, status = "body", ~Leaving, at \in Nodes(body),
           body.kind[at] = "var"
    PROVE  View(WithVar)
<1>1. InBody
  BY DEF InBody
<1> PICK n : n = Len(scopes)
  OBVIOUS
<1> DEFINE ss == WithVar
<1>2. /\ Body(body) /\ at \in Nat /\ at + 1 \in Nat /\ at <= at + 1 /\ Nodes(body) = 1 .. body.n
      /\ scopes \in Chains /\ n \in Nat /\ n >= 2 /\ DOMAIN scopes = 1 .. n /\ body.n \in Nat
  BY <1>1, BodyFacts
<1>3. /\ ss \in Chains /\ Len(ss) = n
      /\ \A i \in 1 .. n : ss[i].owner = scopes[i].owner
      /\ \A i \in 1 .. n : i # n => ss[i] = scopes[i]
  BY VarGrows
<1>4. /\ n > 2
      /\ \A i \in 3 .. n : i # n =>
            \A d \in Nodes(body) : at <= d /\ d < at + 1 => ~Local(d, scopes[i].owner)
      /\ InOrder(ss[n].symbols)
      /\ Places(ss[n].symbols) = LocalSites(scopes[n].owner, at + 1)
  BY <1>2, VarScope
<1> HIDE DEF ss
<1>5. DOMAIN ss = 1 .. n
  BY <1>3 DEF Chains
<1>6. \A i \in 1 .. n : InOrder(scopes[i].symbols) /\ Places(scopes[i].symbols) = Held(i)
  BY <1>2 DEF Contents, Kept
<1>7. /\ 1 \in 1 .. n /\ 2 \in 1 .. n /\ BlockScopes = 3 .. n /\ 1 # n /\ 2 # n
      /\ \A i \in 3 .. n : i \in 1 .. n /\ i # 1 /\ i # 2
  BY <1>2, <1>4 DEF BlockScopes
<1>8. Places(ss[1].symbols) = FileSites(Len(prog)) /\ Places(ss[2].symbols) = ParamSites
  BY <1>3, <1>6, <1>7 DEF Held, Filed
<1>9. \A i \in 1 .. n : InOrder(ss[i].symbols)
  BY <1>3, <1>4, <1>6
<1>10. ASSUME NEW i \in 3 .. n
       PROVE  /\ Places(ss[i].symbols) = LocalSites(ss[i].owner, at + 1)
              /\ ss[i].owner \in Nodes(body) /\ Ancestor(body, ss[i].owner, at)
  <2>1. CASE i = n
    BY <1>1, <1>3, <1>4, <1>7, <2>1, Around DEF Nesting
  <2>2. CASE i # n
    <3>1. Places(ss[i].symbols) = LocalSites(scopes[i].owner, at)
      BY <1>3, <1>6, <1>7, <2>2 DEF Held
    <3>2. \A d \in Nodes(body) : at <= d /\ d < at + 1 => ~Local(d, scopes[i].owner)
      BY <1>4, <2>2
    <3>3. LocalSites(scopes[i].owner, at + 1) = LocalSites(scopes[i].owner, at)
      BY <1>2, <3>2, LocalsSame
    <3>4. scopes[i].owner \in Nodes(body) /\ Ancestor(body, scopes[i].owner, at)
      BY <1>1, <1>7, Around DEF Nesting
    <3> QED BY <1>3, <1>7, <3>1, <3>3, <3>4
  <2> QED BY <2>1, <2>2
<1>11. \A i, j \in 3 .. n : i < j => ss[i].owner < ss[j].owner
  BY <1>1, <1>3, <1>7 DEF Nesting
<1>12. ASSUME NEW k \in Nodes(body), k # at, body.kind[k] \in Scoping, Ancestor(body, k, at)
       PROVE  \E i \in 3 .. n : ss[i].owner = k
  <2>1. k < at
    BY <1>2, <1>12 DEF Ancestor
  <2>2. \E i \in 3 .. n : scopes[i].owner = k
    BY <1>1, <1>7, <1>12, <2>1 DEF Nesting
  <2> QED BY <1>3, <1>7, <2>2
<1> QED BY <1>2, <1>3, <1>5, <1>8, <1>9, <1>10, <1>11, <1>12 DEF View, ss

LEMMA ViewPushed ==
    ASSUME Shape, Nesting, View(scopes), status = "body", at \in Nodes(body)
    PROVE  View(sema_enter_scope(scopes, at))
<1>1. InBody
  BY DEF InBody
<1> PICK n : n = Len(scopes)
  OBVIOUS
<1> DEFINE ss == sema_enter_scope(scopes, at)
<1>2. /\ Body(body) /\ at \in Nat /\ Nodes(body) = 1 .. body.n
      /\ scopes \in Chains /\ n \in Nat /\ n >= 2 /\ DOMAIN scopes = 1 .. n /\ body.n \in Nat
  BY <1>1, BodyFacts
<1>3. /\ ss \in Chains /\ Len(ss) = n + 1 /\ \A i \in 1 .. n : ss[i] = scopes[i]
      /\ ss[n + 1].owner = at /\ ss[n + 1].symbols = <<>>
  <2>1. scopes \in Chains /\ at \in Nat
    BY <1>2
  <2> QED BY <2>1, EnterChain
<1> HIDE DEF ss
<1>4. DOMAIN ss = 1 .. (n + 1)
  BY <1>3 DEF Chains
<1>5. /\ 1 \in 1 .. n /\ 2 \in 1 .. n /\ \A i \in 3 .. n : i \in 1 .. n
      /\ \A i \in 3 .. (n + 1) : i = n + 1 \/ i \in 3 .. n
      /\ \A i \in 1 .. (n + 1) : i = n + 1 \/ i \in 1 .. n
      /\ \A i \in 3 .. n : i \in 3 .. (n + 1) /\ i < n + 1
  BY <1>2
<1>6. InOrder(<<>>) /\ Places(<<>>) = {}
  BY DEF InOrder, Places
<1>7. LocalSites(at, at + 1) = {}
  <2> SUFFICES ASSUME NEW d \in Nodes(body), d < at + 1, Local(d, at) PROVE FALSE
    BY DEF LocalSites
  <2>1. d > 1
    BY <1>2 DEF Local, Body
  <2>2. ScopeOf(body, d) < d /\ ScopeOf(body, d) = at
    BY <1>2, <2>1, BlockOf DEF Local
  <2> QED BY <1>2, <2>2
<1>8. Ancestor(body, at, at)
  BY <1>2, OwnAncestor
<1>9. \A i \in 1 .. (n + 1) : InOrder(ss[i].symbols)
  BY <1>2, <1>3, <1>5, <1>6 DEF View
<1>10. Places(ss[1].symbols) = FileSites(Len(prog)) /\ Places(ss[2].symbols) = ParamSites
  BY <1>3, <1>5 DEF View
<1>11. \A i \in 3 .. n : ss[i] = scopes[i] /\ scopes[i].owner < at
  BY <1>1, <1>3, <1>5 DEF Nesting, BlockScopes
<1>12. ASSUME NEW i \in 3 .. (n + 1)
       PROVE  /\ Places(ss[i].symbols) = LocalSites(ss[i].owner, at + 1)
              /\ ss[i].owner \in Nodes(body) /\ Ancestor(body, ss[i].owner, at)
  <2>1. CASE i = n + 1
    BY <1>3, <1>6, <1>7, <1>8, <2>1
  <2>2. CASE i \in 3 .. n
    BY <1>11, <2>2 DEF View
  <2> QED BY <1>5, <2>1, <2>2
<1>13. ASSUME NEW i \in 3 .. (n + 1), NEW j \in 3 .. (n + 1), i < j
       PROVE  ss[i].owner < ss[j].owner
  <2>1. i \in 3 .. n
    BY <1>2, <1>13
  <2>2. CASE j = n + 1
    BY <1>3, <1>11, <2>1, <2>2
  <2>3. CASE j \in 3 .. n
    BY <1>11, <1>13, <2>1, <2>3 DEF View
  <2> QED BY <1>5, <2>2, <2>3
<1>14. ASSUME NEW k \in Nodes(body), k # at, body.kind[k] \in Scoping, Ancestor(body, k, at)
       PROVE  \E i \in 3 .. (n + 1) : ss[i].owner = k
  <2>1. PICK i \in 3 .. n : scopes[i].owner = k
    BY <1>14 DEF View
  <2> QED BY <1>5, <1>11, <2>1
<1>15. n + 1 >= 2
  BY <1>2
<1> QED BY <1>3, <1>4, <1>9, <1>10, <1>12, <1>13, <1>14, <1>15 DEF View, ss

(* A name is found where, and only where, C's scope rules find it.         *)
LEMMA SeesRightly ==
    ASSUME Shape, status = "body", at \in Nodes(body), NEW ss, View(ss), NEW x, x # NotNamed
    PROVE  /\ Found(ss, x) <=> Denotes(item, at, x) # Nowhere
           /\ Found(ss, x) => sema_lookup(ss, x).site = Denotes(item, at, x)
<1>1. InBody
  BY DEF InBody
<1> PICK n : n = Len(ss)
  OBVIOUS
<1> DEFINE vs == InScope(body, at, x)
           ps == Params(item, x)
           gs == Globals(x)
           In(i) == {q \in Places(ss[i].symbols) : NameAt(q) = x}
<1>2. /\ Body(body) /\ at \in Nat /\ at \in 1 .. body.n /\ Nodes(body) = 1 .. body.n /\ body.n \in Nat
      /\ item \in Nat /\ item > 0 /\ item \in DOMAIN prog /\ prog \in Programs /\ IsList(It.params)
      /\ It = prog[item] /\ body = prog[item].body
  BY <1>1, BodyFacts, ProgramFacts DEF Shape, It, body
<1>3. /\ ss \in Chains /\ n \in Nat /\ n >= 2 /\ DOMAIN ss = 1 .. n
      /\ \A i \in 1 .. n : i = 1 \/ i = 2 \/ i \in 3 .. n
      /\ 1 \in 1 .. n /\ 2 \in 1 .. n /\ \A i \in 3 .. n : i \in 1 .. n
  <2>1. ss \in Chains /\ n >= 2
    BY DEF View
  <2>2. n \in Nat /\ DOMAIN ss = 1 .. n
    BY <2>1 DEF Chains
  <2> QED BY <2>1, <2>2
<1>4. ASSUME NEW d \in vs
      PROVE  /\ d > 1 /\ d \in Nat /\ d <= at /\ ScopeOf(body, d) \in Nat
             /\ \E i \in 3 .. n : ss[i].owner = ScopeOf(body, d) /\ <<item, d, 0>> \in In(i)
  <2>1. /\ d \in Nodes(body) /\ body.kind[d] = "var" /\ body.name[d] = x /\ d <= at
        /\ Reached(body, d) /\ Ancestor(body, ScopeOf(body, d), at)
    BY <1>4 DEF InScope
  <2>2. d > 1
    BY <1>2, <2>1 DEF Body
  <2>3. ScopeOf(body, d) \in Nodes(body) /\ ScopeOf(body, d) < d /\ body.kind[ScopeOf(body, d)] \in Scoping
    BY <1>2, <2>1, <2>2, BlockOf
  <2>4. ScopeOf(body, d) # at
    BY <1>2, <2>1, <2>3
  <2>5. PICK i \in 3 .. n : ss[i].owner = ScopeOf(body, d)
    BY <2>1, <2>3, <2>4 DEF View
  <2>6. d < at + 1 /\ Local(d, ss[i].owner)
    BY <1>2, <2>1, <2>5 DEF Local
  <2>7. <<item, d, 0>> \in Places(ss[i].symbols)
    BY <2>1, <2>6 DEF View, LocalSites
  <2>8. NameAt(<<item, d, 0>>) = x
    <3> DEFINE q == <<item, d, 0>>
    <3>1. q[1] = item /\ q[2] = d /\ d # 0 /\ d # 1
      BY <1>2, <2>1, <2>2
    <3> HIDE DEF q
    <3>2. NameAt(q) = x
      BY <1>2, <2>1, <3>1 DEF NameAt
    <3> QED BY <3>2 DEF q
  <2> QED BY <1>2, <2>1, <2>2, <2>3, <2>5, <2>7, <2>8
<1>5. ASSUME NEW i \in 3 .. n, NEW q \in In(i)
      PROVE  \E d \in vs : q = <<item, d, 0>> /\ ScopeOf(body, d) = ss[i].owner
  <2>1. q \in LocalSites(ss[i].owner, at + 1) /\ Ancestor(body, ss[i].owner, at) /\ NameAt(q) = x
    BY <1>5 DEF View
  <2>2. PICK d \in Nodes(body) : d < at + 1 /\ Local(d, ss[i].owner) /\ q = <<item, d, 0>>
    BY <2>1 DEF LocalSites
  <2>3. d > 1
    BY <1>2, <2>2 DEF Body, Local
  <2>4. body.name[d] = x
    <3>1. q[1] = item /\ q[2] = d /\ d # 0 /\ d # 1
      BY <1>2, <2>2, <2>3
    <3> QED BY <1>2, <2>1, <3>1 DEF NameAt
  <2>5. d \in vs
    BY <1>2, <2>1, <2>2, <2>4 DEF InScope, Local
  <2> QED BY <2>2, <2>5 DEF Local
<1>6. In(2) = ps
  <2>1. Places(ss[2].symbols) = {<<item, 1, k>> : k \in HasName(It.params)}
    BY DEF View, ParamSites
  <2>2. \A k : NameAt(<<item, 1, k>>) = It.params[k].name
    BY <1>2 DEF NameAt
  <2> QED BY <1>2, <2>1, <2>2 DEF Params, HasName
<1>7. In(1) = gs
  <2>1. Places(ss[1].symbols) = FileSites(Len(prog))
    BY DEF View
  <2>2. DOMAIN prog = 1 .. Len(prog) /\ Len(prog) \in Nat
    BY <1>2, ProgramFacts
  <2>3. ASSUME NEW q \in In(1) PROVE q \in gs
    <3>1. q \in Sites /\ q[1] \in DOMAIN prog /\ q[2] = 0 /\ q[3] \in GlobalsOf(q[1]) /\ NameAt(q) = x
      BY <2>1, <2>2, <2>3 DEF FileSites
    <3>2. q = <<q[1], 0, q[3]>>
      BY <3>1 DEF Sites
    <3> QED BY <3>1, <3>2 DEF Globals, Functions, GlobalsOf, NameAt, HasName
  <2>4. ASSUME NEW q \in gs PROVE q \in In(1)
    <3>1. \/ \E i \in Functions : prog[i].name = x /\ q = <<i, 0, 1>>
          \/ \E i \in DOMAIN prog \ Functions : \E k \in DOMAIN prog[i].entries :
                prog[i].entries[k].name = x /\ q = <<i, 0, k>>
      BY <2>4 DEF Globals
    <3>2. CASE \E i \in Functions : prog[i].name = x /\ q = <<i, 0, 1>>
      BY <2>1, <2>2, <3>2 DEF Functions, FileSites, Sites, GlobalsOf, NameAt
    <3>3. CASE \E i \in DOMAIN prog \ Functions : \E k \in DOMAIN prog[i].entries :
                prog[i].entries[k].name = x /\ q = <<i, 0, k>>
      <4>1. PICK i \in DOMAIN prog \ Functions : \E k \in DOMAIN prog[i].entries :
                prog[i].entries[k].name = x /\ q = <<i, 0, k>>
        BY <3>3
      <4>2. PICK k \in DOMAIN prog[i].entries : prog[i].entries[k].name = x /\ q = <<i, 0, k>>
        BY <4>1
      <4>3. k \in Nat /\ i \in Nat /\ prog[i].kind # "func"
        BY <1>2, <2>2, ProgramFacts, ListFacts DEF Functions
      <4> QED BY <2>1, <2>2, <4>2, <4>3 DEF FileSites, Sites, GlobalsOf, NameAt, HasName
    <3> QED BY <3>1, <3>2, <3>3
  <2> QED BY <2>3, <2>4
<1>8. Found(ss, x) <=> vs # {} \/ ps # {} \/ gs # {}
  <2>1. Found(ss, x) <=> \E i \in 1 .. n : In(i) # {}
    BY <1>3, FoundAt
  <2> HIDE DEF In, vs, ps, gs
  <2> QED BY <1>3, <1>4, <1>5, <1>6, <1>7, <2>1
<1>9. Denotes(item, at, x) = CASE vs # {} -> <<item, NearestScope(body, vs), 0>>
         [] vs = {} /\ ps # {} -> Last(ps)
         [] vs = {} /\ ps = {} /\ gs # {} -> Last(gs)
         [] OTHER -> Nowhere
  BY <1>2 DEF Denotes
<1> HIDE DEF vs, ps, gs
<1>10. CASE Found(ss, x)
  <2> DEFINE p == sema_lookup(ss, x).site
  <2>1. PICK i \in 1 .. n :
           /\ p \in In(i) /\ \A q \in In(i) : q = p \/ Before(q, p)
           /\ \A j \in 1 .. n : j > i => In(j) = {}
    BY SMTT(30), <1>3, <1>10, LookupLast DEF View
  <2> HIDE DEF In
  <2>2. CASE i \in 3 .. n
    <3>1. PICK d \in vs : p = <<item, d, 0>> /\ ScopeOf(body, d) = ss[i].owner
      BY <1>5, <2>1, <2>2
    <3>2. ASSUME NEW c \in vs
          PROVE  ScopeOf(body, c) < ScopeOf(body, d) \/ (ScopeOf(body, c) = ScopeOf(body, d) /\ c <= d)
      <4>1. PICK j \in 3 .. n : ss[j].owner = ScopeOf(body, c) /\ <<item, c, 0>> \in In(j)
        BY <1>4, <3>2
      <4>2. j <= i
        BY <1>3, <2>1, <2>2, <4>1
      <4>3. CASE j < i
        BY <2>2, <3>1, <4>1, <4>3 DEF View
      <4>4. CASE j = i
        <5>1. <<item, c, 0>> = <<item, d, 0>> \/ Before(<<item, c, 0>>, <<item, d, 0>>)
          BY <2>1, <3>1, <4>1, <4>4
        <5>2. c = d \/ c < d
          BY <1>2, <5>1 DEF Before
        <5>3. c \in Nat /\ d \in Nat
          BY <1>4, <3>1, <3>2
        <5> QED BY <3>1, <4>1, <4>4, <5>2, <5>3
      <4> QED BY <4>2, <4>3, <4>4
    <3>3. vs \in SUBSET Nat /\ \A c \in vs : ScopeOf(body, c) \in Nat
      BY <1>4
    <3>4. NearestScope(body, vs) = d
      BY <3>1, <3>2, <3>3, NearestIs
    <3>5. Denotes(item, at, x) = <<item, NearestScope(body, vs), 0>>
      BY <1>9, <3>1
    <3>6. <<item, d, 0>> # Nowhere
      BY <1>2 DEF Nowhere
    <3> QED BY <1>10, <3>1, <3>4, <3>5, <3>6
  <2>3. CASE i = 2
    <3>1. vs = {} /\ ps # {}
      <4>1. ASSUME NEW d \in vs PROVE FALSE
        <5>1. PICK j \in 3 .. n : In(j) # {}
          BY <1>4, <4>1
        <5> QED BY <1>3, <2>1, <2>3, <5>1
      <4> QED BY <1>6, <2>1, <2>3, <4>1
    <3>2. ps \in SUBSET Sites /\ \A q \in ps : q[2] = 1 /\ q[1] = item
      <4>1. \A k \in DOMAIN prog[item].params : <<item, 1, k>> \in Sites
        <5>1. DOMAIN It.params = 1 .. Len(It.params) /\ Len(It.params) \in Nat
          BY <1>2, ListFacts
        <5> QED BY <1>2, <5>1 DEF Sites
      <4>2. ps = {<<item, 1, k>> : k \in {j \in DOMAIN prog[item].params : prog[item].params[j].name = x}}
        BY DEF ps, Params
      <4> QED BY <4>1, <4>2
    <3>3. Last(ps) = p
      BY <1>6, <2>1, <2>3, <3>2, LastIs
    <3>4. p # Nowhere
      BY <1>2, <1>6, <2>1, <2>3, <3>2 DEF Nowhere
    <3>5. Denotes(item, at, x) = Last(ps)
      BY <1>9, <3>1
    <3> QED BY <1>10, <3>3, <3>4, <3>5
  <2>4. CASE i = 1
    <3>1. vs = {} /\ ps = {} /\ gs # {}
      <4>1. ASSUME NEW d \in vs PROVE FALSE
        <5>1. PICK j \in 3 .. n : In(j) # {}
          BY <1>4, <4>1
        <5> QED BY <1>3, <2>1, <2>4, <5>1
      <4>2. In(2) = {}
        BY <1>3, <2>1, <2>4
      <4> QED BY <1>6, <1>7, <2>1, <2>4, <4>1, <4>2
    <3>2. gs \in SUBSET Sites /\ \A q \in gs : q[2] = 0 /\ q[1] > 0
      <4>1. \A q \in In(1) : q \in FileSites(Len(prog))
        BY DEF In, View
      <4> QED BY <1>7, <4>1 DEF FileSites
    <3>3. Last(gs) = p
      BY <1>7, <2>1, <2>4, <3>2, LastIs
    <3>4. p # Nowhere
      BY <1>7, <2>1, <2>4, <3>2 DEF Nowhere
    <3>5. Denotes(item, at, x) = Last(gs)
      BY <1>9, <3>1
    <3> QED BY <1>10, <3>3, <3>4, <3>5
  <2> QED BY <1>3, <2>1, <2>2, <2>3, <2>4
<1>11. CASE ~Found(ss, x)
  BY <1>8, <1>9, <1>11
<1> QED BY <1>10, <1>11

-----------------------------------------------------------------------------
(* What the analysis of a statement resolves, and what it does not.        *)

LEMMA UsesAre ==
    ASSUME NEW i, NEW b, b = prog[i].body, NEW u
    PROVE  u \in Uses(i) <=>
             \E m \in Nodes(b) : \E p \in DOMAIN b.exprs[m] :
                \/ \E k \in DOMAIN b.exprs[m][p].args :
                      IsName(b.exprs[m][p].args[k]) /\ u = <<i, m, p, k>>
                \/ IsCall(b.exprs[m][p]) /\ u = <<i, m, p, 0>>
<1> DEFINE e(m, p) == b.exprs[m][p]
           K(m, p) == {j \in DOMAIN e(m, p).args : IsName(e(m, p).args[j])}
                        \cup (IF IsCall(e(m, p)) THEN {0} ELSE {})
           U(m, p) == {<<i, m, p, k>> : k \in K(m, p)}
           V(m) == UNION {U(m, p) : p \in DOMAIN b.exprs[m]}
<1>1. Uses(i) = UNION {V(m) : m \in Nodes(b)}
  BY DEF Uses
<1>2. ASSUME NEW m, NEW p
      PROVE  u \in U(m, p) <=> \/ \E k \in DOMAIN e(m, p).args :
                                      IsName(e(m, p).args[k]) /\ u = <<i, m, p, k>>
                               \/ IsCall(e(m, p)) /\ u = <<i, m, p, 0>>
  <2> HIDE DEF e
  <2> QED OBVIOUS
<1> HIDE DEF U
<1>3. \A m : u \in V(m) <=> \E p \in DOMAIN b.exprs[m] : u \in U(m, p)
  OBVIOUS
<1> HIDE DEF V
<1>4. u \in Uses(i) <=> \E m \in Nodes(b) : u \in V(m)
  BY <1>1
<1> QED BY <1>2, <1>3, <1>4

LEMMA UseParts ==
    ASSUME NEW i, NEW u \in Uses(i)
    PROVE  u[1] = i /\ u[2] \in Nodes(prog[i].body) /\ u[3] \in DOMAIN prog[i].body.exprs[u[2]]
<1> PICK b : b = prog[i].body
  OBVIOUS
<1>1. PICK m \in Nodes(b) : \E p \in DOMAIN b.exprs[m] :
         \/ \E k \in DOMAIN b.exprs[m][p].args : IsName(b.exprs[m][p].args[k]) /\ u = <<i, m, p, k>>
         \/ IsCall(b.exprs[m][p]) /\ u = <<i, m, p, 0>>
  BY UsesAre
<1>2. PICK p \in DOMAIN b.exprs[m] : \E k : u = <<i, m, p, k>>
  BY <1>1
<1>3. u[1] = i /\ u[2] = m /\ u[3] = p
  BY <1>2
<1> QED BY <1>3

(* A use at the statement at hand.                                         *)
LEMMA UseHere ==
    ASSUME NEW m \in Nodes(body), NEW p \in Exprs(m), NEW e, e = body.exprs[m][p]
    PROVE  /\ \A k \in DOMAIN e.args : IsName(e.args[k]) => <<item, m, p, k>> \in Uses(item)
           /\ IsCall(e) => <<item, m, p, 0>> \in Uses(item)
           /\ \A u \in Uses(item) : u[2] = m /\ u[3] = p =>
                 \/ \E k \in DOMAIN e.args : IsName(e.args[k]) /\ u = <<item, m, p, k>>
                 \/ IsCall(e) /\ u = <<item, m, p, 0>>
<1> PICK b : b = body
  OBVIOUS
<1>1. b = prog[item].body
  BY DEF body, It
<1>2. m \in Nodes(b) /\ p \in DOMAIN b.exprs[m] /\ e = b.exprs[m][p]
  BY DEF Exprs
<1>3. ASSUME NEW k \in DOMAIN e.args, IsName(e.args[k]) PROVE <<item, m, p, k>> \in Uses(item)
  <2> DEFINE u == <<item, m, p, k>>
  <2>1. \E q \in DOMAIN b.exprs[m] :
           \/ \E l \in DOMAIN b.exprs[m][q].args :
                 IsName(b.exprs[m][q].args[l]) /\ u = <<item, m, q, l>>
           \/ IsCall(b.exprs[m][q]) /\ u = <<item, m, q, 0>>
    BY <1>2, <1>3
  <2> HIDE DEF u
  <2>2. u \in Uses(item)
    BY <1>1, <1>2, <2>1, UsesAre
  <2> QED BY <2>2 DEF u
<1>4. ASSUME IsCall(e) PROVE <<item, m, p, 0>> \in Uses(item)
  <2> DEFINE u == <<item, m, p, 0>>
  <2>1. \E q \in DOMAIN b.exprs[m] : IsCall(b.exprs[m][q]) /\ u = <<item, m, q, 0>>
    BY <1>2, <1>4
  <2> HIDE DEF u
  <2>2. u \in Uses(item)
    BY <1>1, <1>2, <2>1, UsesAre
  <2> QED BY <2>2 DEF u
<1>5. ASSUME NEW u \in Uses(item), u[2] = m, u[3] = p
      PROVE  \/ \E k \in DOMAIN e.args : IsName(e.args[k]) /\ u = <<item, m, p, k>>
             \/ IsCall(e) /\ u = <<item, m, p, 0>>
  <2>1. \E l \in Nodes(b) : \E q \in DOMAIN b.exprs[l] :
           \/ \E k \in DOMAIN b.exprs[l][q].args :
                 IsName(b.exprs[l][q].args[k]) /\ u = <<item, l, q, k>>
           \/ IsCall(b.exprs[l][q]) /\ u = <<item, l, q, 0>>
    BY <1>1, UsesAre
  <2>2. PICK l \in Nodes(b) : \E q \in DOMAIN b.exprs[l] :
           \/ \E k \in DOMAIN b.exprs[l][q].args :
                 IsName(b.exprs[l][q].args[k]) /\ u = <<item, l, q, k>>
           \/ IsCall(b.exprs[l][q]) /\ u = <<item, l, q, 0>>
    BY <2>1
  <2>3. PICK q \in DOMAIN b.exprs[l] :
           \/ \E k \in DOMAIN b.exprs[l][q].args :
                 IsName(b.exprs[l][q].args[k]) /\ u = <<item, l, q, k>>
           \/ IsCall(b.exprs[l][q]) /\ u = <<item, l, q, 0>>
    BY <2>2
  <2>4. l = m /\ q = p
    BY <1>5, <2>3
  <2> QED BY <1>2, <2>3, <2>4
<1> QED BY <1>3, <1>4, <1>5

(* The names of an expression, and the kinds of what they mean.            *)
LEMMA ArgFacts ==
    ASSUME Shape, status = "body", at \in Nodes(body), NEW p \in Exprs(at),
           NEW e, e = body.exprs[at][p], NEW k \in DOMAIN e.args
    PROVE  e.args[k] # NotNamed
<1>1. Body(body)
  BY BodyFacts DEF InBody
<1> QED BY <1>1 DEF Body, Exprs

LEMMA ExprFacts ==
    ASSUME Shape, status = "body", at \in Nodes(body), NEW p \in Exprs(at),
           NEW e, e = body.exprs[at][p]
    PROVE  /\ p \in Nat /\ item \in Functions /\ body = prog[item].body
           /\ Len(e.args) \in Nat /\ DOMAIN e.args = 1 .. Len(e.args)
<1>1. /\ Body(body) /\ item \in Functions /\ body = prog[item].body
  BY BodyFacts DEF InBody, Functions, It, body
<1>2. IsList(body.exprs[at]) /\ p \in DOMAIN body.exprs[at] /\ IsList(e.args)
  BY <1>1 DEF Body, Exprs
<1>3. p \in Nat
  BY <1>2, ListFacts
<1>4. Len(e.args) \in Nat /\ DOMAIN e.args = 1 .. Len(e.args)
  BY <1>2, ListFacts
<1> QED BY <1>1, <1>3, <1>4

LEMMA MeantType ==
    ASSUME Shape, status = "body", at \in Nodes(body), NEW ss, View(ss), NEW x, x # NotNamed,
           Found(ss, x)
    PROVE  LET site == Denotes(item, at, x)
           IN /\ site # Nowhere /\ sema_lookup(ss, x).site = site
              /\ sema_lookup(ss, x).type = TypeAt(site) /\ sema_lookup(ss, x).type.kind = KindAt(site)
              /\ KindAt(site) = "func" => sema_lookup(ss, x).type.params = ParamKinds(site)
<1>1. ss \in Chains
  BY DEF View
<1>2. sema_lookup(ss, x) \in Symbols
  BY <1>1, LookupIsSymbol
<1>3. sema_lookup(ss, x).site = Denotes(item, at, x) /\ Denotes(item, at, x) # Nowhere
  BY SeesRightly
<1>4. sema_lookup(ss, x).type = TypeAt(Denotes(item, at, x))
  BY <1>2, <1>3, SymbolFields
<1> QED BY <1>3, <1>4 DEF KindAt, ParamKinds

(* The arguments that are analysed are those before the end of the walk:   *)
(* the first that make_cast converts.                                      *)
LEMMA AnalysedIsUncut ==
    ASSUME Shape, status = "body", at \in Nodes(body), NEW ss, View(ss), NEW p \in Exprs(at),
           NEW e, e = body.exprs[at][p],
           IsCall(e) => Found(ss, e.callee) /\ sema_lookup(ss, e.callee).type.kind = "func"
    PROVE  \A k \in DOMAIN e.args :
              /\ k \in Analysed(ss, e) => ~CutBy(<<item, at, p, k>>)
              /\ Accepted(ss, e) /\ ~CutBy(<<item, at, p, k>>) => k \in Analysed(ss, e)
<1>0. body = prog[item].body /\ Len(e.args) \in Nat /\ DOMAIN e.args = 1 .. Len(e.args)
  BY ExprFacts
<1> PICK n \in Nat : n = Len(e.args)
  BY <1>0
<1>1. DOMAIN e.args = 1 .. n
  BY <1>0
<1>6. \A k \in 1 .. n : \A j \in 1 .. (k - 1) : j \in 1 .. n /\ j < k /\ j \in Nat
  OBVIOUS
<1>7. \A k \in 1 .. n : \A j \in 1 .. n : j < k => j \in 1 .. (k - 1)
  OBVIOUS
<1> DEFINE ks == ParamKinds(Denotes(item, at, e.callee))
           kind(k) == IF IsName(e.args[k]) THEN KindAt(Denotes(item, at, e.args[k]))
                      ELSE LiteralType(e.args[k]).kind
           good(j) == (IsName(e.args[j]) => Found(ss, e.args[j])) /\ ~Converted(ss, e, j)
<1>2. ASSUME NEW k
      PROVE  CutBy(<<item, at, p, k>>) <=>
               IsCall(e) /\ \E j \in DOMAIN e.args : j < k /\ j <= Len(ks) /\ kind(j) # ks[j]
  <2> DEFINE u == <<item, at, p, k>>
  <2>1. u[1] = item /\ u[2] = at /\ u[3] = p /\ u[4] = k
    OBVIOUS
  <2> HIDE DEF u
  <2>2. prog[u[1]].body.exprs[u[2]][u[3]] = e
    BY <1>0, <2>1
  <2>3. CutBy(u) <=> IsCall(e) /\ \E j \in DOMAIN e.args : j < k /\ j <= Len(ks) /\ kind(j) # ks[j]
    BY <2>1, <2>2 DEF CutBy
  <2> QED BY <2>3 DEF u
<1>3. \A k \in DOMAIN e.args : k \in Analysed(ss, e) <=> (IsCall(e) => \A j \in 1 .. (k - 1) : good(j))
  BY DEF Analysed
<1>4. CASE ~IsCall(e)
  BY <1>2, <1>3, <1>4
<1>5. CASE IsCall(e)
  <2>1. e.callee # NotNamed /\ Found(ss, e.callee) /\ sema_lookup(ss, e.callee).type.kind = "func"
    BY <1>5 DEF IsCall
  <2>2. sema_lookup(ss, e.callee).type.params = ks
    BY <2>1, MeantType
  <2>3. ASSUME NEW j \in DOMAIN e.args, IsName(e.args[j]) => Found(ss, e.args[j])
        PROVE  Converted(ss, e, j) <=> j <= Len(ks) /\ kind(j) # ks[j]
    <3>1. TypeOf(ss, e.args[j]).kind = kind(j)
      <4> PICK x : x = e.args[j]
        OBVIOUS
      <4>1. CASE IsName(x)
        <5>1. Found(ss, x) /\ x # NotNamed
          BY <2>3, <4>1, ArgFacts
        <5>2. sema_lookup(ss, x).type.kind = KindAt(Denotes(item, at, x))
          BY <5>1, MeantType
        <5> QED BY <4>1, <5>2 DEF TypeOf
      <4>2. CASE ~IsName(x)
        BY <4>2 DEF TypeOf
      <4> QED BY <4>1, <4>2
    <3> HIDE DEF kind, ks
    <3> QED BY <2>2, <3>1 DEF Converted
  <2> HIDE DEF kind, ks, good
  <2>4. ASSUME NEW k \in DOMAIN e.args, k \in Analysed(ss, e), CutBy(<<item, at, p, k>>) PROVE FALSE
    <3>1. PICK j \in DOMAIN e.args : j < k /\ j <= Len(ks) /\ kind(j) # ks[j]
      BY <1>2, <2>4
    <3>2. \A l \in 1 .. (k - 1) : good(l)
      BY <1>3, <1>5, <2>4
    <3>3. j \in 1 .. (k - 1)
      BY <1>1, <1>7, <2>4, <3>1
    <3>4. good(j)
      BY <3>2, <3>3
    <3> QED BY <2>3, <3>1, <3>4 DEF good
  <2>5. ASSUME NEW k \in DOMAIN e.args, Accepted(ss, e), ~CutBy(<<item, at, p, k>>),
               k \notin Analysed(ss, e)
        PROVE  FALSE
    <3> DEFINE B == {j \in 1 .. (k - 1) : ~good(j)}
    <3>1. B # {} /\ B \in SUBSET Nat
      <4>1. B # {}
        BY <1>3, <1>5, <2>5
      <4>2. k \in 1 .. n
        BY <1>1, <2>5
      <4> QED BY <1>6, <4>1, <4>2
    <3> HIDE DEF B
    <3>2. PICK j \in B : \A l \in B : j <= l
      BY <3>1, HasSmallest
    <3>3. j \in 1 .. (k - 1) /\ ~good(j) /\ j \in 1 .. n /\ j < k
      <4>1. k \in 1 .. n /\ j \in 1 .. (k - 1) /\ ~good(j)
        BY <1>1, <2>5, <3>2 DEF B
      <4> QED BY <1>6, <4>1
    <3>4. ASSUME NEW l \in 1 .. (j - 1) PROVE good(l)
      <4>1. l \in 1 .. (k - 1) /\ ~(j <= l)
        <5>1. k \in 1 .. n
          BY <1>1, <2>5
        <5> QED BY <3>3, <5>1
      <4> QED BY <3>2, <4>1 DEF B
    <3>5. j \in DOMAIN e.args /\ j \in Analysed(ss, e)
      BY <1>1, <1>3, <3>3, <3>4
    <3>6. IsName(e.args[j]) => Found(ss, e.args[j])
      BY <2>5, <3>5 DEF Accepted
    <3>7. Converted(ss, e, j)
      BY <3>3, <3>6 DEF good
    <3>8. j <= Len(ks) /\ kind(j) # ks[j] /\ j < k
      BY <2>3, <3>3, <3>5, <3>6, <3>7
    <3> QED BY <1>2, <1>5, <2>5, <3>5, <3>8
  <2> QED BY <2>4, <2>5
<1> QED BY <1>4, <1>5

KindMeant(i, m, x) ==
    IF IsName(x) THEN KindAt(Denotes(i, m, x)) ELSE LiteralType(x).kind

(* What the program says of a use does not change.                         *)
LEMMA MeaningFixed ==
    ASSUME UNCHANGED prog
    PROVE  /\ Functions' = Functions
           /\ \A i : Uses(i)' = Uses(i)
           /\ \A u : SiteOf(u)' = SiteOf(u)
           /\ \A u : UnseenBy(u)' <=> UnseenBy(u)
           /\ \A s : KindAt(s)' = KindAt(s)
<1>1. Functions' = Functions
  BY DEF Functions
<1>2. ASSUME NEW i PROVE Uses(i)' = Uses(i)
  BY DEF Uses
<1>3. ASSUME NEW i, NEW m, NEW x PROVE Denotes(i, m, x)' = Denotes(i, m, x)
  <2>1. Params(i, x)' = Params(i, x)
    BY DEF Params
  <2>2. Globals(x)' = Globals(x)
    BY <1>1 DEF Globals
  <2>3. InScope(prog[i].body, m, x)' = InScope(prog[i].body, m, x)
    BY DEF InScope
  <2> QED BY <2>1, <2>2, <2>3 DEF Denotes
<1>4. ASSUME NEW s PROVE TypeAt(s)' = TypeAt(s)
  BY <1>1 DEF TypeAt
<1>5. ASSUME NEW s PROVE KindAt(s)' = KindAt(s) /\ ParamKinds(s)' = ParamKinds(s)
  BY <1>4 DEF KindAt, ParamKinds
<1>10. ASSUME NEW i, NEW m, NEW x PROVE KindMeant(i, m, x)' = KindMeant(i, m, x)
  BY <1>3, <1>5 DEF KindMeant
<1>6. ASSUME NEW u PROVE NameOf(u)' = NameOf(u)
  BY DEF NameOf
<1>7. ASSUME NEW u PROVE SiteOf(u)' = SiteOf(u)
  BY <1>3, <1>6 DEF SiteOf
<1>8. ASSUME NEW u PROVE CutBy(u)' <=> CutBy(u)
  <2> PICK e : e = prog[u[1]].body.exprs[u[2]][u[3]]
    OBVIOUS
  <2> DEFINE ks == ParamKinds(Denotes(u[1], u[2], e.callee))
             Off(k) == k < u[4] /\ k <= Len(ks) /\ KindMeant(u[1], u[2], e.args[k]) # ks[k]
  <2>1. CutBy(u) <=> IsCall(e) /\ \E k \in DOMAIN e.args : Off(k)
    BY DEF CutBy, KindMeant
  <2>2. CutBy(u)' <=> IsCall(e) /\ \E k \in DOMAIN e.args : Off(k)'
    BY DEF CutBy, KindMeant
  <2>3. ks' = ks
    BY <1>3, <1>5
  <2>4. ASSUME NEW k PROVE Off(k)' <=> Off(k)
    <3> PICK x : x = e.args[k]
      OBVIOUS
    <3>1. KindMeant(u[1], u[2], x)' = KindMeant(u[1], u[2], x)
      BY <1>10
    <3> HIDE DEF ks
    <3> QED BY <2>3, <3>1
  <2> HIDE DEF Off
  <2> QED BY <2>1, <2>2, <2>4
<1>9. ASSUME NEW u PROVE UnseenBy(u)' <=> UnseenBy(u)
  BY <1>8 DEF UnseenBy
<1> QED BY <1>1, <1>2, <1>5, <1>7, <1>9

LEMMA CutEarlier ==
    ASSUME NEW u, NEW e, e = prog[u[1]].body.exprs[u[2]][u[3]]
    PROVE  CutBy(u) => \E k \in DOMAIN e.args : k < u[4]
<1> DEFINE ks == ParamKinds(Denotes(u[1], u[2], e.callee))
           Off(k) == k < u[4] /\ k <= Len(ks) /\ KindMeant(u[1], u[2], e.args[k]) # ks[k]
<1>1. CutBy(u) <=> (IsCall(e) /\ \E k \in DOMAIN e.args : Off(k))
  BY DEF CutBy, KindMeant
<1>2. ASSUME NEW k, Off(k) PROVE k < u[4]
  BY <1>2
<1> HIDE DEF Off, ks
<1>3. CutBy(u) => \E k \in DOMAIN e.args : Off(k)
  BY ONLY <1>1
<1> QED BY ONLY <1>2, <1>3

(* Where the walk has been.                                                *)
Passed(u) ==
    \/ status = "done"
    \/ status = "pass2" /\ u[1] < item
    \/ InBody /\ (u[1] < item \/ (u[1] = item /\ u[2] < at))

RefRight(r, D) ==
    /\ r \in RefType
    /\ [site |-> r.site, id |-> r.id, global |-> r.global] \in D
    /\ r.use[2] # 0 => /\ r.use[1] \in Functions /\ r.use \in Uses(r.use[1])
                       /\ ~UnseenBy(r.use) /\ r.site = SiteOf(r.use)

(* The use for which a unit is rejected.                                   *)
Wrong(u) ==
    /\ u \in Uses(item) /\ u[2] = at /\ ~UnseenBy(u)
    /\ SiteOf(u) = Nowhere \/ (u[4] = 0 /\ KindAt(SiteOf(u)) # "func")

Resolved ==
    /\ \A r \in refs : RefRight(r, decls)
    /\ \A i \in Functions : \A u \in Uses(i) : Passed(u) /\ ~UnseenBy(u) => \E r \in refs : r.use = u
    /\ status = "exit" => \E u \in Uses(item) : Wrong(u)

AllRecorded(ss, D) ==
    \A i \in DOMAIN ss : \A k \in DOMAIN ss[i].symbols : Recorded(ss[i].symbols[k]) \in D

LEMMA RefOf ==
    ASSUME NEW ss \in Chains, NEW x, Found(ss, x), NEW D, AllRecorded(ss, D),
           NEW use \in Nat \X Nat \X Nat \X Nat
    PROVE  LET r == Ref(ss, use, x)
           IN /\ r \in RefType /\ r.use = use /\ r.site = sema_lookup(ss, x).site
              /\ [site |-> r.site, id |-> r.id, global |-> r.global] \in D
<1>1. PICK i \in DOMAIN ss : \E k \in DOMAIN ss[i].symbols : sema_lookup(ss, x) = ss[i].symbols[k]
  BY LookupFinds
<1>2. Recorded(sema_lookup(ss, x)) \in D
  BY <1>1 DEF AllRecorded
<1>3. sema_lookup(ss, x) \in Symbols
  BY LookupIsSymbol
<1> PICK sym : sym = sema_lookup(ss, x)
  OBVIOUS
<1>4. sym.site \in Sites /\ sym.qbe_id \in Nat /\ sym.is_global \in BOOLEAN
  BY <1>3, SymbolFields
<1>5. Ref(ss, use, x) = [use |-> use, site |-> sym.site, id |-> sym.qbe_id, global |-> sym.is_global]
  BY DEF Ref
<1> HIDE DEF Ref
<1> QED BY <1>2, <1>4, <1>5 DEF RefType, Recorded

(* Nothing above the statement at hand is skipped.                         *)
LEMMA ReachedHere ==
    ASSUME Shape, Nesting, status = "body", at \in Nodes(body), body.kind[at] \notin Skipped
    PROVE  Reached(body, at)
<1> SUFFICES ASSUME NEW k \in Nodes(body), body.kind[k] \in Skipped, Ancestor(body, k, at)
             PROVE  FALSE
  BY DEF Reached
<1>1. InBody
  BY DEF InBody
<1>2. at \in Nat /\ Nodes(body) = 1 .. body.n /\ body.n \in Nat
  BY <1>1, BodyFacts
<1>3. k < at
  BY <1>2 DEF Ancestor
<1> QED BY <1>1, <1>3 DEF Nesting

LEMMA CalleeUse ==
    ASSUME Shape, status = "body", at \in Nodes(body), NEW p \in Exprs(at),
           NEW e, e = body.exprs[at][p], IsCall(e)
    PROVE  LET u == <<item, at, p, 0>>
           IN e.callee # NotNamed /\ u \in Uses(item) /\ NameOf(u) = e.callee /\ ~CutBy(u)
<1>1. /\ body = prog[item].body /\ Len(e.args) \in Nat /\ DOMAIN e.args = 1 .. Len(e.args)
  BY ExprFacts
<1> DEFINE u == <<item, at, p, 0>>
<1>2. u[1] = item /\ u[2] = at /\ u[3] = p /\ u[4] = 0
  OBVIOUS
<1>3. u \in Uses(item)
  BY UseHere
<1> HIDE DEF u
<1>4. NameOf(u) = e.callee
  BY <1>1, <1>2 DEF NameOf
<1>5. ~CutBy(u)
  <2> SUFFICES ASSUME CutBy(u) PROVE FALSE
    OBVIOUS
  <2> PICK f : f = prog[u[1]].body.exprs[u[2]][u[3]]
    OBVIOUS
  <2>1. PICK k \in DOMAIN f.args : k < u[4]
    BY CutEarlier
  <2>2. k \in DOMAIN e.args /\ k < 0
    BY <1>1, <1>2, <2>1
  <2> PICK n \in Nat : n = Len(e.args)
    BY <1>1
  <2>3. k \in 1 .. n
    BY <1>1, <2>2
  <2> QED BY <2>2, <2>3
<1> QED BY <1>3, <1>4, <1>5 DEF IsCall, u

LEMMA ArgUse ==
    ASSUME Shape, status = "body", at \in Nodes(body), NEW p \in Exprs(at),
           NEW e, e = body.exprs[at][p]
    PROVE  \A k \in DOMAIN e.args : IsName(e.args[k]) =>
              LET u == <<item, at, p, k>>
              IN /\ e.args[k] # NotNamed /\ k \in Nat
                 /\ u \in Uses(item) /\ NameOf(u) = e.args[k]
<1>1. body = prog[item].body /\ Len(e.args) \in Nat /\ DOMAIN e.args = 1 .. Len(e.args)
  BY ExprFacts
<1>2. \A k \in DOMAIN e.args : IsName(e.args[k]) => <<item, at, p, k>> \in Uses(item)
  BY UseHere
<1>3. \A k \in DOMAIN e.args : k \in Nat
  <2> PICK n \in Nat : n = Len(e.args)
    BY <1>1
  <2> QED BY <1>1
<1>4. \A k \in DOMAIN e.args : k # 0
  <2> PICK n \in Nat : n = Len(e.args)
    BY <1>1
  <2> QED BY <1>1
<1>5. ASSUME NEW k \in DOMAIN e.args, IsName(e.args[k])
      PROVE  LET u == <<item, at, p, k>>
             IN /\ e.args[k] # NotNamed /\ k \in Nat
                /\ u \in Uses(item) /\ NameOf(u) = e.args[k]
  <2> DEFINE u == <<item, at, p, k>>
  <2>1. u[1] = item /\ u[2] = at /\ u[3] = p /\ u[4] = k
    OBVIOUS
  <2>2. u \in Uses(item)
    BY <1>2, <1>5
  <2> HIDE DEF u
  <2>3. k \in Nat /\ k # 0
    BY <1>3, <1>4
  <2>4. NameOf(u) = e.args[k]
    BY <1>1, <2>1, <2>3 DEF NameOf
  <2>5. e.args[k] # NotNamed
    BY <1>5, ArgFacts
  <2> QED BY <2>2, <2>3, <2>4, <2>5 DEF u
<1> QED BY <1>5

(* The uses of an expression of the statement at hand that are analysed    *)
(* are those that are not unseen, and they get the symbols they mean.      *)
LEMMA ExprResolves ==
    ASSUME Shape, Nesting, status = "body", at \in Nodes(body), body.kind[at] \notin Skipped,
           NEW ss, View(ss), NEW p \in Exprs(at), Accepted(ss, body.exprs[at][p]),
           NEW D, AllRecorded(ss, D)
    PROVE  /\ \A r \in sema_expr(ss, at, p) : RefRight(r, D)
           /\ \A u \in Uses(item) : u[2] = at /\ u[3] = p /\ ~UnseenBy(u)
                 => \E r \in sema_expr(ss, at, p) : r.use = u
<1> PICK e : e = body.exprs[at][p]
  OBVIOUS
<1>1. /\ p \in Nat /\ item \in Functions /\ body = prog[item].body
      /\ Len(e.args) \in Nat /\ DOMAIN e.args = 1 .. Len(e.args)
  BY ExprFacts
<1>2. item \in Nat /\ at \in Nat /\ 0 \in Nat /\ InBody
  BY BodyFacts DEF InBody
<1>3. ss \in Chains /\ Accepted(ss, e)
  BY DEF View
<1>4. Reached(body, at)
  BY ReachedHere
<1>12. \A u \in Uses(item) : u[2] = at /\ u[3] = p =>
         \/ \E k \in DOMAIN e.args : IsName(e.args[k]) /\ u = <<item, at, p, k>>
         \/ IsCall(e) /\ u = <<item, at, p, 0>>
  BY UseHere
<1>5. ASSUME NEW x, x # NotNamed, Found(ss, x), NEW k \in Nat,
             LET u == <<item, at, p, k>>
             IN u \in Uses(item) /\ NameOf(u) = x /\ ~CutBy(u)
      PROVE  RefRight(Ref(ss, <<item, at, p, k>>, x), D)
  <2> PICK u : u = <<item, at, p, k>>
    OBVIOUS
  <2> PICK r : r = Ref(ss, u, x)
    OBVIOUS
  <2>1. u \in Nat \X Nat \X Nat \X Nat /\ u[1] = item /\ u[2] = at
    BY <1>1, <1>2, <1>5
  <2>2. /\ r \in RefType /\ r.use = u /\ r.site = sema_lookup(ss, x).site
        /\ [site |-> r.site, id |-> r.id, global |-> r.global] \in D
    BY <1>3, <1>5, <2>1, RefOf
  <2>3. sema_lookup(ss, x).site = Denotes(item, at, x)
    BY <1>5, SeesRightly
  <2>4. r.site = SiteOf(u)
    BY <1>5, <2>1, <2>2, <2>3 DEF SiteOf
  <2>5. ~UnseenBy(u)
    BY <1>1, <1>4, <1>5, <2>1 DEF UnseenBy
  <2> QED BY <1>1, <1>5, <2>1, <2>2, <2>4, <2>5 DEF RefRight
<1>6. ASSUME IsCall(e)
      PROVE  LET u == <<item, at, p, 0>>
             IN /\ e.callee # NotNamed /\ Found(ss, e.callee)
                /\ u \in Uses(item) /\ NameOf(u) = e.callee /\ ~CutBy(u)
  BY <1>3, <1>6, CalleeUse DEF Accepted
<1>7. ASSUME NEW k \in DOMAIN e.args, k \in Analysed(ss, e), IsName(e.args[k])
      PROVE  LET u == <<item, at, p, k>>
             IN /\ e.args[k] # NotNamed /\ Found(ss, e.args[k]) /\ k \in Nat
                /\ u \in Uses(item) /\ NameOf(u) = e.args[k] /\ ~CutBy(u)
  <2>1. ~CutBy(<<item, at, p, k>>)
    BY <1>3, <1>7, AnalysedIsUncut DEF Accepted
  <2>2. Found(ss, e.args[k])
    BY <1>3, <1>7 DEF Accepted
  <2> QED BY <1>7, <2>1, <2>2, ArgUse
<1>8. sema_expr(ss, at, p) =
        {Ref(ss, <<item, at, p, k>>, e.args[k]) : k \in {j \in Analysed(ss, e) : IsName(e.args[j])}}
          \cup {Ref(ss, <<item, at, p, 0>>, x) : x \in {e.callee} \ {NotNamed}}
  BY DEF sema_expr
<1>9. Analysed(ss, e) \subseteq DOMAIN e.args
  BY DEF Analysed
<1>10. ASSUME NEW r \in sema_expr(ss, at, p) PROVE RefRight(r, D)
  <2>1. CASE \E k \in Analysed(ss, e) : IsName(e.args[k]) /\ r = Ref(ss, <<item, at, p, k>>, e.args[k])
    <3>1. PICK k \in DOMAIN e.args : /\ k \in Analysed(ss, e) /\ IsName(e.args[k])
                                     /\ r = Ref(ss, <<item, at, p, k>>, e.args[k])
      BY <1>9, <2>1
    <3> QED BY <1>5, <1>7, <3>1
  <2>2. CASE IsCall(e) /\ r = Ref(ss, <<item, at, p, 0>>, e.callee)
    BY <1>2, <1>5, <1>6, <2>2
  <2>3. \/ \E k \in Analysed(ss, e) : IsName(e.args[k]) /\ r = Ref(ss, <<item, at, p, k>>, e.args[k])
        \/ e.callee # NotNamed /\ r = Ref(ss, <<item, at, p, 0>>, e.callee)
    BY <1>8
  <2> QED BY <2>1, <2>2, <2>3 DEF IsCall
<1>11. ASSUME NEW u \in Uses(item), u[2] = at, u[3] = p, ~UnseenBy(u)
       PROVE  \E r \in sema_expr(ss, at, p) : r.use = u
  <2>1. \/ \E k \in DOMAIN e.args : IsName(e.args[k]) /\ u = <<item, at, p, k>>
        \/ IsCall(e) /\ u = <<item, at, p, 0>>
    BY <1>11, <1>12
  <2>2. CASE IsCall(e) /\ u = <<item, at, p, 0>>
    <3>1. Ref(ss, u, e.callee) \in sema_expr(ss, at, p)
      BY <1>8, <2>2 DEF IsCall
    <3>2. Ref(ss, u, e.callee).use = u
      BY DEF Ref
    <3> QED BY <3>1, <3>2
  <2>3. CASE \E k \in DOMAIN e.args : IsName(e.args[k]) /\ u = <<item, at, p, k>>
    <3>1. PICK k \in DOMAIN e.args : IsName(e.args[k]) /\ u = <<item, at, p, k>>
      BY <2>3
    <3>2. ~CutBy(u)
      BY <1>11 DEF UnseenBy
    <3>3. k \in Analysed(ss, e)
      BY <1>3, <3>1, <3>2, AnalysedIsUncut DEF Accepted
    <3>4. Ref(ss, u, e.args[k]) \in sema_expr(ss, at, p)
      BY <1>8, <3>1, <3>3
    <3>5. Ref(ss, u, e.args[k]).use = u
      BY DEF Ref
    <3> QED BY <3>4, <3>5
  <2> QED BY <2>1, <2>2, <2>3
<1> QED BY <1>10, <1>11

(* How the invariant goes on, whatever the step.                           *)
LEMMA RefRightGrows ==
    ASSUME NEW r, NEW D, NEW E, D \subseteq E, RefRight(r, D)
    PROVE  RefRight(r, E)
BY DEF RefRight

LEMMA ResolvedGrows ==
    ASSUME Resolved, UNCHANGED prog, decls \subseteq decls', refs \subseteq refs',
           \A r \in refs' : r \in refs \/ RefRight(r, decls'),
           \A i \in Functions : \A u \in Uses(i) : Passed(u)' /\ ~UnseenBy(u)
              => Passed(u) \/ \E r \in refs' : r.use = u,
           status' = "exit" => UNCHANGED <<item, at>> /\ \E u \in Uses(item) : Wrong(u)
    PROVE  Resolved'
<1>1. /\ Functions' = Functions
      /\ \A i : Uses(i)' = Uses(i)
      /\ \A u : SiteOf(u)' = SiteOf(u)
      /\ \A u : UnseenBy(u)' <=> UnseenBy(u)
      /\ \A s : KindAt(s)' = KindAt(s)
  BY MeaningFixed
<1>2. ASSUME NEW r \in refs' PROVE RefRight(r, decls)'
  <2>1. RefRight(r, decls')
    <3>1. CASE r \in refs
      BY <3>1, RefRightGrows DEF Resolved
    <3> QED BY <1>2, <3>1
  <2> PICK u : u = r.use
    OBVIOUS
  <2>2. Uses(u[1])' = Uses(u[1]) /\ SiteOf(u)' = SiteOf(u) /\ (UnseenBy(u)' <=> UnseenBy(u))
    BY <1>1
  <2> QED BY <1>1, <2>1, <2>2 DEF RefRight, RefType, DeclType, Sites
<1>3. ASSUME NEW i \in Functions, NEW u \in Uses(i), Passed(u)', ~UnseenBy(u)
      PROVE  \E r \in refs' : r.use = u
  <2>1. CASE Passed(u)
    BY <1>3, <2>1 DEF Resolved
  <2> QED BY <1>3, <2>1
<1>4. (\A r \in refs : RefRight(r, decls))'
  BY <1>2
<1>5. (\A i \in Functions : \A u \in Uses(i) : Passed(u) /\ ~UnseenBy(u) => \E r \in refs : r.use = u)'
  BY <1>1, <1>3
<1>6. ASSUME status' = "exit" PROVE (\E u \in Uses(item) : Wrong(u))'
  <2>1. PICK v \in Uses(item) : Wrong(v)
    BY <1>6
  <2>2. PICK s : s = SiteOf(v)
    OBVIOUS
  <2>3. KindAt(s)' = KindAt(s) /\ SiteOf(v)' = s
    BY <1>1, <2>2
  <2>4. Wrong(v)'
    BY <1>1, <1>6, <2>1, <2>2, <2>3 DEF Wrong
  <2>5. v \in Uses(item)'
    BY <1>1, <1>6
  <2> QED BY <2>4, <2>5
<1> QED BY <1>4, <1>5, <1>6 DEF Resolved

(* A step over a statement that is analysed.                               *)
LEMMA NodeResolves ==
    ASSUME Shape, Nesting, Resolved, status = "body", at \in Nodes(body),
           body.kind[at] \notin Skipped, NEW ss, View(ss), AllAccepted(ss, at),
           NEW D, D = decls', AllRecorded(ss, D), decls \subseteq D,
           UNCHANGED <<status, prog, item>>, at' = at + 1, Resolve(ss, at)
    PROVE  Resolved'
<1>1. refs' = refs \cup UNION {sema_expr(ss, at, p) : p \in Exprs(at)}
  BY DEF Resolve
<1>2. ASSUME NEW p \in Exprs(at)
      PROVE  /\ \A r \in sema_expr(ss, at, p) : RefRight(r, D)
             /\ \A u \in Uses(item) : u[2] = at /\ u[3] = p /\ ~UnseenBy(u)
                   => \E r \in sema_expr(ss, at, p) : r.use = u
  <2>1. Accepted(ss, body.exprs[at][p])
    BY DEF AllAccepted
  <2> QED BY <2>1, ExprResolves
<1>3. \A r \in refs' : r \in refs \/ RefRight(r, decls')
  BY <1>1, <1>2
<1>4. ASSUME NEW i \in Functions, NEW u \in Uses(i), Passed(u)', ~UnseenBy(u), ~Passed(u)
      PROVE  \E r \in refs' : r.use = u
  <2>1. u[1] = i /\ u[2] \in Nodes(prog[i].body) /\ u[3] \in DOMAIN prog[i].body.exprs[u[2]]
    BY UseParts
  <2>2. /\ item \in Nat /\ at \in Nat /\ item \in Functions /\ body = prog[item].body /\ InBody
        /\ Nodes(body) = 1 .. body.n /\ body.n \in Nat
    BY BodyFacts DEF InBody, Functions, It, body
  <2>3. i \in Nat
    BY ProgramFacts DEF Shape, Functions
  <2>4. u[1] = item /\ u[2] < at + 1 /\ ~(u[2] < at)
    BY <1>4, <2>1, <2>2, <2>3 DEF Passed, InBody
  <2>5. u[2] = at
    BY <2>1, <2>2, <2>4
  <2>6. u[3] \in Exprs(at) /\ i = item
    BY <2>1, <2>2, <2>4, <2>5 DEF Exprs
  <2>7. \E r \in sema_expr(ss, at, u[3]) : r.use = u
    BY <1>2, <1>4, <2>5, <2>6
  <2> QED BY <1>1, <2>6, <2>7
<1> QED BY <1>1, <1>3, <1>4, ResolvedGrows

(* A unit is rejected for a use that is wrong.                             *)
LEMMA ExprRejected ==
    ASSUME Shape, Nesting, status = "body", at \in Nodes(body), body.kind[at] \notin Skipped,
           NEW ss, View(ss), NEW p \in Exprs(at), NEW e, e = body.exprs[at][p],
           ~Accepted(ss, e)
    PROVE  \E u \in Uses(item) : Wrong(u)
<1>1. item \in Functions /\ body = prog[item].body
  BY ExprFacts
<1>2. Reached(body, at)
  BY ReachedHere
<1>3. ASSUME NEW u, u \in Uses(item), u[1] = item, u[2] = at, ~CutBy(u), NEW x, x # NotNamed,
             NameOf(u) = x,
             ~Found(ss, x) \/ (u[4] = 0 /\ sema_lookup(ss, x).type.kind # "func")
      PROVE  Wrong(u)
  <2>1. ~UnseenBy(u)
    BY <1>1, <1>2, <1>3 DEF UnseenBy
  <2>2. SiteOf(u) = Denotes(item, at, x)
    BY <1>3 DEF SiteOf
  <2>3. CASE ~Found(ss, x)
    <3>1. SiteOf(u) = Nowhere
      BY <1>3, <2>2, <2>3, SeesRightly
    <3> QED BY <1>3, <2>1, <3>1 DEF Wrong
  <2>4. CASE Found(ss, x)
    <3>1. KindAt(SiteOf(u)) # "func" /\ u[4] = 0
      BY <1>3, <2>2, <2>4, MeantType
    <3> QED BY <1>3, <2>1, <3>1 DEF Wrong
  <2> QED BY <2>3, <2>4
<1>4. CASE IsCall(e) /\ ~(Found(ss, e.callee) /\ sema_lookup(ss, e.callee).type.kind = "func")
  <2> DEFINE u == <<item, at, p, 0>>
  <2>1. u[1] = item /\ u[2] = at /\ u[4] = 0
    OBVIOUS
  <2>2. e.callee # NotNamed /\ u \in Uses(item) /\ NameOf(u) = e.callee /\ ~CutBy(u)
    BY <1>4, CalleeUse
  <2> HIDE DEF u
  <2>3. Wrong(u)
    BY <1>3, <1>4, <2>1, <2>2
  <2> QED BY <2>2, <2>3
<1>5. CASE IsCall(e) => Found(ss, e.callee) /\ sema_lookup(ss, e.callee).type.kind = "func"
  <2>1. PICK k \in Analysed(ss, e) : IsName(e.args[k]) /\ ~Found(ss, e.args[k])
    BY <1>5 DEF Accepted
  <2>2. k \in DOMAIN e.args
    BY DEF Analysed
  <2> DEFINE u == <<item, at, p, k>>
  <2>3. u[1] = item /\ u[2] = at
    OBVIOUS
  <2>4. e.args[k] # NotNamed /\ u \in Uses(item) /\ NameOf(u) = e.args[k]
    BY <2>1, <2>2, ArgUse
  <2>5. ~CutBy(u)
    BY <1>5, <2>1, <2>2, AnalysedIsUncut
  <2> HIDE DEF u
  <2>6. Wrong(u)
    BY <1>3, <2>1, <2>3, <2>4, <2>5
  <2> QED BY <2>4, <2>6
<1> QED BY <1>4, <1>5

LEMMA RejectResolves ==
    ASSUME Shape, Nesting, Contents, Resolved, Reject
    PROVE  Resolved'
<1>1. /\ status = "body" /\ InBody /\ ~Leaving /\ at \in Nodes(body) /\ body.kind[at] \in Kinds \ Skipped
  BY VisitFacts DEF Reject
<1>2. PICK ss : ss = IF body.kind[at] = "var" THEN WithVar ELSE scopes
  OBVIOUS
<1>3. View(ss)
  <2>1. CASE body.kind[at] = "var"
    BY <1>1, <1>2, <2>1, ViewWithVar
  <2>2. CASE body.kind[at] # "var"
    BY <1>1, <1>2, <2>2, ViewScopes
  <2> QED BY <2>1, <2>2
<1>4. ~AllAccepted(ss, at) /\ status' = "exit" /\ UNCHANGED <<prog, item, at, decls, refs>>
  BY <1>2 DEF Reject
<1>5. PICK p \in Exprs(at) : ~Accepted(ss, body.exprs[at][p])
  BY <1>4 DEF AllAccepted
<1>6. \E u \in Uses(item) : Wrong(u)
  BY <1>1, <1>3, <1>5, ExprRejected
<1>7. \A u : Passed(u)' => Passed(u)
  BY <1>1, <1>4 DEF Passed, InBody
<1> QED BY <1>4, <1>6, <1>7, ResolvedGrows

(* The declarators of a global are found again.                            *)
LEMMA DeclResolves ==
    ASSUME Shape, Contents, Resolved, PassTwoDecl
    PROVE  Resolved'
<1>1. /\ status = "pass2" /\ item <= Len(prog) /\ It.kind = "decl"
      /\ refs' = refs \cup {Ref(scopes, <<item, 0, 0, k>>, It.entries[k].name) : k \in HasName(It.entries)}
      /\ item' = item + 1 /\ UNCHANGED <<status, prog, at, scopes, decls>>
  BY DEF PassTwoDecl
<1>2. /\ item \in DOMAIN prog /\ item \in Nat /\ IsList(It.entries) /\ It = prog[item]
      /\ Len(prog) \in Nat /\ DOMAIN prog = 1 .. Len(prog)
  BY <1>1, ProgramFacts DEF Shape, It
<1>3. scopes \in Chains /\ DOMAIN scopes = 1 .. 1 /\ Filed = Len(prog)
  BY <1>1 DEF Shape, Filed, Chains
<1>4. Places(scopes[1].symbols) = FileSites(Len(prog)) /\ AllRecorded(scopes, decls)
  BY <1>3 DEF Contents, Kept, Held, AllRecorded
<1>5. ASSUME NEW k \in HasName(It.entries)
      PROVE  RefRight(Ref(scopes, <<item, 0, 0, k>>, It.entries[k].name), decls)
  <2>1. k \in Nat /\ k \in DOMAIN It.entries
    <3>1. DOMAIN It.entries = 1 .. Len(It.entries) /\ Len(It.entries) \in Nat
      BY <1>2, ListFacts
    <3> QED BY <1>5, <3>1 DEF HasName
  <2> DEFINE q == <<item, 0, k>>
  <2>2. q[1] = item /\ q[2] = 0 /\ q[3] = k /\ q \in Sites
    BY <1>2, <2>1 DEF Sites
  <2> HIDE DEF q
  <2>3. q \in Places(scopes[1].symbols)
    BY <1>1, <1>2, <1>4, <2>2, <1>5 DEF FileSites, GlobalsOf
  <2> PICK x : x = It.entries[k].name
    OBVIOUS
  <2>4. NameAt(q) = x
    BY <1>1, <1>2, <2>2 DEF NameAt
  <2>5. Found(scopes, x)
    BY <1>3, <2>3, <2>4, FoundAt
  <2> DEFINE u == <<item, 0, 0, k>>
  <2>6. u \in Nat \X Nat \X Nat \X Nat /\ u[2] = 0
    BY <1>2, <2>1
  <2> HIDE DEF u
  <2>7. RefRight(Ref(scopes, u, x), decls)
    BY <1>3, <1>4, <2>5, <2>6, RefOf DEF RefRight
  <2> QED BY <2>7 DEF u
<1>6. \A r \in refs' : r \in refs \/ RefRight(r, decls')
  BY <1>1, <1>5
<1>7. ASSUME NEW i \in Functions, NEW u \in Uses(i), Passed(u)' PROVE Passed(u)
  <2>1. u[1] = i /\ i \in DOMAIN prog /\ prog[i].kind = "func"
    BY UseParts DEF Functions
  <2>2. i # item /\ i \in Nat
    BY <1>1, <1>2, <2>1
  <2>3. u[1] < item + 1
    BY <1>1, <1>7 DEF Passed, InBody
  <2>4. u[1] < item
    BY <1>2, <2>1, <2>2, <2>3
  <2> QED BY <1>1, <2>4 DEF Passed
<1>8. refs \subseteq refs' /\ decls \subseteq decls' /\ status' # "exit"
  BY <1>1
<1> QED BY <1>1, <1>6, <1>7, <1>8, ResolvedGrows

(* Steps that resolve nothing.                                             *)
LEMMA QuietResolves ==
    ASSUME Shape, Resolved, UNCHANGED <<prog, refs>>, decls \subseteq decls',
           status' = "exit" => UNCHANGED <<status, item, at>>,
           \A i \in Functions : \A u \in Uses(i) : Passed(u)' /\ ~UnseenBy(u) => Passed(u)
    PROVE  Resolved'
<1>1. /\ refs \subseteq refs' /\ \A r \in refs' : r \in refs \/ RefRight(r, decls')
      /\ \A i \in Functions : \A u \in Uses(i) : Passed(u)' /\ ~UnseenBy(u)
            => Passed(u) \/ \E r \in refs' : r.use = u
  OBVIOUS
<1>2. status' = "exit" => UNCHANGED <<item, at>> /\ \E u \in Uses(item) : Wrong(u)
  BY DEF Resolved
<1> QED BY <1>1, <1>2, ResolvedGrows

(* Two chains that show the same accept the same.                          *)
LEMMA ViewsAccept ==
    ASSUME Shape, status = "body", at \in Nodes(body), NEW ss, View(ss), NEW tt, View(tt),
           NEW p \in Exprs(at), NEW e, e = body.exprs[at][p], Accepted(ss, e)
    PROVE  Accepted(tt, e)
<1>1. ASSUME NEW x, x # NotNamed, Found(ss, x)
      PROVE  Found(tt, x) /\ sema_lookup(tt, x).type.kind = sema_lookup(ss, x).type.kind
  <2>1. Found(tt, x)
    BY <1>1, SeesRightly
  <2>2. /\ sema_lookup(ss, x).type.kind = KindAt(Denotes(item, at, x))
        /\ sema_lookup(tt, x).type.kind = KindAt(Denotes(item, at, x))
    BY <1>1, <2>1, MeantType
  <2> QED BY <2>1, <2>2
<1>2. IsCall(e) => Found(ss, e.callee) /\ sema_lookup(ss, e.callee).type.kind = "func"
  BY DEF Accepted
<1>3. IsCall(e) => Found(tt, e.callee) /\ sema_lookup(tt, e.callee).type.kind = "func"
  BY <1>1, <1>2 DEF IsCall
<1>4. ASSUME NEW k \in Analysed(tt, e), IsName(e.args[k]) PROVE Found(tt, e.args[k])
  <2>1. k \in DOMAIN e.args
    BY DEF Analysed
  <2>2. ~CutBy(<<item, at, p, k>>)
    BY <1>3, <2>1, AnalysedIsUncut
  <2>3. k \in Analysed(ss, e)
    BY <1>2, <2>1, <2>2, AnalysedIsUncut
  <2>4. Found(ss, e.args[k])
    BY <1>4, <2>3 DEF Accepted
  <2>5. e.args[k] # NotNamed
    BY <2>1, ArgFacts
  <2> QED BY <1>1, <2>4, <2>5
<1> QED BY <1>3, <1>4 DEF Accepted

LEMMA NextResolves ==
    ASSUME Shape, Nesting, Contents, Resolved, [Next]_vars
    PROVE  Resolved'
<1>0. Contents'
  BY NextContents
<1>1. ASSUME NEW kinds, Visit(kinds)
      PROVE  /\ status = "body" /\ InBody /\ ~Leaving /\ at \in Nodes(body) /\ body.kind[at] \in kinds
             /\ at \in Nat /\ Nodes(body) = 1 .. body.n /\ body.n \in Nat /\ Body(body)
  BY <1>1, VisitFacts, BodyFacts
<1>2. ASSUME NEW i \in Functions, NEW u \in Uses(i)
      PROVE  u[1] = i /\ i \in Nat /\ i \in DOMAIN prog /\ u[2] \in Nodes(prog[i].body)
  BY UseParts, ProgramFacts DEF Shape, Functions
<1>3. item \in Nat /\ Len(prog) \in Nat /\ DOMAIN prog = 1 .. Len(prog)
  BY ProgramFacts DEF Shape
<1>4. PICK tt : tt = scopes'
  OBVIOUS
<1>5. PICK D : D = decls'
  OBVIOUS
<1>6. AllRecorded(tt, D)
  <2> SUFFICES ASSUME NEW i \in DOMAIN tt, NEW k \in DOMAIN tt[i].symbols
               PROVE  Recorded(tt[i].symbols[k]) \in D
    BY DEF AllRecorded
  <2>1. Kept(i)'
    BY <1>0, <1>4 DEF Contents
  <2>2. (\A l \in DOMAIN scopes[i].symbols : Recorded(scopes[i].symbols[l]) \in decls)'
    BY <2>1 DEF Kept
  <2> QED BY <1>4, <1>5, <2>2 DEF Recorded
<1>7. CASE PassOne \/ BeginPassTwo
  <2>1. status = "pass1" /\ UNCHANGED <<prog, refs>> /\ decls \subseteq decls'
        /\ (status' = "pass1" \/ (status' = "pass2" /\ item' = 1))
    BY <1>7 DEF PassOne, BeginPassTwo
  <2>2. ASSUME NEW i \in Functions, NEW u \in Uses(i), Passed(u)' PROVE FALSE
    <3>1. u[1] \in Nat /\ u[1] # 0
      BY <1>2, <1>3
    <3> QED BY <2>1, <2>2, <3>1 DEF Passed, InBody
  <2> QED BY <2>1, <2>2, QuietResolves
<1>8. CASE PassTwoDecl
  BY <1>8, DeclResolves
<1>9. CASE EnterFunction
  <2>1. /\ status = "pass2" /\ status' = "body" /\ at' = 1 /\ UNCHANGED <<prog, item, refs>>
        /\ decls \subseteq decls'
    BY <1>9 DEF EnterFunction
  <2>2. ASSUME NEW i \in Functions, NEW u \in Uses(i), Passed(u)' PROVE Passed(u)
    <3>1. u[2] \in Nat /\ ~(u[2] < 1)
      BY <1>2, ProgramFacts DEF Shape, Functions, Nodes
    <3>2. u[1] < item
      BY <2>1, <2>2, <3>1 DEF Passed, InBody
    <3> QED BY <2>1, <3>2 DEF Passed
  <2> QED BY <2>1, <2>2, QuietResolves
<1>10. CASE Compound
  <2>1. Visit({"compound", "group"}) /\ at' = at + 1 /\ UNCHANGED <<status, prog, item, decls, refs>>
    BY <1>10 DEF Compound
  <2>2. /\ status = "body" /\ at \in Nodes(body) /\ body.kind[at] \in {"compound", "group"} /\ at \in Nat
        /\ Body(body) /\ InBody
    BY <1>1, <2>1
  <2>3. Exprs(at) = {}
    BY <2>2 DEF Body, Exprs
  <2>4. ASSUME NEW i \in Functions, NEW u \in Uses(i), Passed(u)' PROVE Passed(u)
    <3>1. u[1] < item \/ (u[1] = item /\ u[2] < at + 1)
      BY <2>1, <2>2, <2>4 DEF Passed, InBody
    <3>2. ASSUME u[1] = item PROVE u[2] < at
      <4>1. i = item /\ u[2] \in Nodes(body) /\ u[3] \in Exprs(u[2])
        BY <1>2, <3>2, UseParts DEF Exprs, body, It
      <4>2. u[2] # at
        BY <2>3, <4>1
      <4>3. u[2] \in Nat
        BY <1>1, <2>1, <4>1
      <4> QED BY <2>2, <3>1, <3>2, <4>2, <4>3, <1>3, <1>2
    <3> QED BY <2>2, <3>1, <3>2 DEF Passed
  <2>5. decls \subseteq decls' /\ status' # "exit"
    BY <2>1, <2>2
  <2> QED BY <2>1, <2>4, <2>5, QuietResolves
<1>11. CASE VarDecl
  <2>1. /\ Visit({"var"}) /\ AllAccepted(WithVar, at) /\ Resolve(WithVar, at) /\ scopes' = WithVar
        /\ at' = at + 1 /\ UNCHANGED <<status, prog, item>> /\ decls \subseteq decls'
    BY <1>11 DEF VarDecl
  <2>2. status = "body" /\ ~Leaving /\ at \in Nodes(body) /\ body.kind[at] = "var"
    BY <1>1, <2>1
  <2>3. View(WithVar) /\ body.kind[at] \notin Skipped
    BY <2>2, ViewWithVar DEF Skipped
  <2>4. tt = WithVar
    BY <1>4, <2>1
  <2> QED BY <1>5, <1>6, <2>1, <2>2, <2>3, <2>4, NodeResolves
<1>12. CASE Expressions
  <2>1. /\ Visit({"expr", "return", "if", "while", "do"}) /\ AllAccepted(scopes, at)
        /\ Resolve(scopes, at) /\ scopes' = scopes
        /\ at' = at + 1 /\ UNCHANGED <<status, prog, item, decls>>
    BY <1>12 DEF Expressions
  <2>2. /\ status = "body" /\ ~Leaving /\ at \in Nodes(body)
        /\ body.kind[at] \in {"expr", "return", "if", "while", "do"}
    BY <1>1, <2>1
  <2>3. body.kind[at] # "var" /\ body.kind[at] \notin Skipped
    BY <2>2 DEF Skipped
  <2>4. View(scopes)
    BY <2>2, <2>3, ViewScopes
  <2> QED BY <1>4, <1>5, <1>6, <2>1, <2>2, <2>3, <2>4, NodeResolves
<1>13. CASE For
  <2>1. /\ Visit({"for"}) /\ AllAccepted(scopes, at) /\ scopes' = sema_enter_scope(scopes, at)
        /\ Resolve(scopes', at)
        /\ at' = at + 1 /\ UNCHANGED <<status, prog, item, decls>>
    BY <1>13 DEF For
  <2>2. /\ status = "body" /\ ~Leaving /\ at \in Nodes(body) /\ body.kind[at] = "for"
    BY <1>1, <2>1
  <2>3. body.kind[at] # "var" /\ body.kind[at] \notin Skipped
    BY <2>2 DEF Skipped
  <2>4. View(scopes)
    BY <2>2, <2>3, ViewScopes
  <2>5. View(tt)
    BY <1>4, <2>1, <2>2, <2>4, ViewPushed
  <2>6. AllAccepted(tt, at)
    BY <2>1, <2>2, <2>4, <2>5, ViewsAccept DEF AllAccepted
  <2>7. Resolve(tt, at)
    BY <1>4, <2>1 DEF Resolve
  <2> QED BY <1>5, <1>6, <2>1, <2>2, <2>3, <2>5, <2>6, <2>7, NodeResolves
<1>14. CASE Skip
  <2>1. Visit(Skipped) /\ at' = After(at) /\ UNCHANGED <<status, prog, item, decls, refs>>
    BY <1>14 DEF Skip
  <2>2. /\ status = "body" /\ InBody /\ at \in Nodes(body) /\ at \in Nat /\ body.kind[at] \in Skipped
        /\ Body(body) /\ Nodes(body) = 1 .. body.n /\ body.n \in Nat /\ body = prog[item].body
    BY <1>1, <2>1 DEF body, It
  <2> PICK a : a = After(at)
    OBVIOUS
  <2>3. /\ a \in (at + 1) .. (body.n + 1)
        /\ \A j \in (at + 1) .. (a - 1) : Ancestor(body, at, j)
    BY <2>2, AfterIsNext
  <2>4. ASSUME NEW d \in Nodes(body), at <= d, d < a PROVE ~Reached(body, d)
    <3>1. d = at \/ d \in (at + 1) .. (a - 1)
      BY <2>2, <2>3, <2>4
    <3>2. Ancestor(body, at, d)
      BY <2>2, <2>3, <3>1, OwnAncestor
    <3> QED BY <2>2, <3>2 DEF Reached
  <2>5. ASSUME NEW i \in Functions, NEW u \in Uses(i), Passed(u)', ~UnseenBy(u), ~Passed(u)
        PROVE  FALSE
    <3>1. u[1] = item /\ u[2] < a /\ ~(u[2] < at) /\ u[2] \in Nodes(body)
      BY <1>2, <1>3, <2>1, <2>2, <2>5 DEF Passed, InBody
    <3>2. at <= u[2]
      BY <2>2, <3>1
    <3>3. ~Reached(body, u[2])
      BY <2>4, <3>1, <3>2
    <3> QED BY <2>2, <2>5, <3>1, <3>3 DEF UnseenBy
  <2>6. status' # "exit" /\ decls \subseteq decls'
    BY <2>1, <2>2
  <2> QED BY <2>1, <2>5, <2>6, QuietResolves
<1>15. CASE LeaveScope
  <2>1. status = "body" /\ UNCHANGED <<status, prog, item, at, decls, refs>>
    BY <1>15 DEF LeaveScope
  <2>2. \A u : Passed(u)' => Passed(u)
    BY <2>1 DEF Passed, InBody
  <2> QED BY <2>1, <2>2, QuietResolves
<1>16. CASE LeaveFunction
  <2>1. /\ status = "body" /\ at > body.n /\ status' = "pass2" /\ item' = item + 1
        /\ UNCHANGED <<prog, at, decls, refs>>
    BY <1>16 DEF LeaveFunction
  <2>2. InBody /\ at \in Nat /\ Nodes(body) = 1 .. body.n /\ body.n \in Nat /\ body = prog[item].body
    BY <2>1, BodyFacts DEF InBody, body, It
  <2>3. ASSUME NEW i \in Functions, NEW u \in Uses(i), Passed(u)' PROVE Passed(u)
    <3>1. u[1] < item + 1 /\ u[1] = i /\ i \in Nat
      BY <1>2, <2>1, <2>3 DEF Passed, InBody
    <3>2. CASE u[1] = item
      <4>1. u[2] < at
        BY <1>2, <2>1, <2>2, <3>2
      <4> QED BY <2>2, <3>2, <4>1 DEF Passed
    <3>3. CASE u[1] < item
      BY <2>2, <3>3 DEF Passed
    <3> QED BY <1>3, <3>1, <3>2, <3>3
  <2> QED BY <2>1, <2>3, QuietResolves
<1>17. CASE Finish
  <2>1. /\ status = "pass2" /\ item > Len(prog) /\ status' = "done"
        /\ UNCHANGED <<prog, item, decls, refs>>
    BY <1>17 DEF Finish
  <2>2. ASSUME NEW i \in Functions, NEW u \in Uses(i) PROVE Passed(u)
    <3>1. u[1] < item
      BY <1>2, <1>3, <2>1
    <3> QED BY <2>1, <3>1 DEF Passed
  <2> QED BY <2>1, <2>2, QuietResolves
<1>18. CASE Reject
  BY <1>18, RejectResolves
<1>19. CASE UNCHANGED vars
  <2>1. UNCHANGED <<status, prog, item, at, decls, refs>>
    BY <1>19 DEF vars
  <2>2. \A u : Passed(u)' => Passed(u)
    BY <2>1 DEF Passed, InBody
  <2> QED BY <2>1, <2>2, QuietResolves
<1> QED BY <1>7, <1>8, <1>9, <1>10, <1>11, <1>12, <1>13, <1>14, <1>15, <1>16, <1>17, <1>18, <1>19
        DEF Next, Ended

LEMMA InitResolves ==
    ASSUME Init
    PROVE  Resolved
BY DEF Init, Resolved, Passed, InBody

LEMMA ContentsStay == Spec => []Contents
<1>1. Init => Contents
  BY InitContents
<1>2. Shape /\ Nesting /\ Contents /\ [Next]_vars => Contents'
  BY NextContents
<1> QED BY <1>1, <1>2, ScopesKeepShape, PTL DEF Spec

LEMMA UsesAreResolved == Spec => []Resolved
<1>1. Init => Resolved
  BY InitResolves
<1>2. Shape /\ Nesting /\ Contents /\ Resolved /\ [Next]_vars => Resolved'
  BY NextResolves
<1> QED BY <1>1, <1>2, ScopesKeepShape, ContentsStay, PTL DEF Spec

(* The number of what was declared at a place: no place has two.           *)
LEMMA NumberOf ==
    ASSUME Numbering, NEW d \in decls
    PROVE  SymId(d.site) = d.id
<1> DEFINE e == CHOOSE e \in decls : e.site = d.site
<1>1. e \in decls /\ e.site = d.site
  OBVIOUS
<1>2. SymId(d.site) = e.id
  BY DEF SymId
<1> HIDE DEF e
<1>3. e = d
  BY <1>1 DEF Numbering, Distinct
<1> QED BY <1>2, <1>3

-----------------------------------------------------------------------------
(* What a name means in C.  Nothing nests in a group, so that the scope    *)
(* rules of the analysis and those of C part only where C means a variable *)
(* of a group that the name is not in.                                     *)

LEMMA BelowGroup ==
    ASSUME NEW b, Body(b), NEW g \in Nodes(b), b.kind[g] = "group", NEW m \in Nodes(b),
           Ancestor(b, g, m), m # g
    PROVE  b.par[m] = g
<1> SUFFICES ASSUME b.par[m] # g PROVE FALSE
  OBVIOUS
<1>1. /\ b.n \in Nat /\ Nodes(b) = 1 .. b.n /\ g \in Nat /\ g >= 1 /\ m \in Nat /\ g < m
      /\ \A k \in (g + 1) .. m : b.par[k] >= g
  BY DEF Body, Nodes, Ancestor
<1> DEFINE S == {k \in (g + 1) .. m : b.par[k] # g}
<1>2. S \in SUBSET Nat /\ m \in S
  BY <1>1
<1>3. PICK k \in S : \A j \in S : k <= j
  <2> HIDE DEF S
  <2> QED BY <1>2, HasSmallest
<1>4. k \in Nodes(b) /\ k > g /\ k > 1 /\ k <= m /\ b.par[k] # g /\ b.par[k] >= g
  BY <1>1, <1>3
<1>5. b.par[k] \in 1 .. (k - 1) /\ b.kind[b.par[k]] \notin Leaves
  BY <1>4 DEF Body
<1> PICK j : j = b.par[k]
  OBVIOUS
<1>6. j \in (g + 1) .. m /\ j < k
  BY <1>1, <1>4, <1>5
<1>7. b.par[j] = g
  BY <1>3, <1>4, <1>6
<1>8. j \in Nodes(b) /\ j > 1
  BY <1>1, <1>6
<1>9. b.kind[j] = "var"
  BY <1>7, <1>8 DEF Body
<1> QED BY <1>5, <1>9 DEF Leaves

LEMMA OfParent ==
    ASSUME NEW b, Body(b), NEW m \in Nodes(b), m > 1, NEW g, g = b.par[m]
    PROVE  /\ g \in Nodes(b) /\ g < m /\ Ancestor(b, g, m)
           /\ \A k \in Nodes(b) : k # m /\ Ancestor(b, k, m) => Ancestor(b, k, g) /\ k <= g
<1>1. m \in Nat /\ b.n \in Nat /\ Nodes(b) = 1 .. b.n
  BY DEF Body, Nodes
<1>2. b.par[m] \in 1 .. (m - 1)
  BY DEF Body
<1>3. g \in Nodes(b) /\ g < m
  BY <1>1, <1>2
<1>4. Ancestor(b, g, b.par[m])
  BY <1>3, OwnAncestor
<1>5. Ancestor(b, g, m)
  BY <1>3, <1>4, SubtreeIsInterval
<1>6. ASSUME NEW k \in Nodes(b), k # m, Ancestor(b, k, m) PROVE Ancestor(b, k, g) /\ k <= g
  <2>1. Ancestor(b, k, b.par[m])
    BY <1>6, SubtreeIsInterval
  <2>2. Ancestor(b, k, g)
    BY <2>1
  <2>3. k # 0
    BY <1>1, <1>6
  <2> QED BY <1>1, <1>6, <2>2, <2>3 DEF Ancestor
<1> QED BY <1>3, <1>5, <1>6

LEMMA BlockOfC ==
    ASSUME NEW b, Body(b), NEW m \in Nodes(b), m > 1
    PROVE  LET k == Block(b, m)
           IN /\ k \in Nodes(b) /\ k # m /\ b.kind[k] \in Blocks /\ Ancestor(b, k, m)
              /\ \A j \in Nodes(b) : j # m /\ b.kind[j] \in Blocks /\ Ancestor(b, j, m) => j <= k
<1> DEFINE S == {k \in Nodes(b) : k # m /\ b.kind[k] \in Blocks /\ Ancestor(b, k, m)}
<1>1. b.n \in Nat /\ Nodes(b) = 1 .. b.n
  BY DEF Body, Nodes
<1>2. 1 \in S
  <2>0. b.n >= 1 /\ 1 \in Nodes(b)
    BY <1>1
  <2>1. 1 \in Nodes(b) /\ b.kind[1] = "compound"
    BY <2>0 DEF Body
  <2>2. \A k \in 2 .. m : b.par[k] >= 1
    BY SMTT(30), <1>1 DEF Body
  <2>3. Ancestor(b, 1, m)
    BY <1>1, <2>2 DEF Ancestor
  <2> QED BY <2>1, <2>3 DEF Blocks
<1>3. S \in SUBSET (0 .. b.n)
  BY <1>1
<1>4. PICK top \in S : \A j \in S : j <= top
  <2> HIDE DEF S
  <2> QED BY <1>1, <1>2, <1>3, HasLargest
<1> QED BY <1>4 DEF Block

(* A variable of a group is in the scope of the group, any other in that   *)
(* of its block.                                                           *)
LEMMA GroupScope ==
    ASSUME NEW b, Body(b), NEW d \in Nodes(b), b.kind[d] = "var"
    PROVE  /\ d > 1 /\ b.par[d] \in Nodes(b) /\ b.par[d] < d
           /\ Block(b, d) \in Nodes(b) /\ Block(b, d) < d /\ Ancestor(b, Block(b, d), d)
           /\ ScopeOf(b, d) \in Nodes(b) /\ ScopeOf(b, d) < d /\ Ancestor(b, ScopeOf(b, d), d)
           /\ b.kind[Block(b, d)] \in Blocks
           /\ b.kind[b.par[d]] = "group" => /\ ScopeOf(b, d) = b.par[d] /\ Block(b, d) < b.par[d]
                                            /\ Ancestor(b, Block(b, d), b.par[d])
           /\ b.kind[b.par[d]] # "group" => ScopeOf(b, d) = Block(b, d)
<1> PICK g : g = b.par[d]
  OBVIOUS
<1>1. b.n \in Nat /\ Nodes(b) = 1 .. b.n
  BY DEF Body, Nodes
<1>2. d > 1 /\ g \in Nodes(b) /\ g < d
  <2>1. d # 1
    BY DEF Body
  <2>2. d > 1
    BY <1>1, <2>1
  <2> QED BY <1>1, <2>2 DEF Body
<1>3. Ancestor(b, g, d) /\ g # d
  BY <1>1, <1>2, OfParent
<1> PICK k : k = Block(b, d)
  OBVIOUS
<1> PICK s : s = ScopeOf(b, d)
  OBVIOUS
<1>4. /\ k \in Nodes(b) /\ k # d /\ b.kind[k] \in Blocks /\ Ancestor(b, k, d)
      /\ \A j \in Nodes(b) : j # d /\ b.kind[j] \in Blocks /\ Ancestor(b, j, d) => j <= k
  BY <1>2, BlockOfC
<1>5. /\ s \in Nodes(b) /\ s < d /\ b.kind[s] \in Scoping /\ Ancestor(b, s, d)
      /\ \A j \in Nodes(b) : j # d /\ b.kind[j] \in Scoping /\ Ancestor(b, j, d) => j <= s
  BY <1>2, BlockOf
<1>6. /\ Ancestor(b, k, g) /\ Ancestor(b, s, g)
      /\ k <= g /\ s <= g
  <2>1. s # d
    BY <1>1, <1>2, <1>5
  <2> QED BY <1>2, <1>4, <1>5, <2>1, OfParent
<1>7. k <= g /\ s <= g /\ k < d
  BY <1>1, <1>2, <1>4, <1>6
<1>8. CASE b.kind[g] = "group"
  <2>1. g <= s
    BY <1>2, <1>3, <1>5, <1>8 DEF Scoping
  <2>2. k # g
    BY <1>4, <1>8 DEF Blocks
  <2>3. s = g /\ k < g
    BY <1>1, <1>2, <1>4, <1>5, <1>7, <2>1, <2>2
  <2> QED BY <1>2, <1>4, <1>5, <1>6, <1>7, <1>8, <2>3
<1>9. CASE b.kind[g] # "group"
  <2>1. b.kind[s] # "group"
    <3> SUFFICES ASSUME b.kind[s] = "group" PROVE FALSE
      OBVIOUS
    <3>1. b.par[d] = s
      BY <1>1, <1>5, BelowGroup
    <3> QED BY <1>9, <3>1
  <2>2. b.kind[s] \in Blocks /\ b.kind[k] \in Scoping
    BY <1>4, <1>5, <2>1 DEF Blocks, Scoping
  <2>3. s <= k /\ k <= s
    BY <1>1, <1>4, <1>5, <2>2
  <2>4. s = k
    BY <1>1, <1>4, <1>5, <2>3
  <2> QED BY <1>2, <1>4, <1>5, <1>7, <1>9, <2>4
<1> QED BY <1>8, <1>9

Best(b, S, d) ==
    /\ d \in S
    /\ \A c \in S : Block(b, c) < Block(b, d) \/ (Block(b, c) = Block(b, d) /\ c <= d)

LEMMA NearestExists ==
    ASSUME NEW b, Body(b), NEW S \in SUBSET Nodes(b), S # {}, \A c \in S : Block(b, c) \in Nodes(b)
    PROVE  Best(b, S, Nearest(b, S))
<1>1. b.n \in Nat /\ Nodes(b) = 1 .. b.n
  BY DEF Body, Nodes
<1> DEFINE K == {Block(b, c) : c \in S}
<1>2. K \in SUBSET (0 .. b.n) /\ K # {}
  BY <1>1
<1>3. PICK k \in K : \A j \in K : j <= k
  <2> HIDE DEF K
  <2> QED BY <1>1, <1>2, HasLargest
<1> DEFINE D == {c \in S : Block(b, c) = k}
<1>4. D \in SUBSET (0 .. b.n) /\ D # {}
  BY <1>1, <1>3
<1>5. PICK d \in D : \A c \in D : c <= d
  <2> HIDE DEF D
  <2> QED BY <1>1, <1>4, HasLargest
<1>6. ASSUME NEW c \in S PROVE Block(b, c) < Block(b, d) \/ (Block(b, c) = Block(b, d) /\ c <= d)
  <2>1. Block(b, c) <= k /\ Block(b, d) = k /\ Block(b, c) \in 1 .. b.n
    BY <1>1, <1>3, <1>5
  <2>2. Block(b, c) = k => c <= d
    BY <1>5
  <2>3. k \in Nat
    BY <1>1, <1>2, <1>3
  <2> QED BY <1>1, <2>1, <2>2, <2>3
<1> HIDE DEF K, D
<1>7. d \in S
  BY <1>5 DEF D
<1> QED BY <1>6, <1>7 DEF Nearest, Best

(* What C means is what the analysis finds, unless the scope of a group    *)
(* was left.                                                               *)
LEMMA SameVisible ==
    ASSUME NEW b, Body(b), NEW m \in Nodes(b), NEW x,
           NEW C, C = Visible(b, m, x), NEW T, T = InScope(b, m, x),
           C # {} => LET d == Nearest(b, C)
                     IN b.kind[b.par[d]] = "group" => Ancestor(b, b.par[d], m)
    PROVE  /\ C = {} => T = {}
           /\ C # {} => T # {} /\ NearestScope(b, T) = Nearest(b, C)
<1>1. b.n \in Nat /\ Nodes(b) = 1 .. b.n
  BY DEF Body, Nodes
<1>2. ASSUME NEW c \in T PROVE c \in C
  <2>1. c \in Nodes(b) /\ b.kind[c] = "var" /\ Ancestor(b, ScopeOf(b, c), m)
    BY DEF InScope
  <2>2. Ancestor(b, Block(b, c), m)
    <3>1. CASE b.kind[b.par[c]] = "group"
      <4>1. ScopeOf(b, c) \in Nodes(b) /\ Block(b, c) \in Nodes(b) /\ Ancestor(b, Block(b, c), ScopeOf(b, c))
        BY <2>1, <3>1, GroupScope
      <4> QED BY <1>1, <2>1, <4>1, AncestorTransitive
    <3>2. CASE b.kind[b.par[c]] # "group"
      BY <2>1, <3>2, GroupScope
    <3> QED BY <3>1, <3>2
  <2> QED BY <2>2 DEF InScope, Visible
<1> SUFFICES ASSUME C # {} PROVE T # {} /\ NearestScope(b, T) = Nearest(b, C)
  BY <1>2
<1> PICK d : d = Nearest(b, C)
  OBVIOUS
<1>3. \A c \in C : /\ c \in Nodes(b) /\ b.kind[c] = "var" /\ c <= m /\ Reached(b, c)
                   /\ Ancestor(b, Block(b, c), m) /\ b.name[c] = x
  BY DEF Visible
<1>4. Best(b, C, d)
  BY <1>3, GroupScope, NearestExists
<1>5. d \in C /\ d \in Nodes(b) /\ b.kind[d] = "var"
  BY <1>3, <1>4 DEF Best
<1>6. Ancestor(b, ScopeOf(b, d), m)
  BY <1>3, <1>5, GroupScope
<1>7. d \in T
  BY <1>3, <1>5, <1>6 DEF InScope
<1>8. ASSUME NEW c \in T
      PROVE  ScopeOf(b, c) < ScopeOf(b, d) \/ (ScopeOf(b, c) = ScopeOf(b, d) /\ c <= d)
  <2> PICK g : g = b.par[c]
    OBVIOUS
  <2>1. /\ c \in Nodes(b) /\ b.kind[c] = "var" /\ c <= m /\ Ancestor(b, ScopeOf(b, c), m)
        /\ Block(b, c) < Block(b, d) \/ (Block(b, c) = Block(b, d) /\ c <= d)
    BY <1>2, <1>4 DEF InScope, Best
  <2>2. /\ {c, d, m, Block(b, c), Block(b, d), ScopeOf(b, c), ScopeOf(b, d), g} \subseteq 1 .. b.n
        /\ Block(b, d) <= ScopeOf(b, d)
    <3>1. Nodes(b) = 1 .. b.n /\ b.n \in Nat
      BY DEF Body, Nodes
    <3>2. Block(b, c) \in Nodes(b) /\ ScopeOf(b, c) \in Nodes(b) /\ g \in Nodes(b)
      BY <2>1, GroupScope
    <3>3. Block(b, d) \in Nodes(b) /\ ScopeOf(b, d) \in Nodes(b)
      BY <1>5, GroupScope
    <3>4. Block(b, d) <= ScopeOf(b, d)
      <4>1. CASE b.kind[b.par[d]] = "group"
        <5>1. ScopeOf(b, d) = b.par[d] /\ Block(b, d) < b.par[d]
          BY <1>5, <4>1, GroupScope
        <5> QED BY <3>1, <3>3, <5>1
      <4>2. CASE b.kind[b.par[d]] # "group"
        <5>1. ScopeOf(b, d) = Block(b, d)
          BY <1>5, <4>2, GroupScope
        <5> QED BY <3>1, <3>3, <5>1
      <4> QED BY <4>1, <4>2
    <3> QED BY <1>5, <2>1, <3>1, <3>2, <3>3, <3>4
  <2>3. CASE b.kind[g] # "group"
    <3>1. ScopeOf(b, c) = Block(b, c)
      BY <2>1, <2>3, GroupScope
    <3> QED BY <2>1, <2>2, <3>1
  <2>4. CASE b.kind[g] = "group"
    <3>1. ScopeOf(b, c) = g /\ g < c
      BY <2>1, <2>4, GroupScope
    <3>2. Ancestor(b, g, m) /\ m # g
      BY <2>1, <2>2, <3>1
    <3>3. b.par[m] = g
      BY <1>1, <2>2, <2>4, <3>2, BelowGroup
    <3>4. m > 1 /\ b.kind[m] = "var"
      <4>1. m > g /\ g >= 1
        BY <2>1, <2>2, <3>1
      <4> QED BY <2>2, <2>4, <3>3, <4>1 DEF Body
    <3>5. Block(b, c) = Block(b, d) /\ c <= d
      <4>1. Block(b, d) # m
        BY <1>5, <3>4, GroupScope DEF Blocks
      <4>2. Ancestor(b, Block(b, d), g)
        <5>1. Ancestor(b, Block(b, d), m) /\ Block(b, d) \in Nodes(b)
          BY <1>3, <1>5, GroupScope
        <5> QED BY <3>3, <3>4, <4>1, <5>1, OfParent
      <4>3. Ancestor(b, g, c) /\ Ancestor(b, Block(b, d), c)
        <5>1. Ancestor(b, g, c)
          BY <2>1, <3>1, GroupScope
        <5> QED BY <1>1, <2>2, <4>2, <5>1, AncestorTransitive
      <4>4. Block(b, d) # c
        <5>1. Block(b, d) <= g
          BY <2>2, <4>2 DEF Ancestor
        <5> QED BY <2>2, <3>1, <5>1
      <4>5. b.kind[Block(b, d)] \in Blocks
        BY <1>5, GroupScope
      <4>6. Block(b, d) <= Block(b, c)
        BY <1>1, <2>1, <2>2, <4>3, <4>4, <4>5, GroupScope, BlockOfC
      <4> QED BY <2>1, <2>2, <4>6
    <3>6. d \in g .. m /\ d # g
      BY <1>3, <1>5, <2>2, <3>1, <3>5
    <3>7. Ancestor(b, g, d)
      <4>1. m \in Int /\ g \in Nodes(b) /\ d \in g .. m
        BY <1>1, <2>2, <3>6
      <4>2. Ancestor(b, g, m)
        BY <3>2
      <4> QED BY ONLY Body(b), <4>1, <4>2, Between
    <3>8. b.par[d] = g
      BY <1>1, <2>2, <2>4, <3>6, <3>7, BelowGroup
    <3>9. ScopeOf(b, d) = g
      BY <1>5, <2>4, <3>8, GroupScope
    <3> QED BY <2>2, <3>1, <3>5, <3>9
  <2> QED BY <2>3, <2>4
<1>9. T \in SUBSET Nat /\ \A c \in T : ScopeOf(b, c) \in Nat
  <2>1. \A c \in T : c \in Nodes(b) /\ b.kind[c] = "var"
    BY DEF InScope
  <2> QED BY <1>1, <2>1, GroupScope
<1> QED BY <1>7, <1>8, <1>9, NearestIs

LEMMA DenotesTheMeant ==
    ASSUME prog \in Programs, NEW i \in Functions, NEW m \in Nodes(prog[i].body), NEW x,
           ~LostAt(i, m, x)
    PROVE  Denotes(i, m, x) = Refers(i, m, x)
<1> PICK b : b = prog[i].body
  OBVIOUS
<1> PICK C : C = Visible(b, m, x)
  OBVIOUS
<1> PICK T : T = InScope(b, m, x)
  OBVIOUS
<1>1. Body(b) /\ m \in Nodes(b)
  BY ProgramFacts DEF Functions
<1>2. ASSUME C # {}
      PROVE  /\ Refers(i, m, x) = <<i, Nearest(b, C), 0>>
             /\ LET d == Nearest(b, C)
                IN b.kind[b.par[d]] = "group" => Ancestor(b, b.par[d], m)
  <2> PICK d : d = Nearest(b, C)
    OBVIOUS
  <2>1. \A c \in C : c \in Nodes(b) /\ b.kind[c] = "var"
    BY DEF Visible
  <2>2. Best(b, C, d)
    BY <1>1, <1>2, <2>1, GroupScope, NearestExists
  <2>3. d > 1
    BY <1>1, <2>1, <2>2, GroupScope DEF Best
  <2>4. Refers(i, m, x) = <<i, d, 0>>
    BY <1>2 DEF Refers
  <2>5. Refers(i, m, x)[2] = d
    BY <2>4
  <2> QED BY <2>3, <2>4, <2>5 DEF LostAt
<1>3. /\ C = {} => T = {}
      /\ C # {} => T # {} /\ NearestScope(b, T) = Nearest(b, C)
  BY <1>1, <1>2, SameVisible
<1>4. CASE C # {}
  BY <1>2, <1>3, <1>4 DEF Denotes
<1>5. CASE C = {}
  BY <1>3, <1>5 DEF Denotes, Refers
<1> QED BY <1>4, <1>5

LEMMA LostIsMuddled ==
    ASSUME prog \in Programs, NEW i \in Functions, NEW u \in Uses(i)
    PROVE  Lost(u) => Muddled(u)
<1> PICK b : b = prog[i].body
  OBVIOUS
<1>0. Body(b)
  BY ProgramFacts DEF Functions
<1>1. PICK m \in Nodes(b) : \E p \in DOMAIN b.exprs[m] :
         \/ \E k \in DOMAIN b.exprs[m][p].args : IsName(b.exprs[m][p].args[k]) /\ u = <<i, m, p, k>>
         \/ IsCall(b.exprs[m][p]) /\ u = <<i, m, p, 0>>
  BY UsesAre
<1>2. PICK p \in DOMAIN b.exprs[m] :
         \/ \E k \in DOMAIN b.exprs[m][p].args : IsName(b.exprs[m][p].args[k]) /\ u = <<i, m, p, k>>
         \/ IsCall(b.exprs[m][p]) /\ u = <<i, m, p, 0>>
  BY <1>1
<1> PICK e : e = b.exprs[m][p]
  OBVIOUS
<1>3. CASE IsCall(e) /\ u = <<i, m, p, 0>>
  <2>1. u[1] = i /\ u[2] = m /\ u[3] = p /\ u[4] = 0
    BY <1>3
  <2>2. NameOf(u) = e.callee
    BY <2>1 DEF NameOf
  <2> QED BY <1>3, <2>1, <2>2 DEF Lost, Muddled
<1>4. CASE \E k \in DOMAIN e.args : IsName(e.args[k]) /\ u = <<i, m, p, k>>
  <2>1. PICK k \in DOMAIN e.args : IsName(e.args[k]) /\ u = <<i, m, p, k>>
    BY <1>4
  <2>2. u[1] = i /\ u[2] = m /\ u[3] = p /\ u[4] = k
    BY <2>1
  <2>3. k # 0
    <3>1. IsList(e.args)
      BY <1>0 DEF Body
    <3> QED BY <2>1, <3>1, ListFacts
  <2>4. NameOf(u) = e.args[k]
    BY <2>2, <2>3 DEF NameOf
  <2> QED BY <2>1, <2>2, <2>4 DEF Lost, Muddled
<1> QED BY <1>2, <1>3, <1>4

(* An expression that reads no lost name means in C what the analysis      *)
(* takes it for, and is analysed as far as in C.                           *)
LEMMA UnmuddledIsSame ==
    ASSUME prog \in Programs, NEW i \in Functions, NEW u \in Uses(i), ~Muddled(u)
    PROVE  SiteOf(u) = Site(u) /\ (UnseenBy(u) <=> Unseen(u))
<1>1. u[1] = i /\ u[2] \in Nodes(prog[i].body)
  BY UseParts
<1>2. ASSUME NEW x, ~LostAt(u[1], u[2], x) PROVE Denotes(u[1], u[2], x) = Refers(u[1], u[2], x)
  BY <1>1, <1>2, DenotesTheMeant
<1>3. SiteOf(u) = Site(u)
  <2>1. ~LostAt(u[1], u[2], NameOf(u))
    BY LostIsMuddled DEF Lost
  <2> QED BY <1>2, <2>1 DEF SiteOf, Site
<1>4. CutBy(u) <=> Cut(u)
  <2> PICK e : e = prog[u[1]].body.exprs[u[2]][u[3]]
    OBVIOUS
  <2>1. /\ IsCall(e) => ~LostAt(u[1], u[2], e.callee)
        /\ \A k \in DOMAIN e.args : IsName(e.args[k]) => ~LostAt(u[1], u[2], e.args[k])
    BY DEF Muddled
  <2> DEFINE kindBy(k) == IF IsName(e.args[k]) THEN KindAt(Denotes(u[1], u[2], e.args[k]))
                          ELSE LiteralType(e.args[k]).kind
             kind(k) == IF IsName(e.args[k]) THEN KindAt(Refers(u[1], u[2], e.args[k]))
                        ELSE LiteralType(e.args[k]).kind
             ksBy == ParamKinds(Denotes(u[1], u[2], e.callee))
             ks == ParamKinds(Refers(u[1], u[2], e.callee))
  <2>2. CutBy(u) <=> IsCall(e) /\ \E k \in DOMAIN e.args : k < u[4] /\ k <= Len(ksBy) /\ kindBy(k) # ksBy[k]
    BY DEF CutBy
  <2>3. Cut(u) <=> IsCall(e) /\ \E k \in DOMAIN e.args : k < u[4] /\ k <= Len(ks) /\ kind(k) # ks[k]
    BY DEF Cut
  <2>4. IsCall(e) => ksBy = ks
    BY <1>2, <2>1
  <2>5. ASSUME NEW k \in DOMAIN e.args PROVE kindBy(k) = kind(k)
    <3>1. CASE IsName(e.args[k])
      <4>1. Denotes(u[1], u[2], e.args[k]) = Refers(u[1], u[2], e.args[k])
        BY <1>2, <2>1, <3>1
      <4> QED BY <3>1, <4>1
    <3>2. CASE ~IsName(e.args[k])
      BY <3>2
    <3> QED BY <3>1, <3>2
  <2> HIDE DEF kindBy, kind, ksBy, ks
  <2> QED BY <2>2, <2>3, <2>4, <2>5
<1> QED BY <1>1, <1>3, <1>4 DEF UnseenBy, Unseen

-----------------------------------------------------------------------------
(* The theorems.                                                           *)

(* Every variable has a value of its type: the item and the node looked at *)
(* are in the program, what was declared and what was resolved is recorded *)
(* with a number, and no scope is left when, and only when, the analysis   *)
(* is done.                                                                *)
THEOREM AnalysisTypes == Spec => []TypeOK
<1>1. ASSUME Shape, Numbering, Resolved PROVE TypeOK
  <2>1. InBody => item \in Functions /\ at \in 1 .. (body.n + 1)
    BY <1>1 DEF Shape, Functions, It
  <2>2. decls \subseteq DeclType
    BY <1>1 DEF Numbering, Distinct
  <2>3. refs \subseteq RefType
    BY <1>1 DEF Resolved, RefRight
  <2>4. (status = "done") <=> (scopes = <<>>)
    <3> PICK ss : ss = scopes
      OBVIOUS
    <3> PICK n : n = Len(ss)
      OBVIOUS
    <3>1. ss \in Chains /\ (status = "done" => n = 0) /\ (status # "done" => n = 1 \/ n >= 2)
      BY <1>1 DEF Shape, InBody
    <3>2. n = 0 <=> ss = <<>>
      BY <3>1 DEF Chains
    <3>3. n = 1 \/ n >= 2 => n # 0
      OBVIOUS
    <3> QED BY <3>1, <3>2, <3>3
  <2> QED BY <1>1, <2>1, <2>2, <2>3, <2>4 DEF Shape, TypeOK, InBody
<1> QED BY <1>1, ScopesKeepShape, NumbersStay, UsesAreResolved, PTL

(* An identifier is resolved to the declaration that C's scope rules give  *)
(* it, and to its number: what a scope holds is what was declared in its   *)
(* block before the statement at hand, in the order of the source, so that *)
(* the walk from S->scope outwards, the newest symbol first, finds the     *)
(* latest declaration of the innermost block that has one.  Except a name  *)
(* declared with others, int a, b;, read after the declaration: its scope, *)
(* which C does not know, is left by then.                                 *)
THEOREM IdentifiersMeanTheInnermost == Spec => []ResolvesInnermost
<1>1. ASSUME Shape, Numbering, Resolved PROVE ResolvesInnermost
  <2> SUFFICES ASSUME NEW r \in refs, r.use[2] # 0
               PROVE  /\ ~Lost(r.use) => r.site = Site(r.use)
                      /\ r.id = SymId(r.site)
    BY DEF ResolvesInnermost
  <2>1. RefRight(r, decls)
    BY <1>1 DEF Resolved
  <2>2. ASSUME ~Lost(r.use) PROVE r.site = Site(r.use)
    <3> PICK i : i = r.use[1]
      OBVIOUS
    <3>1. i \in Functions /\ r.use \in Uses(i) /\ r.site = SiteOf(r.use)
      BY <2>1 DEF RefRight
    <3>2. r.use[2] \in Nodes(prog[i].body) /\ prog \in Programs
      BY <1>1, <3>1, UseParts DEF Shape
    <3>3. ~LostAt(i, r.use[2], NameOf(r.use))
      BY <2>2 DEF Lost
    <3>4. Denotes(i, r.use[2], NameOf(r.use)) = Refers(i, r.use[2], NameOf(r.use))
      BY <3>1, <3>2, <3>3, DenotesTheMeant
    <3> QED BY <3>1, <3>4 DEF SiteOf, Site
  <2> DEFINE d == [site |-> r.site, id |-> r.id, global |-> r.global]
  <2>3. d \in decls /\ d.site = r.site /\ d.id = r.id
    BY <2>1 DEF RefRight
  <2> HIDE DEF d
  <2>4. r.id = SymId(r.site)
    BY <1>1, <2>3, NumberOf
  <2> QED BY <2>2, <2>4
<1> QED BY <1>1, ScopesKeepShape, NumbersStay, UsesAreResolved, PTL

(* When the analysis is done, the identifiers resolved are all but those   *)
(* in skipped statements and after a converted argument; when it exits, it *)
(* is for a use of a name declared nowhere it can be seen, or a call of    *)
(* what is no function.  Except in an expression that reads a name         *)
(* declared with others, int a, b;, after the declaration: the analysis    *)
(* may exit for it, though C sees the name.                                *)
THEOREM RejectionsAreRight == Spec => []RejectsRightly
<1>1. ASSUME Shape, Resolved PROVE RejectsRightly
  <2>0. prog \in Programs
    BY <1>1 DEF Shape
  <2>1. ASSUME status = "done", NEW i \in Functions, NEW u \in Uses(i), ~Muddled(u)
        PROVE  (\E r \in refs : r.use = u) <=> ~Unseen(u)
    <3>1. u[2] \in Nodes(prog[i].body) /\ i \in DOMAIN prog
      BY UseParts DEF Functions
    <3>2. u[2] # 0
      BY <1>1, <3>1, ProgramFacts DEF Shape, Functions, Nodes, Body
    <3>3. ASSUME NEW r \in refs, r.use = u PROVE ~UnseenBy(u)
      <4>1. RefRight(r, decls)
        BY <1>1 DEF Resolved
      <4> QED BY <3>2, <3>3, <4>1 DEF RefRight
    <3>4. ASSUME ~UnseenBy(u) PROVE \E r \in refs : r.use = u
      BY <1>1, <2>1, <3>4 DEF Resolved, Passed
    <3>5. UnseenBy(u) <=> Unseen(u)
      BY <2>0, <2>1, UnmuddledIsSame
    <3> QED BY <3>3, <3>4, <3>5
  <2>2. ASSUME status = "exit"
        PROVE  \E u \in Uses(item) :
                 /\ u[2] = at
                 /\ Muddled(u) \/ (~Unseen(u) /\ (Site(u) = Nowhere \/ (u[4] = 0 /\ KindAt(Site(u)) # "func")))
    <3>1. PICK u \in Uses(item) : Wrong(u)
      BY <1>1, <2>2 DEF Resolved
    <3>2. item \in Functions
      BY <1>1, <2>2 DEF Shape, InBody, Functions, It
    <3>3. ~Muddled(u) => SiteOf(u) = Site(u) /\ (UnseenBy(u) <=> Unseen(u))
      BY <2>0, <3>2, UnmuddledIsSame
    <3> QED BY <3>1, <3>3 DEF Wrong
  <2> QED BY <2>1, <2>2 DEF RejectsRightly
<1> QED BY <1>1, ScopesKeepShape, UsesAreResolved, PTL

-----------------------------------------------------------------------------
(* The names printed.                                                      *)

(* What a function declares, and when it has: its parameters that have     *)
(* names when it is entered, the others when their statement is passed.    *)
Expected(i) ==
    {<<i, 1, k>> : k \in HasName(prog[i].params)}
      \cup {<<i, m, 0>> : m \in {m \in Nodes(prog[i].body) :
                prog[i].body.kind[m] = "var" /\ Reached(prog[i].body, m)}}

Due(s) ==
    \/ status = "done"
    \/ status = "pass2" /\ s[1] < item
    \/ InBody /\ (s[1] < item \/ (s[1] = item /\ (s[2] = 1 \/ s[2] < at)))

AllDeclared ==
    \A i \in Functions : \A s \in Expected(i) : Due(s) => \E d \in decls : d.site = s

LEMMA ExpectedParts ==
    ASSUME prog \in Programs, NEW i \in Functions, NEW s \in Expected(i)
    PROVE  /\ i \in Nat /\ i > 0 /\ i \in DOMAIN prog /\ s[1] = i
           /\ \/ \E k \in HasName(prog[i].params) : s = <<i, 1, k>> /\ s[2] = 1
              \/ /\ s = <<i, s[2], 0>> /\ s[2] \in Nodes(prog[i].body) /\ s[2] > 1 /\ s[2] \in Nat
                 /\ prog[i].body.kind[s[2]] = "var" /\ Reached(prog[i].body, s[2])
<1> PICK b : b = prog[i].body
  OBVIOUS
<1>1. /\ i \in DOMAIN prog /\ i \in Nat /\ i > 0 /\ Body(b)
  BY ProgramFacts DEF Functions
<1>2. CASE \E k \in HasName(prog[i].params) : s = <<i, 1, k>>
  BY <1>1, <1>2
<1>3. CASE \E m \in Nodes(b) : s = <<i, m, 0>> /\ b.kind[m] = "var" /\ Reached(b, m)
  <2>1. PICK m \in Nodes(b) : s = <<i, m, 0>> /\ b.kind[m] = "var" /\ Reached(b, m)
    BY <1>3
  <2>2. m \in Nat /\ m > 1
    BY <1>1, <2>1 DEF Body, Nodes
  <2> QED BY <1>1, <2>1, <2>2
<1> QED BY <1>2, <1>3 DEF Expected

LEMMA DeclaredGrows ==
    ASSUME AllDeclared, UNCHANGED prog, decls \subseteq decls',
           \A i \in Functions : \A s \in Expected(i) :
              Due(s)' => Due(s) \/ \E d \in decls' : d.site = s
    PROVE  AllDeclared'
<1>1. Functions' = Functions
  BY DEF Functions
<1>2. \A i : Expected(i)' = Expected(i)
  BY DEF Expected
<1>3. ASSUME NEW i \in Functions, NEW s \in Expected(i), Due(s)'
      PROVE  \E d \in decls' : d.site = s
  BY <1>3 DEF AllDeclared
<1> QED BY <1>1, <1>2, <1>3 DEF AllDeclared

LEMMA NextDeclares ==
    ASSUME Shape, AllDeclared, [Next]_vars
    PROVE  AllDeclared'
<1>1. ASSUME NEW kinds, Visit(kinds)
      PROVE  /\ status = "body" /\ InBody /\ at \in Nodes(body) /\ body.kind[at] \in kinds
             /\ at \in Nat /\ Nodes(body) = 1 .. body.n /\ body.n \in Nat /\ Body(body)
             /\ body = prog[item].body
  BY <1>1, VisitFacts, BodyFacts DEF body, It
<1>2. prog \in Programs /\ item \in Nat /\ Len(prog) \in Nat /\ DOMAIN prog = 1 .. Len(prog)
  BY ProgramFacts DEF Shape
<1>3. CASE PassOne \/ BeginPassTwo
  <2>1. /\ UNCHANGED prog /\ decls \subseteq decls'
        /\ (status' = "pass1" \/ (status' = "pass2" /\ item' = 1))
    BY <1>3 DEF PassOne, BeginPassTwo
  <2>2. ASSUME NEW i \in Functions, NEW s \in Expected(i), Due(s)' PROVE FALSE
    <3>1. s[1] \in Nat /\ s[1] > 0
      BY <1>2, ExpectedParts
    <3> QED BY <2>1, <2>2, <3>1 DEF Due, InBody
  <2> QED BY <2>1, <2>2, DeclaredGrows
<1>4. CASE PassTwoDecl
  <2>1. /\ status = "pass2" /\ It.kind = "decl" /\ item' = item + 1 /\ UNCHANGED <<status, prog, decls>>
    BY <1>4 DEF PassTwoDecl
  <2>2. ASSUME NEW i \in Functions, NEW s \in Expected(i), Due(s)' PROVE Due(s)
    <3>1. s[1] = i /\ i \in Nat /\ i # item
      BY <1>2, <2>1, ExpectedParts DEF Functions, It
    <3>2. s[1] < item + 1
      BY <2>1, <2>2 DEF Due, InBody
    <3> QED BY <1>2, <2>1, <3>1, <3>2 DEF Due
  <2> QED BY <2>1, <2>2, DeclaredGrows
<1>5. CASE EnterFunction
  <2>1. /\ status = "pass2" /\ status' = "body" /\ at' = 1 /\ UNCHANGED <<prog, item>>
    BY <1>5 DEF EnterFunction
  <2>2. decls' = decls \cup Records(It.params, 0, 1)
    BY <1>5, EnterFunctionStep
  <2>3. ASSUME NEW i \in Functions, NEW s \in Expected(i), Due(s)', ~Due(s)
        PROVE  \E d \in decls' : d.site = s
    <3>1. i = item /\ (s[2] = 1 \/ s[2] < 1)
      BY <1>2, <2>1, <2>3, ExpectedParts DEF Due, InBody
    <3>2. PICK k \in HasName(It.params) : s = <<item, 1, k>>
      BY <1>2, <3>1, ExpectedParts DEF It
    <3> DEFINE d == [site |-> <<item, 1, k>>, id |-> 0 + Rank(HasName(It.params), k), global |-> 1 = 0]
    <3>3. d \in Records(It.params, 0, 1)
      BY <3>2 DEF Records
    <3>4. d.site = s
      BY <3>2
    <3> HIDE DEF d
    <3> QED BY <2>2, <3>3, <3>4
  <2> QED BY <2>1, <2>2, <2>3, DeclaredGrows
<1>6. CASE VarDecl
  <2>1. /\ Visit({"var"}) /\ at' = at + 1 /\ UNCHANGED <<status, prog, item>>
        /\ decls' = decls \cup {[site |-> <<item, at, 0>>, id |-> local_counter, global |-> FALSE]}
    BY <1>6 DEF VarDecl
  <2>2. ASSUME NEW i \in Functions, NEW s \in Expected(i), Due(s)', ~Due(s)
        PROVE  \E d \in decls' : d.site = s
    <3>1. s[1] = i /\ s[1] = item /\ s[2] # 1 /\ s[2] < at + 1 /\ ~(s[2] < at)
      BY <1>1, <1>2, <2>1, <2>2, ExpectedParts DEF Due, InBody
    <3>2. s = <<i, s[2], 0>> /\ s[2] \in Nat
      BY <1>2, <3>1, ExpectedParts
    <3>3. s = <<item, at, 0>>
      BY <1>1, <2>1, <3>1, <3>2
    <3> DEFINE d == [site |-> <<item, at, 0>>, id |-> local_counter, global |-> FALSE]
    <3>4. d \in decls'
      BY <2>1
    <3>5. d.site = s
      BY <3>3
    <3> HIDE DEF d
    <3> QED BY <3>4, <3>5
  <2> QED BY <2>1, <2>2, DeclaredGrows
<1>7. ASSUME status = "body", UNCHANGED <<status, prog, item, decls>>, NEW a \in Nat, at' = a, at \in Nat,
             InBody, body = prog[item].body,
             \A m \in Nodes(body) : at <= m /\ m < a => body.kind[m] # "var" \/ ~Reached(body, m)
      PROVE  AllDeclared'
  <2>1. ASSUME NEW i \in Functions, NEW s \in Expected(i), Due(s)', ~Due(s) PROVE FALSE
    <3>1. s[1] = i /\ s[1] = item /\ s[2] # 1 /\ s[2] < a /\ ~(s[2] < at)
      BY <1>2, <1>7, <2>1, ExpectedParts DEF Due, InBody
    <3>2. /\ s[2] \in Nodes(body) /\ s[2] \in Nat /\ body.kind[s[2]] = "var" /\ Reached(body, s[2])
      BY <1>2, <1>7, <3>1, ExpectedParts
    <3>3. at <= s[2]
      BY <1>7, <3>1, <3>2
    <3> QED BY <1>7, <3>1, <3>2, <3>3
  <2> QED BY <1>7, <2>1, DeclaredGrows
<1>8. CASE Compound \/ For \/ Expressions
  <2>1. PICK kinds : /\ kinds = {"compound", "group"} \/ kinds = {"for"}
                        \/ kinds = {"expr", "return", "if", "while", "do"}
                     /\ Visit(kinds) /\ at' = at + 1 /\ UNCHANGED <<status, prog, item, decls>>
    BY <1>8 DEF Compound, For, Expressions
  <2>2. body.kind[at] # "var"
    BY <1>1, <2>1
  <2>3. \A m \in Nodes(body) : at <= m /\ m < at + 1 => m = at
    BY <1>1, <2>1
  <2>4. at + 1 \in Nat
    BY <1>1, <2>1
  <2> QED BY <1>1, <1>7, <2>1, <2>2, <2>3, <2>4
<1>9. CASE Skip
  <2>1. Visit(Skipped) /\ at' = After(at) /\ UNCHANGED <<status, prog, item, decls>>
    BY <1>9 DEF Skip
  <2>2. /\ status = "body" /\ InBody /\ at \in Nodes(body) /\ at \in Nat /\ body.kind[at] \in Skipped
        /\ Body(body) /\ Nodes(body) = 1 .. body.n /\ body.n \in Nat /\ body = prog[item].body
    BY <1>1, <2>1
  <2> PICK a : a = After(at)
    OBVIOUS
  <2>3. /\ a \in (at + 1) .. (body.n + 1)
        /\ \A j \in (at + 1) .. (a - 1) : Ancestor(body, at, j)
    BY <2>2, AfterIsNext
  <2>4. ASSUME NEW d \in Nodes(body), at <= d, d < a PROVE ~Reached(body, d)
    <3>1. d = at \/ d \in (at + 1) .. (a - 1)
      BY <2>2, <2>3, <2>4
    <3>2. Ancestor(body, at, d)
      BY <2>2, <2>3, <3>1, OwnAncestor
    <3> QED BY <2>2, <3>2 DEF Reached
  <2>5. a \in Nat /\ at' = a
    BY <2>1, <2>2, <2>3
  <2> QED BY <1>7, <2>1, <2>2, <2>4, <2>5
<1>10. CASE LeaveFunction
  <2>1. /\ status = "body" /\ at > body.n /\ status' = "pass2" /\ item' = item + 1
        /\ UNCHANGED <<prog, decls>>
    BY <1>10 DEF LeaveFunction
  <2>2. InBody /\ at \in Nat /\ Nodes(body) = 1 .. body.n /\ body.n \in Nat /\ body = prog[item].body
    BY <2>1, BodyFacts DEF InBody, body, It
  <2>3. ASSUME NEW i \in Functions, NEW s \in Expected(i), Due(s)' PROVE Due(s)
    <3>1. s[1] < item + 1 /\ s[1] = i /\ i \in Nat
      BY <1>2, <2>1, <2>3, ExpectedParts DEF Due, InBody
    <3>2. CASE s[1] = item
      <4>1. s[2] = 1 \/ s[2] \in Nodes(body)
        BY <1>2, <2>2, <3>1, <3>2, ExpectedParts
      <4>2. s[2] = 1 \/ s[2] < at
        BY <2>1, <2>2, <4>1
      <4> QED BY <2>2, <3>2, <4>2 DEF Due
    <3>3. CASE s[1] < item
      BY <2>2, <3>3 DEF Due
    <3> QED BY <1>2, <3>1, <3>2, <3>3
  <2> QED BY <2>1, <2>3, DeclaredGrows
<1>11. CASE Finish
  <2>1. status = "pass2" /\ item > Len(prog) /\ UNCHANGED <<prog, decls>>
    BY <1>11 DEF Finish
  <2>2. ASSUME NEW i \in Functions, NEW s \in Expected(i) PROVE Due(s)
    <3>1. s[1] < item
      BY <1>2, <2>1, ExpectedParts
    <3> QED BY <2>1, <3>1 DEF Due
  <2> QED BY <2>1, <2>2, DeclaredGrows
<1>12. CASE LeaveScope \/ Reject \/ UNCHANGED vars
  <2>1. UNCHANGED <<prog, item, at, decls>> /\ (UNCHANGED status \/ (status = "body" /\ status' = "exit"))
    BY <1>12 DEF LeaveScope, Reject, Visit, vars
  <2>2. \A s : Due(s)' => Due(s)
    BY <2>1 DEF Due, InBody
  <2> QED BY <2>1, <2>2, DeclaredGrows
<1> QED BY <1>3, <1>4, <1>5, <1>6, <1>8, <1>9, <1>10, <1>11, <1>12 DEF Next, Ended

LEMMA AllIsDeclared == Spec => []AllDeclared
<1>1. Init => AllDeclared
  BY DEF Init, AllDeclared, Due, InBody
<1>2. Shape /\ AllDeclared /\ [Next]_vars => AllDeclared'
  BY NextDeclares
<1> QED BY <1>1, <1>2, ScopesKeepShape, PTL DEF Spec

(* What gets stack space is among what is declared.                        *)
LEMMA AllocatedExpected ==
    ASSUME prog \in Programs, NEW i \in Functions, NEW s \in Allocated(i),
           \A k \in DOMAIN prog[i].params : prog[i].params[k].name # NotNamed
    PROVE  s \in Expected(i) /\ s[1] = i /\ s[2] # 0
<1> PICK b : b = prog[i].body
  OBVIOUS
<1>1. Body(b) /\ Nodes(b) = 1 .. b.n /\ b.n \in Nat /\ b.n > 0
  BY ProgramFacts DEF Functions, Nodes, Body
<1>2. CASE \E k \in DOMAIN prog[i].params : s = <<i, 1, k>>
  <2>1. PICK k \in DOMAIN prog[i].params : s = <<i, 1, k>>
    BY <1>2
  <2>2. k \in HasName(prog[i].params)
    BY DEF HasName
  <2>3. s[1] = i /\ s[2] = 1
    BY <2>1
  <2> QED BY <2>1, <2>2, <2>3 DEF Expected
<1>3. CASE \E m \in Nodes(b) : s = <<i, m, 0>> /\ b.kind[m] = "var" /\ b.par[m] = 1
  <2>1. PICK m \in Nodes(b) : s = <<i, m, 0>> /\ b.kind[m] = "var" /\ b.par[m] = 1
    BY <1>3
  <2>2. Reached(b, m)
    <3> SUFFICES ASSUME NEW k \in Nodes(b), b.kind[k] \in Skipped, Ancestor(b, k, m) PROVE FALSE
      BY DEF Reached
    <3>1. k # m
      BY <2>1 DEF Skipped
    <3>2. Ancestor(b, k, 1)
      BY <1>1, <2>1, <3>1, SubtreeIsInterval
    <3>3. k = 1
      BY <1>1, <3>2 DEF Ancestor
    <3>4. b.kind[1] = "compound"
      BY <1>1 DEF Body
    <3> QED BY <3>3, <3>4 DEF Skipped
  <2>3. s[1] = i /\ s[2] = m /\ m # 0
    BY <1>1, <2>1
  <2> QED BY <2>1, <2>2, <2>3 DEF Expected
<1> QED BY <1>2, <1>3 DEF Allocated

(* No two variables of a function have one number, and what a use in it is *)
(* printed as names the variable it means and the stack space of no other, *)
(* where the code allocates it, has analysed the use, and has not lost a   *)
(* name of the expression with the scope of an int a, b;: the number in    *)
(* its node is that of its declaration, and no other declaration of the    *)
(* function, parameters included, has it.                                  *)
THEOREM NamesAreFaithful == Spec => []NamesFaithful
<1>1. ASSUME Shape, Numbering, Resolved, AllDeclared PROVE NamesFaithful
  <2>0. NumbersDistinct
    BY <1>1 DEF Numbering, Distinct, Together, NumbersDistinct
  <2> SUFFICES ASSUME status = "done", NEW i \in Functions, NEW u \in Uses(i), ~KnownGap(u)
               PROVE  {s \in Allocated(i) : SymId(s) = UseId(u)} = {Site(u)}
    BY <2>0 DEF NamesFaithful
  <2>1. u[1] = i
    BY UseParts
  <2>12. SiteOf(u) = Site(u) /\ (UnseenBy(u) <=> Unseen(u))
    BY <1>1, UnmuddledIsSame DEF KnownGap, Shape
  <2>2. /\ ~UnseenBy(u) /\ SiteOf(u) \in Allocated(i)
        /\ \A k \in DOMAIN prog[i].params : prog[i].params[k].name # NotNamed
    BY <2>1, <2>12 DEF KnownGap
  <2>3. u[2] # 0
    <3>1. u[2] \in Nodes(prog[i].body) /\ i \in DOMAIN prog
      BY UseParts DEF Functions
    <3> QED BY <1>1, <3>1, ProgramFacts DEF Shape, Functions, Nodes, Body
  <2>4. \E r \in refs : r.use = u
    BY <1>1, <2>2 DEF Resolved, Passed
  <2> DEFINE q == CHOOSE r \in refs : r.use = u
  <2>5. q \in refs /\ q.use = u
    BY <2>4
  <2>6. UseId(u) = q.id
    BY <2>4 DEF UseId
  <2> HIDE DEF q
  <2>7. RefRight(q, decls)
    BY <1>1, <2>5 DEF Resolved
  <2> DEFINE d0 == [site |-> q.site, id |-> q.id, global |-> q.global]
  <2>8. d0 \in decls /\ d0.site = q.site /\ d0.id = q.id
    BY <2>7 DEF RefRight
  <2> HIDE DEF d0
  <2>9. q.site = SiteOf(u)
    BY <2>3, <2>5, <2>7 DEF RefRight
  <2>10. SymId(SiteOf(u)) = UseId(u)
    BY <1>1, <2>6, <2>8, <2>9, NumberOf
  <2>11. ASSUME NEW s \in Allocated(i), SymId(s) = UseId(u) PROVE s = SiteOf(u)
    <3>1. s \in Expected(i) /\ s[1] = i /\ s[2] # 0
      BY <1>1, <2>2, AllocatedExpected DEF Shape
    <3>2. SiteOf(u)[1] = i /\ SiteOf(u)[2] # 0
      BY <1>1, <2>2, AllocatedExpected DEF Shape
    <3>3. PICK d \in decls : d.site = s
      BY <1>1, <3>1 DEF AllDeclared, Due
    <3>4. SymId(s) = d.id
      BY <1>1, <3>3, NumberOf
    <3>5. d.global = FALSE /\ d0.global = FALSE
      <4>1. d.global = (d.site[2] = 0) /\ d0.global = (d0.site[2] = 0)
        BY <1>1, <2>8, <3>3 DEF Numbering, Distinct
      <4>2. d.site[2] # 0 /\ d0.site[2] # 0
        BY <2>8, <2>9, <3>1, <3>2, <3>3
      <4> QED BY <4>1, <4>2
    <3>6. Together(d, d0)
      BY <2>8, <2>9, <3>1, <3>2, <3>3, <3>5 DEF Together
    <3> QED BY <1>1, <2>6, <2>8, <2>9, <2>11, <3>3, <3>4, <3>6 DEF Numbering, Distinct
  <2> QED BY <2>2, <2>10, <2>11, <2>12
<1> QED BY <1>1, ScopesKeepShape, NumbersStay, UsesAreResolved, AllIsDeclared, PTL

=============================================================================
