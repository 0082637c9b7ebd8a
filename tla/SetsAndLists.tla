---------------------------- MODULE SetsAndLists ---------------------------
(***************************************************************************)
(* Sets of numbers: their first and last element, the rank of each, and    *)
(* which of them are odd in their run.  Sequences as lists of an element   *)
(* and a list.                                                             *)
(***************************************************************************)
EXTENDS Integers, FiniteSets, Sequences, FiniteSetTheorems, SequenceTheorems,
        WellFoundedInduction, TLAPS

LEMMA HasSmallest ==
    ASSUME NEW T \in SUBSET Nat, T # {}
    PROVE  \E k \in T : \A j \in T : k <= j
<1>1. IsWellFoundedOn(OpToRel(<, Nat), Nat)
  BY NatLessThanWellFounded
<1>2. PICK k \in T : \A j \in T : ~ (<<j, k>> \in OpToRel(<, Nat))
  BY <1>1, WFMin
<1>3. SUFFICES ASSUME NEW j \in T PROVE k <= j
  OBVIOUS
<1>4. j \in Nat /\ k \in Nat
  OBVIOUS
<1>5. <<j, k>> \notin OpToRel(<, Nat)
  BY <1>2
<1>6. (j < k) => <<j, k>> \in OpToRel(<, Nat)
  BY <1>4 DEF OpToRel
<1>7. ~(j < k)
  BY <1>5, <1>6
<1> QED BY <1>4, <1>7

LEMMA HasLargest ==
    ASSUME NEW n \in Nat, NEW S \in SUBSET (0 .. n), S # {}
    PROVE  \E k \in S : \A j \in S : j <= k
<1> DEFINE T == {n - j : j \in S}
<1>1. T \in SUBSET Nat
  OBVIOUS
<1>2. T # {}
  OBVIOUS
<1>3. PICK t \in T : \A j \in T : t <= j
  <2> HIDE DEF T
  <2> QED BY <1>1, <1>2, HasSmallest
<1>4. PICK k \in S : t = n - k
  OBVIOUS
<1>5. ASSUME NEW j \in S PROVE j <= k
  <2>1. n - j \in T
    OBVIOUS
  <2>2. n - k <= n - j
    BY <1>3, <1>4, <2>1
  <2>3. n \in Int /\ k \in Int /\ j \in Int
    OBVIOUS
  <2> HIDE DEF T
  <2> QED BY <2>2, <2>3
<1> QED BY <1>5

(* How many elements of S come before k.                                   *)
Rank(S, k) == Cardinality({j \in S : j < k})

LEMMA RankBelow ==
    ASSUME NEW S, IsFiniteSet(S), S \subseteq Int, NEW k \in S
    PROVE  Rank(S, k) \in 0 .. (Cardinality(S) - 1)
<1> DEFINE B == {j \in S : j < k}
<1>1. B \in SUBSET (S \ {k})
  OBVIOUS
<1>2. IsFiniteSet(S \ {k}) /\ Cardinality(S \ {k}) = Cardinality(S) - 1
  BY FS_RemoveElement
<1>3. IsFiniteSet(B) /\ Cardinality(B) <= Cardinality(S \ {k})
  <2> HIDE DEF B
  <2> QED BY <1>1, <1>2, FS_Subset
<1>4. Cardinality(B) \in Nat /\ Cardinality(S) \in Nat
  BY <1>3, FS_CardinalityType
<1> HIDE DEF B
<1>5. Cardinality(B) \in 0 .. (Cardinality(S) - 1)
  BY <1>2, <1>3, <1>4
<1> QED BY <1>5 DEF Rank, B

LEMMA RankGrows ==
    ASSUME NEW S, IsFiniteSet(S), S \subseteq Int, NEW k \in S, NEW l \in Int, k < l
    PROVE  Rank(S, k) < Rank(S, l)
<1> DEFINE B(i) == {j \in S : j < i}
<1>1. B(k) \in SUBSET (B(l) \ {k}) /\ k \in B(l) /\ B(l) \in SUBSET S
  <2>1. \A j \in S : j < k => j < l /\ j # k
    OBVIOUS
  <2>2. B(k) \subseteq B(l) \ {k}
    BY <2>1
  <2> QED BY <2>2
<1> HIDE DEF B
<1>2. IsFiniteSet(B(l)) /\ IsFiniteSet(B(l) \ {k})
        /\ Cardinality(B(l) \ {k}) = Cardinality(B(l)) - 1
  BY <1>1, FS_Subset, FS_RemoveElement
<1>3. IsFiniteSet(B(k)) /\ Cardinality(B(k)) <= Cardinality(B(l)) - 1
  BY <1>1, <1>2, FS_Subset
<1>4. Cardinality(B(k)) \in Nat /\ Cardinality(B(l)) \in Nat
  BY <1>2, <1>3, FS_CardinalityType
<1>5. Cardinality(B(k)) < Cardinality(B(l))
  BY <1>3, <1>4
<1> QED BY <1>5 DEF Rank, B

(* The elements of S can be counted through.                               *)
LEMMA EveryRank ==
    ASSUME NEW S, IsFiniteSet(S), S \subseteq Int, NEW n \in 0 .. (Cardinality(S) - 1)
    PROVE  \E k \in S : Rank(S, k) = n
<1> DEFINE T == 0 .. (Cardinality(S) - 1)
           f == [k \in S |-> Rank(S, k)]
<1>1. Cardinality(S) \in Nat
  BY FS_CardinalityType
<1>2. IsFiniteSet(T) /\ Cardinality(T) = Cardinality(S)
  BY <1>1, FS_Interval
<1>3. f \in [S -> T]
  BY RankBelow
<1>4. ASSUME NEW k \in S, NEW l \in S, f[k] = f[l] PROVE k = l
  <2>1. k \in Int /\ l \in Int /\ Rank(S, k) = Rank(S, l)
    BY <1>4
  <2>2. Rank(S, k) \in Int /\ Rank(S, l) \in Int
    <3> HIDE DEF f, T
    <3>1. Rank(S, k) \in 0 .. (Cardinality(S) - 1) /\ Rank(S, l) \in 0 .. (Cardinality(S) - 1)
      BY RankBelow
    <3> QED BY <3>1
  <2>3. k < l => Rank(S, k) < Rank(S, l)
    BY <2>1, RankGrows
  <2>4. l < k => Rank(S, l) < Rank(S, k)
    BY <2>1, RankGrows
  <2> QED BY <2>1, <2>2, <2>3, <2>4
<1>5. f \in Injection(S, T)
  BY <1>3, <1>4 DEF Injection, IsInjective
<1>6. f \in Surjection(S, T)
  <2> HIDE DEF f, T
  <2> QED BY <1>2, <1>5, FS_Injection
<1>7. \E k \in S : f[k] = n
  <2>1. n \in T
    OBVIOUS
  <2> HIDE DEF f, T
  <2> QED BY <1>6, <2>1 DEF Surjection
<1> QED BY <1>7

(* The elements of S in their order.                                       *)
Nth(S, n) == CHOOSE k \in S : Rank(S, k) = n - 1

LEMMA NthElement ==
    ASSUME NEW S, IsFiniteSet(S), S \subseteq Int
    PROVE  /\ Cardinality(S) \in Nat
           /\ \A n \in 1 .. Cardinality(S) : Nth(S, n) \in S /\ Rank(S, Nth(S, n)) = n - 1
           /\ \A k \in S : Rank(S, k) + 1 \in 1 .. Cardinality(S) /\ Nth(S, Rank(S, k) + 1) = k
           /\ \A m, n \in 1 .. Cardinality(S) : m < n => Nth(S, m) < Nth(S, n)
<1>1. Cardinality(S) \in Nat
  BY FS_CardinalityType
<1>2. ASSUME NEW n \in 1 .. Cardinality(S)
      PROVE  Nth(S, n) \in S /\ Rank(S, Nth(S, n)) = n - 1
  <2>1. n - 1 \in 0 .. (Cardinality(S) - 1)
    BY <1>1
  <2>2. \E k \in S : Rank(S, k) = n - 1
    BY <2>1, EveryRank
  <2> QED BY <2>2 DEF Nth
<1>3. ASSUME NEW k \in S, NEW l \in S, Rank(S, k) = Rank(S, l) PROVE k = l
  <2>1. k \in Int /\ l \in Int
    OBVIOUS
  <2>2. Rank(S, k) \in 0 .. (Cardinality(S) - 1)
    BY RankBelow
  <2>3. k < l => Rank(S, k) < Rank(S, l)
    BY <2>1, RankGrows
  <2>4. l < k => Rank(S, l) < Rank(S, k)
    BY <2>1, RankGrows
  <2> QED BY <1>1, <1>3, <2>1, <2>2, <2>3, <2>4
<1>4. ASSUME NEW k \in S
      PROVE  Rank(S, k) + 1 \in 1 .. Cardinality(S) /\ Nth(S, Rank(S, k) + 1) = k
  <2>1. Rank(S, k) \in 0 .. (Cardinality(S) - 1)
    BY RankBelow
  <2>2. Rank(S, k) + 1 \in 1 .. Cardinality(S) /\ (Rank(S, k) + 1) - 1 = Rank(S, k)
    BY <1>1, <2>1
  <2>3. /\ Nth(S, Rank(S, k) + 1) \in S
        /\ Rank(S, Nth(S, Rank(S, k) + 1)) = (Rank(S, k) + 1) - 1
    BY <1>2, <2>2
  <2> QED BY <1>3, <2>2, <2>3
<1>5. ASSUME NEW m \in 1 .. Cardinality(S), NEW n \in 1 .. Cardinality(S), m < n
      PROVE  Nth(S, m) < Nth(S, n)
  <2> DEFINE k == Nth(S, m)
             l == Nth(S, n)
  <2>1. k \in S /\ l \in S /\ Rank(S, k) = m - 1 /\ Rank(S, l) = n - 1
    BY <1>2
  <2> HIDE DEF k, l
  <2>2. k \in Int /\ l \in Int
    BY <2>1
  <2>3. l < k => Rank(S, l) < Rank(S, k)
    BY <2>1, <2>2, RankGrows
  <2>4. k # l /\ ~(l < k)
    BY <1>1, <1>5, <2>1, <2>3
  <2>5. k < l
    BY <2>2, <2>4
  <2> QED BY <2>5 DEF k, l
<1> QED BY <1>1, <1>2, <1>4, <1>5

(***************************************************************************)
(* Elements of B that come in runs, taken in pairs: every second one is    *)
(* odd.  The run before k, back to i at most, begins at j.                 *)
(***************************************************************************)
RunFrom(B, i, k, j) ==
    /\ j \in i .. k
    /\ \A l \in j .. (k - 1) : l \in B
    /\ j = i \/ j - 1 \notin B

OddRun(B, i, k) == \E j \in i .. k : RunFrom(B, i, k, j) /\ (k - j) % 2 = 1

LEMMA RunBegins ==
    ASSUME NEW B, NEW i \in Nat, NEW k \in Nat, i <= k
    PROVE  /\ \E j \in i .. k : RunFrom(B, i, k, j)
           /\ \A j, m \in i .. k : RunFrom(B, i, k, j) /\ RunFrom(B, i, k, m) => j = m
<1> DEFINE S == {j \in i .. k : \A l \in j .. (k - 1) : l \in B}
<1>1. S \in SUBSET Nat /\ k \in S
  OBVIOUS
<1>2. PICK j \in S : \A m \in S : j <= m
  BY <1>1, HasSmallest
<1>3. j = i \/ j - 1 \notin B
  <2> SUFFICES ASSUME j # i, j - 1 \in B PROVE FALSE
    OBVIOUS
  <2>1. j - 1 \in i .. k /\ ~(j <= j - 1)
    OBVIOUS
  <2>2. \A l \in (j - 1) .. (k - 1) : l = j - 1 \/ l \in j .. (k - 1)
    OBVIOUS
  <2>3. j - 1 \in S
    BY <2>1, <2>2
  <2> QED BY <1>2, <2>1, <2>3
<1>4. RunFrom(B, i, k, j)
  BY <1>3 DEF RunFrom
<1>5. ASSUME NEW a \in i .. k, NEW b \in i .. k, a < b,
             RunFrom(B, i, k, a), RunFrom(B, i, k, b)
      PROVE  FALSE
  <2>1. b - 1 \in a .. (k - 1) /\ b # i
    BY <1>5
  <2> QED BY <1>5, <2>1 DEF RunFrom
<1>6. \A a, b \in i .. k : a < b \/ b < a \/ a = b
  OBVIOUS
<1> QED BY <1>4, <1>5, <1>6

LEMMA OddFrom ==
    ASSUME NEW B, NEW i \in Nat, NEW k \in Nat, i <= k, NEW j, RunFrom(B, i, k, j)
    PROVE  OddRun(B, i, k) <=> (k - j) % 2 = 1
<1>1. j \in i .. k
  BY DEF RunFrom
<1> QED BY <1>1, RunBegins DEF OddRun

LEMMA OddNext ==
    ASSUME NEW B, NEW i \in Nat, NEW k \in Nat, i <= k
    PROVE  /\ ~OddRun(B, i, i)
           /\ OddRun(B, i, k + 1) <=> k \in B /\ ~OddRun(B, i, k)
<1>1. ~OddRun(B, i, i)
  <2>1. \A j \in i .. i : (i - j) % 2 = 0
    OBVIOUS
  <2> QED BY <2>1 DEF OddRun
<1>2. PICK j \in i .. k : RunFrom(B, i, k, j)
  BY RunBegins
<1>3. OddRun(B, i, k) <=> (k - j) % 2 = 1
  BY <1>2, OddFrom
<1>4. CASE k \in B
  <2>1. \A l \in j .. k : l = k \/ l \in j .. (k - 1)
    OBVIOUS
  <2>2. j \in i .. (k + 1) /\ (k + 1) - 1 = k
    OBVIOUS
  <2>3. RunFrom(B, i, k + 1, j)
    BY <1>2, <1>4, <2>1, <2>2 DEF RunFrom
  <2>4. OddRun(B, i, k + 1) <=> (k + 1 - j) % 2 = 1
    BY <2>3, OddFrom
  <2>5. (k + 1 - j) % 2 = 1 <=> ~((k - j) % 2 = 1)
    OBVIOUS
  <2> QED BY <1>1, <1>3, <1>4, <2>4, <2>5
<1>5. CASE k \notin B
  <2>1. k + 1 \in i .. (k + 1) /\ (k + 1) - 1 = k /\ (k + 1) .. k = {}
    OBVIOUS
  <2>2. RunFrom(B, i, k + 1, k + 1)
    BY <1>5, <2>1 DEF RunFrom
  <2>3. OddRun(B, i, k + 1) <=> ((k + 1) - (k + 1)) % 2 = 1
    BY <2>2, OddFrom
  <2>4. ~(((k + 1) - (k + 1)) % 2 = 1)
    OBVIOUS
  <2> QED BY <1>1, <1>5, <2>3, <2>4
<1> QED BY <1>4, <1>5

(* Only what is before k matters.                                          *)
LEMMA OddSame ==
    ASSUME NEW B, NEW C, NEW i \in Nat, NEW k \in Nat, i <= k,
           \A l \in i .. (k - 1) : l \in B <=> l \in C
    PROVE  OddRun(B, i, k) <=> OddRun(C, i, k)
<1>1. ASSUME NEW j \in i .. k PROVE RunFrom(B, i, k, j) <=> RunFrom(C, i, k, j)
  <2>1. \A l \in j .. (k - 1) : l \in i .. (k - 1)
    OBVIOUS
  <2>2. j # i => j - 1 \in i .. (k - 1)
    OBVIOUS
  <2> QED BY <2>1, <2>2 DEF RunFrom
<1> QED BY <1>1 DEF OddRun

(* It makes no difference to begin one later, after what is not in B.       *)
LEMMA OddLater ==
    ASSUME NEW B, NEW i \in Nat, NEW k \in Nat, i < k, i \notin B
    PROVE  OddRun(B, i, k) <=> OddRun(B, i + 1, k)
<1>1. i + 1 \in Nat /\ i + 1 <= k
  OBVIOUS
<1>2. PICK j \in (i + 1) .. k : RunFrom(B, i + 1, k, j)
  BY <1>1, RunBegins
<1>3. RunFrom(B, i, k, j)
  <2>1. j \in i .. k /\ (j = i + 1 => j - 1 = i)
    OBVIOUS
  <2> QED BY <1>2, <2>1 DEF RunFrom
<1>4. i <= k
  OBVIOUS
<1> QED BY <1>1, <1>2, <1>3, <1>4, OddFrom

(* The function that a definition by recursion over B gives.               *)
Alternates(B, i, a, b, f) == f = [j \in a .. b |-> j > i /\ j - 1 \in B /\ ~f[j - 1]]

LEMMA AlternatesIsOdd ==
    ASSUME NEW B, NEW i \in Nat, NEW a \in Nat, NEW b \in Nat, a <= i
    PROVE  /\ \E f : Alternates(B, i, a, b, f)
           /\ \A f : Alternates(B, i, a, b, f) =>
                 \A j \in a .. b : f[j] <=> j > i /\ OddRun(B, i, j)
<1> DEFINE R(j) == j > i /\ OddRun(B, i, j)
<1>1. ASSUME NEW j \in a .. b
      PROVE  R(j) <=> (j > i /\ j - 1 \in B /\ ~R(j - 1))
  <2>1. CASE ~(j > i)
    BY <2>1
  <2>2. CASE j > i
    <3> PICK k \in Nat : k = j - 1
      BY <2>2
    <3>1. i <= k /\ j = k + 1 /\ (k > i \/ k = i)
      BY <2>2
    <3>2. OddRun(B, i, k + 1) <=> k \in B /\ ~OddRun(B, i, k)
      BY <3>1, OddNext
    <3>3. ~OddRun(B, i, i)
      BY OddNext
    <3> QED BY <2>2, <3>1, <3>2, <3>3
  <2> QED BY <2>1, <2>2
<1>2. \E f : Alternates(B, i, a, b, f)
  <2> DEFINE g == [j \in a .. b |-> R(j)]
  <2>1. ASSUME NEW j \in a .. b
        PROVE  R(j) = (j > i /\ j - 1 \in B /\ ~g[j - 1])
    <3>1. j > i => j - 1 \in a .. b
      OBVIOUS
    <3>2. j > i => (g[j - 1] <=> R(j - 1))
      BY <3>1
    <3> HIDE DEF g
    <3>3. R(j) <=> (j > i /\ j - 1 \in B /\ ~g[j - 1])
      BY <1>1, <3>2
    <3> QED BY <3>3
  <2> HIDE DEF R
  <2>2. g = [j \in a .. b |-> j > i /\ j - 1 \in B /\ ~g[j - 1]]
    BY <2>1
  <2> HIDE DEF g
  <2> QED BY <2>2 DEF Alternates
<1>3. ASSUME NEW f, Alternates(B, i, a, b, f)
      PROVE  \A j \in a .. b : f[j] <=> R(j)
  <2> DEFINE D == {j \in a .. b : ~(f[j] <=> R(j))}
  <2>1. ASSUME NEW j \in a .. b
        PROVE  f[j] <=> (j > i /\ j - 1 \in B /\ ~f[j - 1])
    BY <1>3 DEF Alternates
  <2> SUFFICES ASSUME D # {} PROVE FALSE
    OBVIOUS
  <2>2. D \in SUBSET Nat
    OBVIOUS
  <2>3. PICK d \in D : \A j \in D : d <= j
    BY <2>2, HasSmallest
  <2>4. d \in a .. b /\ ~(f[d] <=> R(d))
    OBVIOUS
  <2>5. CASE d > i
    <3>1. d - 1 \in a .. b /\ ~(d <= d - 1)
      BY <2>4, <2>5
    <3>2. d - 1 \notin D
      BY <2>3, <3>1
    <3>3. f[d - 1] <=> R(d - 1)
      BY <3>1, <3>2
    <3> HIDE DEF R, D
    <3> QED BY <1>1, <2>1, <2>4, <3>3
  <2>6. CASE ~(d > i)
    <3>1. ~f[d] /\ ~R(d)
      BY <2>1, <2>4, <2>6
    <3> QED BY <2>4, <3>1
  <2> QED BY <2>5, <2>6
<1> QED BY <1>2, <1>3

-----------------------------------------------------------------------------
(* Sequences as lists: an element put onto a list, for provers that need   *)
(* not look into them.                                                     *)
Nothing == <<>>
Foremost(s) == Head(s)
Rest(s) == Tail(s)
Onto(a, s) == <<a>> \o s

Elements(s) == {s[i] : i \in DOMAIN s}
IsSeq(s) == s \in Seq(Elements(s))

Left1(a) == Onto(a, <<>>)
Left2(a, b) == Onto(a, Onto(b, <<>>))
Left3(a, b, c) == Onto(a, Onto(b, Onto(c, <<>>)))
Left4(a, b, c, d) == Onto(a, Onto(b, Onto(c, Onto(d, <<>>))))
Left5(a, b, c, d, e) == Onto(a, Onto(b, Onto(c, Onto(d, Onto(e, <<>>)))))
Left6(a, b, c, d, e, f) == Onto(a, Onto(b, Onto(c, Onto(d, Onto(e, Onto(f, <<>>))))))

LEMMA IsSeqOf == ASSUME NEW S, NEW s \in Seq(S) PROVE IsSeq(s)
  BY DEF IsSeq, Elements

LEMMA NilIsSeq == IsSeq(<<>>)
  BY DEF IsSeq

LEMMA ConsIs ==
    ASSUME NEW a, NEW t, IsSeq(t)
    PROVE  /\ IsSeq(Onto(a, t)) /\ Onto(a, t) # <<>>
           /\ Head(Onto(a, t)) = a /\ Tail(Onto(a, t)) = t /\ Onto(a, t)[1] = a
           /\ Len(Onto(a, t)) = Len(t) + 1 /\ DOMAIN Onto(a, t) = 1 .. (Len(t) + 1)
           /\ Len(t) \in Nat /\ \A i \in 1 .. Len(t) : Onto(a, t)[i + 1] = t[i]
<1> PICK S : S = Elements(t) \cup {a}
  OBVIOUS
<1>1. t \in Seq(S) /\ <<a>> \in Seq(S) /\ Len(<<a>>) = 1 /\ <<a>>[1] = a
  BY DEF IsSeq
<1> PICK h \in Seq(S) : h = <<a>>
  BY <1>1
<1>2. Len(h) = 1 /\ h[1] = a
  BY <1>1
<1> PICK c : c = h \o t
  OBVIOUS
<1>3. /\ c \in Seq(S) /\ Len(c) = Len(t) + 1 /\ c[1] = a
      /\ \A i \in 1 .. Len(t) : c[i + 1] = t[i]
  BY <1>1, <1>2, ConcatProperties
<1>4. c # <<>> /\ Head(c) = a
  BY <1>3
<1>5. Tail(c) = t
  <2>1. Tail(c) \in Seq(S) /\ Len(Tail(c)) = Len(t) /\ \A i \in 1 .. Len(t) : Tail(c)[i] = t[i]
    BY <1>1, <1>3, <1>4, HeadTailProperties
  <2> QED BY <1>1, <2>1, SeqEqual
<1>6. DOMAIN c = 1 .. (Len(t) + 1) /\ Len(t) \in Nat
  BY <1>1, <1>3
<1> QED BY <1>3, <1>4, <1>5, <1>6, IsSeqOf DEF Onto

LEMMA Uncons ==
    ASSUME NEW t, IsSeq(t), t # <<>>
    PROVE  t = Onto(Head(t), Tail(t)) /\ IsSeq(Tail(t))
<1> PICK S : S = Elements(t)
  OBVIOUS
<1>1. t \in Seq(S)
  BY DEF IsSeq
<1> PICK u : u = Tail(t)
  OBVIOUS
<1> PICK a : a = Head(t)
  OBVIOUS
<1>2. /\ u \in Seq(S) /\ Len(u) = Len(t) - 1 /\ a \in S /\ a = t[1]
      /\ \A i \in 1 .. Len(u) : u[i] = t[i + 1]
  BY <1>1, HeadTailProperties
<1>3. IsSeq(u)
  BY <1>2, IsSeqOf
<1> PICK c : c = Onto(a, u)
  OBVIOUS
<1>4. /\ IsSeq(c) /\ c[1] = a /\ Len(c) = Len(u) + 1
      /\ \A i \in 1 .. Len(u) : c[i + 1] = u[i]
  BY ONLY <1>3, ConsIs, c = Onto(a, u)
<1>5. ASSUME NEW i \in 1 .. Len(t) PROVE c[i] = t[i]
  <2>1. CASE i = 1
    BY <1>2, <1>4, <2>1
  <2>2. CASE i # 1
    <3> PICK j \in 1 .. Len(u) : i = j + 1
      <4>1. i - 1 \in 1 .. Len(u) /\ i = i - 1 + 1
        BY <1>1, <1>2, <2>2
      <4> QED BY <4>1
    <3> QED BY <1>2, <1>4
  <2> QED BY <2>1, <2>2
<1>6. Len(c) = Len(t) /\ Len(t) \in Nat
  BY <1>1, <1>2, <1>4
<1>7. c = t
  <2> PICK T : T = Elements(c) \cup Elements(t)
    OBVIOUS
  <2>1. c \in Seq(T) /\ t \in Seq(T)
    BY <1>1, <1>4 DEF IsSeq
  <2> QED BY <1>5, <1>6, <2>1, SeqEqual
<1> QED BY <1>3, <1>7

(* What is listed is what Onto builds.                                     *)
LEMMA ListedOnce ==
    ASSUME NEW t, NEW S, t \in Seq(S), t # <<>>, NEW h, NEW u, Head(t) = h, Tail(t) = u
    PROVE  t = Onto(h, u)
  BY IsSeqOf, Uncons

LEMMA Listed1 ==
    ASSUME NEW a
    PROVE  <<a>> = Onto(a, <<>>) /\ IsSeq(<<a>>)
<1> PICK S : S = {a}
  OBVIOUS
<1>1. <<a>> \in Seq(S) /\ <<a>> # <<>> /\ Head(<<a>>) = a /\ Tail(<<a>>) = <<>>
  OBVIOUS
<1> QED BY <1>1, ListedOnce, IsSeqOf

LEMMA Listed2 ==
    ASSUME NEW a, NEW b
    PROVE  <<a, b>> = Onto(a, <<b>>) /\ IsSeq(<<a, b>>)
<1> PICK S : S = {a, b}
  OBVIOUS
<1>1. <<a, b>> \in Seq(S) /\ <<a, b>> # <<>> /\ Head(<<a, b>>) = a /\ Tail(<<a, b>>) = <<b>>
  OBVIOUS
<1> QED BY <1>1, ListedOnce, IsSeqOf

LEMMA Listed3 ==
    ASSUME NEW a, NEW b, NEW c
    PROVE  <<a, b, c>> = Onto(a, <<b, c>>) /\ IsSeq(<<a, b, c>>)
<1> PICK S : S = {a, b, c}
  OBVIOUS
<1>1. <<a, b, c>> \in Seq(S) /\ <<a, b, c>> # <<>> /\ Head(<<a, b, c>>) = a
        /\ Tail(<<a, b, c>>) = <<b, c>>
  OBVIOUS
<1> QED BY <1>1, ListedOnce, IsSeqOf

LEMMA Listed4 ==
    ASSUME NEW a, NEW b, NEW c, NEW d
    PROVE  <<a, b, c, d>> = Onto(a, <<b, c, d>>) /\ IsSeq(<<a, b, c, d>>)
<1> PICK S : S = {a, b, c, d}
  OBVIOUS
<1>1. <<a, b, c, d>> \in Seq(S) /\ <<a, b, c, d>> # <<>> /\ Head(<<a, b, c, d>>) = a
        /\ Tail(<<a, b, c, d>>) = <<b, c, d>>
  OBVIOUS
<1> QED BY <1>1, ListedOnce, IsSeqOf

LEMMA Listed5 ==
    ASSUME NEW a, NEW b, NEW c, NEW d, NEW e
    PROVE  <<a, b, c, d, e>> = Onto(a, <<b, c, d, e>>) /\ IsSeq(<<a, b, c, d, e>>)
<1> PICK S : S = {a, b, c, d, e}
  OBVIOUS
<1>1. <<a, b, c, d, e>> \in Seq(S) /\ <<a, b, c, d, e>> # <<>> /\ Head(<<a, b, c, d, e>>) = a
        /\ Tail(<<a, b, c, d, e>>) = <<b, c, d, e>>
  OBVIOUS
<1> QED BY <1>1, ListedOnce, IsSeqOf

LEMMA Listed6 ==
    ASSUME NEW a, NEW b, NEW c, NEW d, NEW e, NEW f
    PROVE  <<a, b, c, d, e, f>> = Onto(a, <<b, c, d, e, f>>) /\ IsSeq(<<a, b, c, d, e, f>>)
<1> PICK S : S = {a, b, c, d, e, f}
  OBVIOUS
<1>1. <<a, b, c, d, e, f>> \in Seq(S) /\ <<a, b, c, d, e, f>> # <<>>
        /\ Head(<<a, b, c, d, e, f>>) = a /\ Tail(<<a, b, c, d, e, f>>) = <<b, c, d, e, f>>
  OBVIOUS
<1> QED BY <1>1, ListedOnce, IsSeqOf

LEMMA ListsAre ==
    /\ \A a : <<a>> = Left1(a)
    /\ \A a, b : <<a, b>> = Left2(a, b)
    /\ \A a, b, c : <<a, b, c>> = Left3(a, b, c)
    /\ \A a, b, c, d : <<a, b, c, d>> = Left4(a, b, c, d)
    /\ \A a, b, c, d, e : <<a, b, c, d, e>> = Left5(a, b, c, d, e)
    /\ \A a, b, c, d, e, f : <<a, b, c, d, e, f>> = Left6(a, b, c, d, e, f)
<1>1. ASSUME NEW a PROVE <<a>> = Left1(a)
  BY Listed1 DEF Left1
<1>2. ASSUME NEW a, NEW b PROVE <<a, b>> = Left2(a, b)
  <2>1. <<a, b>> = Onto(a, <<b>>)
    BY Listed2
  <2> QED BY ONLY <1>1, <2>1, Zenon DEF Left2, Left1
<1>3. ASSUME NEW a, NEW b, NEW c PROVE <<a, b, c>> = Left3(a, b, c)
  <2>1. <<a, b, c>> = Onto(a, <<b, c>>)
    BY Listed3
  <2> QED BY ONLY <1>2, <2>1, Zenon DEF Left3, Left2
<1>4. ASSUME NEW a, NEW b, NEW c, NEW d PROVE <<a, b, c, d>> = Left4(a, b, c, d)
  <2>1. <<a, b, c, d>> = Onto(a, <<b, c, d>>)
    BY Listed4
  <2> QED BY ONLY <1>3, <2>1, Zenon DEF Left4, Left3
<1>5. ASSUME NEW a, NEW b, NEW c, NEW d, NEW e PROVE <<a, b, c, d, e>> = Left5(a, b, c, d, e)
  <2>1. <<a, b, c, d, e>> = Onto(a, <<b, c, d, e>>)
    BY Listed5
  <2> QED BY ONLY <1>4, <2>1, Zenon DEF Left5, Left4
<1>6. ASSUME NEW a, NEW b, NEW c, NEW d, NEW e, NEW f
        PROVE <<a, b, c, d, e, f>> = Left6(a, b, c, d, e, f)
  <2>1. <<a, b, c, d, e, f>> = Onto(a, <<b, c, d, e, f>>)
    BY Listed6
  <2>2. <<b, c, d, e, f>> = Left5(b, c, d, e, f)
    BY ONLY <1>5
  <2> QED BY ONLY <2>1, <2>2, Zenon DEF Left6, Left5
<1> QED BY ONLY <1>1, <1>2, <1>3, <1>4, <1>5, <1>6

LEMMA ConsJoins ==
    ASSUME NEW a, NEW s, NEW t, IsSeq(s), IsSeq(t)
    PROVE  /\ Onto(a, s) \o t = Onto(a, s \o t) /\ IsSeq(s \o t)
           /\ <<>> \o t = t
<1> PICK S : S = Elements(t) \cup Elements(s) \cup {a}
  OBVIOUS
<1>1. t \in Seq(S) /\ s \in Seq(S) /\ <<a>> \in Seq(S)
  BY DEF IsSeq
<1> PICK h \in Seq(S) : h = <<a>>
  BY <1>1
<1>2. (h \o s) \o t = h \o (s \o t) /\ s \o t \in Seq(S) /\ <<>> \o t = t
  BY <1>1, ConcatAssociative, ConcatProperties, ConcatEmptySeq
<1> QED BY <1>2, IsSeqOf DEF Onto

(* The lists, one in the other.                                            *)
LEMMA ConsFacts ==
    ASSUME NEW a, NEW t, IsSeq(t)
    PROVE  /\ IsSeq(Onto(a, t)) /\ Onto(a, t) # Nothing
           /\ Foremost(Onto(a, t)) = a /\ Rest(Onto(a, t)) = t
  BY ConsIs DEF Foremost, Rest, Nothing

LEMMA LeftIs ==
    ASSUME NEW a, NEW b, NEW c, NEW d, NEW e, NEW f
    PROVE  /\ IsSeq(Nothing)
           /\ IsSeq(Left1(f)) /\ Left1(f) # Nothing
           /\ Foremost(Left1(f)) = f /\ Rest(Left1(f)) = Nothing
           /\ IsSeq(Left2(e, f)) /\ Left2(e, f) # Nothing
           /\ Foremost(Left2(e, f)) = e /\ Rest(Left2(e, f)) = Left1(f)
           /\ IsSeq(Left3(d, e, f)) /\ Left3(d, e, f) # Nothing
           /\ Foremost(Left3(d, e, f)) = d /\ Rest(Left3(d, e, f)) = Left2(e, f)
           /\ IsSeq(Left4(c, d, e, f)) /\ Left4(c, d, e, f) # Nothing
           /\ Foremost(Left4(c, d, e, f)) = c /\ Rest(Left4(c, d, e, f)) = Left3(d, e, f)
           /\ IsSeq(Left5(b, c, d, e, f)) /\ Left5(b, c, d, e, f) # Nothing
           /\ Foremost(Left5(b, c, d, e, f)) = b /\ Rest(Left5(b, c, d, e, f)) = Left4(c, d, e, f)
           /\ IsSeq(Left6(a, b, c, d, e, f)) /\ Left6(a, b, c, d, e, f) # Nothing
           /\ Foremost(Left6(a, b, c, d, e, f)) = a
           /\ Rest(Left6(a, b, c, d, e, f)) = Left5(b, c, d, e, f)
<1>0. IsSeq(Nothing) /\ Nothing = <<>>
  BY NilIsSeq DEF Nothing
<1>1. /\ IsSeq(Left1(f)) /\ Left1(f) # Nothing
      /\ Foremost(Left1(f)) = f /\ Rest(Left1(f)) = Nothing
  <2>1. Left1(f) = Onto(f, Nothing)
    BY ONLY <1>0 DEF Left1
  <2>2. IsSeq(Nothing)
    BY ONLY <1>0
  <2> QED BY ONLY <2>1, <2>2, ConsFacts
<1>2. /\ IsSeq(Left2(e, f)) /\ Left2(e, f) # Nothing
      /\ Foremost(Left2(e, f)) = e /\ Rest(Left2(e, f)) = Left1(f)
  <2>1. Left2(e, f) = Onto(e, Left1(f))
    BY ONLY <1>0 DEF Left2, Left1
  <2>2. IsSeq(Left1(f))
    BY ONLY <1>1
  <2> QED BY ONLY <2>1, <2>2, ConsFacts
<1>3. /\ IsSeq(Left3(d, e, f)) /\ Left3(d, e, f) # Nothing
      /\ Foremost(Left3(d, e, f)) = d /\ Rest(Left3(d, e, f)) = Left2(e, f)
  <2>1. Left3(d, e, f) = Onto(d, Left2(e, f))
    BY ONLY <1>0 DEF Left3, Left2
  <2>2. IsSeq(Left2(e, f))
    BY ONLY <1>2
  <2> QED BY ONLY <2>1, <2>2, ConsFacts
<1>4. /\ IsSeq(Left4(c, d, e, f)) /\ Left4(c, d, e, f) # Nothing
      /\ Foremost(Left4(c, d, e, f)) = c /\ Rest(Left4(c, d, e, f)) = Left3(d, e, f)
  <2>1. Left4(c, d, e, f) = Onto(c, Left3(d, e, f))
    BY ONLY <1>0 DEF Left4, Left3
  <2>2. IsSeq(Left3(d, e, f))
    BY ONLY <1>3
  <2> QED BY ONLY <2>1, <2>2, ConsFacts
<1>5. /\ IsSeq(Left5(b, c, d, e, f)) /\ Left5(b, c, d, e, f) # Nothing
      /\ Foremost(Left5(b, c, d, e, f)) = b /\ Rest(Left5(b, c, d, e, f)) = Left4(c, d, e, f)
  <2>1. Left5(b, c, d, e, f) = Onto(b, Left4(c, d, e, f))
    BY ONLY <1>0 DEF Left5, Left4
  <2>2. IsSeq(Left4(c, d, e, f))
    BY ONLY <1>4
  <2> QED BY ONLY <2>1, <2>2, ConsFacts
<1>6. /\ IsSeq(Left6(a, b, c, d, e, f)) /\ Left6(a, b, c, d, e, f) # Nothing
      /\ Foremost(Left6(a, b, c, d, e, f)) = a /\ Rest(Left6(a, b, c, d, e, f)) = Left5(b, c, d, e, f)
  <2>1. Left6(a, b, c, d, e, f) = Onto(a, Left5(b, c, d, e, f))
    BY ONLY <1>0 DEF Left6, Left5
  <2>2. IsSeq(Left5(b, c, d, e, f))
    BY ONLY <1>5
  <2> QED BY ONLY <2>1, <2>2, ConsFacts
<1> QED BY ONLY <1>0, <1>1, <1>2, <1>3, <1>4, <1>5, <1>6

LEMMA LeftFacts ==
    /\ IsSeq(Nothing)
    /\ \A a : /\ IsSeq(Left1(a)) /\ Left1(a) # Nothing
             /\ Foremost(Left1(a)) = a /\ Rest(Left1(a)) = Nothing
    /\ \A a, b : /\ IsSeq(Left2(a, b)) /\ Left2(a, b) # Nothing
                /\ Foremost(Left2(a, b)) = a /\ Rest(Left2(a, b)) = Left1(b)
    /\ \A a, b, c : /\ IsSeq(Left3(a, b, c)) /\ Left3(a, b, c) # Nothing
                   /\ Foremost(Left3(a, b, c)) = a /\ Rest(Left3(a, b, c)) = Left2(b, c)
    /\ \A a, b, c, d : /\ IsSeq(Left4(a, b, c, d)) /\ Left4(a, b, c, d) # Nothing
                      /\ Foremost(Left4(a, b, c, d)) = a /\ Rest(Left4(a, b, c, d)) = Left3(b, c, d)
    /\ \A a, b, c, d, e : /\ IsSeq(Left5(a, b, c, d, e)) /\ Left5(a, b, c, d, e) # Nothing
                         /\ Foremost(Left5(a, b, c, d, e)) = a
                         /\ Rest(Left5(a, b, c, d, e)) = Left4(b, c, d, e)
    /\ \A a, b, c, d, e, f : /\ IsSeq(Left6(a, b, c, d, e, f)) /\ Left6(a, b, c, d, e, f) # Nothing
                            /\ Foremost(Left6(a, b, c, d, e, f)) = a
                            /\ Rest(Left6(a, b, c, d, e, f)) = Left5(b, c, d, e, f)
  BY LeftIs

(* What is put before a list.                                              *)
LEMMA JoinOne ==
    ASSUME NEW a, NEW t, IsSeq(t)
    PROVE  <<a>> \o t = Onto(a, t) /\ IsSeq(<<a>> \o t)
<1>1. <<a>> \o t = Onto(a, t)
  BY DEF Onto
<1> QED BY <1>1, ConsIs

LEMMA JoinTwo ==
    ASSUME NEW a, NEW b, NEW t, IsSeq(t)
    PROVE  <<a, b>> \o t = Onto(a, Onto(b, t))
<1> PICK s : s = <<b>>
  OBVIOUS
<1>1. <<a, b>> = Onto(a, s)
  BY Listed2
<1>2. IsSeq(s)
  BY Listed1
<1>3. s \o t = Onto(b, t)
  BY JoinOne
<1>4. Onto(a, s) \o t = Onto(a, s \o t)
  BY ONLY <1>2, ConsJoins, IsSeq(t)
<1> QED BY ONLY <1>1, <1>3, <1>4, Zenon

LEMMA JoinThree ==
    ASSUME NEW a, NEW b, NEW c, NEW t, IsSeq(t)
    PROVE  <<a, b, c>> \o t = Onto(a, Onto(b, Onto(c, t)))
<1> PICK s : s = <<b, c>>
  OBVIOUS
<1>1. <<a, b, c>> = Onto(a, s)
  BY Listed3
<1>2. IsSeq(s)
  BY Listed2
<1>3. s \o t = Onto(b, Onto(c, t))
  BY JoinTwo
<1>4. Onto(a, s) \o t = Onto(a, s \o t)
  BY ONLY <1>2, ConsJoins, IsSeq(t)
<1> QED BY ONLY <1>1, <1>3, <1>4, Zenon

LEMMA JoinFour ==
    ASSUME NEW a, NEW b, NEW c, NEW d, NEW t, IsSeq(t)
    PROVE  <<a, b, c, d>> \o t = Onto(a, Onto(b, Onto(c, Onto(d, t))))
<1> PICK s : s = <<b, c, d>>
  OBVIOUS
<1>1. <<a, b, c, d>> = Onto(a, s)
  BY Listed4
<1>2. IsSeq(s)
  BY Listed3
<1>3. s \o t = Onto(b, Onto(c, Onto(d, t)))
  BY JoinThree
<1>4. Onto(a, s) \o t = Onto(a, s \o t)
  BY ONLY <1>2, ConsJoins, IsSeq(t)
<1> QED BY ONLY <1>1, <1>3, <1>4, Zenon

=============================================================================
