-------------------------- MODULE DriverArgsProofs --------------------------
(***************************************************************************)
(* The argument loop of driver_main, for every command line and every size *)
(* of the array extra: it stays inside argv and inside extra, tears no     *)
(* option from its operand, and reads what an order-free reading of the    *)
(* command line says.                                                      *)
(***************************************************************************)
EXTENDS DriverArgs, SetsAndLists, SequenceTheorems

(* What is read as the operand of an option is an argument.                *)
LEMMA OperandIsArgument ==
    ASSUME TypeOK, Looking
    PROVE  /\ a \in STRING
           /\ i \in Nat /\ i <= Len(argv) /\ Len(argv) \in Nat
           /\ HasNext => argv[i + 1] \in STRING /\ i + 2 <= Len(argv) + 1
BY DEF TypeOK, Looking, a, HasNext

(* Storing an option and its operand fits: the check leaves room for two.  *)
LEMMA PairFits ==
    ASSUME NEW S, NEW s \in Seq(S), NEW o \in S, NEW v \in S,
           NEW cap \in Nat, Len(s) + 2 < cap
    PROVE  s \o <<o, v>> \in Seq(S) /\ Len(s \o <<o, v>>) <= cap
<1>1. <<o, v>> \in Seq(S) /\ Len(<<o, v>>) = 2
  OBVIOUS
<1>2. s \o <<o, v>> \in Seq(S) /\ Len(s \o <<o, v>>) = Len(s) + 2
  BY <1>1
<1>3. Len(s) \in Nat
  OBVIOUS
<1> QED BY <1>2, <1>3

LEMMA OneFits ==
    ASSUME NEW S, NEW s \in Seq(S), NEW o \in S, NEW cap \in Nat, Len(s) < cap
    PROVE  Append(s, o) \in Seq(S) /\ Len(Append(s, o)) <= cap
<1>1. Append(s, o) \in Seq(S) /\ Len(Append(s, o)) = Len(s) + 1
  OBVIOUS
<1>2. Len(s) \in Nat
  OBVIOUS
<1> QED BY <1>1, <1>2

(* TypeOK is true at the start.                                            *)
LEMMA InitTyped == Init => TypeOK
<1> SUFFICES ASSUME Init PROVE TypeOK
  OBVIOUS
<1>1. argv \in Seq(STRING) /\ ExtraCap \in Nat
  BY ArgsAssumption DEF Init
<1>2. i \in 1 .. (Len(argv) + 1)
  BY <1>1 DEF Init
<1> QED BY <1>1, <1>2 DEF Init, TypeOK

(* Every argument looked at leaves the variables typed.                    *)
LEMMA StepTyped == TypeOK /\ [Next]_vars => TypeOK'
<1> SUFFICES ASSUME TypeOK, [Next]_vars PROVE TypeOK'
  OBVIOUS
<1>0. ExtraCap \in Nat
  BY ArgsAssumption
<1>1. CASE Output
  BY <1>1, OperandIsArgument DEF Output, TypeOK
<1>2. CASE Flag
  BY <1>2, OperandIsArgument DEF Flag, TypeOK
<1>3. CASE SeparateOption
  <2>1. /\ a \in STRING /\ argv[i + 1] \in STRING
        /\ i + 2 \in 1 .. (Len(argv) + 1) /\ i + 1 \in 1 .. (Len(argv) + 1)
    BY <1>3, OperandIsArgument DEF SeparateOption
  <2>2. CASE Len(extra) + 2 < ExtraCap
    <3>1. extra' = extra \o <<a, argv[i + 1]>> /\ i' = i + 2
      BY <1>3, <2>2 DEF SeparateOption
    <3>2. extra' \in Seq(STRING) /\ Len(extra') <= ExtraCap
      BY <1>0, <2>1, <2>2, <3>1, PairFits DEF TypeOK
    <3> QED BY <1>3, <2>1, <3>1, <3>2 DEF SeparateOption, TypeOK
  <2>3. CASE ~(Len(extra) + 2 < ExtraCap)
    BY <1>3, <2>1, <2>3 DEF SeparateOption, TypeOK
  <2> QED BY <2>2, <2>3
<1>4. CASE JoinedOption
  <2>1. a \in STRING /\ i + 1 \in 1 .. (Len(argv) + 1)
    BY <1>4, OperandIsArgument DEF JoinedOption
  <2>2. extra' \in Seq(STRING) /\ Len(extra') <= ExtraCap
    BY <1>0, <1>4, <2>1, OneFits DEF JoinedOption, TypeOK
  <2> QED BY <1>4, <2>1, <2>2 DEF JoinedOption, TypeOK
<1>5. CASE HelpOption
  BY <1>5 DEF HelpOption, TypeOK
<1>6. CASE Unknown
  BY <1>6 DEF Unknown, TypeOK
<1>7. CASE Input
  BY <1>7, OperandIsArgument DEF Input, TypeOK
<1>8. CASE Finish
  BY <1>8 DEF Finish, TypeOK
<1>9. CASE UNCHANGED vars
  BY <1>9 DEF vars, TypeOK
<1> QED BY <1>1, <1>2, <1>3, <1>4, <1>5, <1>6, <1>7, <1>8, <1>9 DEF Next

(* For every command line and every capacity, the loop never writes past   *)
(* the end of extra nor looks past the end of argv (driver.c:250-291).     *)
THEOREM ArgumentsStayInBounds == Spec => []TypeOK
BY InitTyped, StepTyped, PTL DEF Spec

-----------------------------------------------------------------------------
(***************************************************************************)
(* Which arguments are operands, without the recursion of Operands: those  *)
(* after an odd number of options that take one.                           *)
(***************************************************************************)
Takes(s, k) == s[k] \in Separate \cup {"-o"}
Takers(s) == {k \in Nat : Takes(s, k)}
Taken(s, k) == OddRun(Takers(s), 1, k)

LEMMA TakenNext ==
    ASSUME NEW s, NEW n \in Nat \ {0}
    PROVE  /\ ~Taken(s, 1)
           /\ Taken(s, n + 1) <=> Takes(s, n) /\ ~Taken(s, n)
<1> PICK B : B = Takers(s)
  OBVIOUS
<1>1. 1 \in Nat /\ n \in Nat /\ 1 <= n
  OBVIOUS
<1>2. ~OddRun(B, 1, 1) /\ (OddRun(B, 1, n + 1) <=> n \in B /\ ~OddRun(B, 1, n))
  BY <1>1, OddNext
<1>3. n \in B <=> Takes(s, n)
  BY <1>1 DEF Takers
<1> QED BY <1>2, <1>3 DEF Taken

LEMMA OperandsTaken ==
    ASSUME NEW s, Len(s) \in Nat, DOMAIN s = 1 .. Len(s)
    PROVE  \A k : k \in Operands(s) <=> k \in DOMAIN s /\ Taken(s, k)
<1> DEFINE op[k \in 0 .. Len(s)] ==
               k > 1 /\ s[k - 1] \in Separate \cup {"-o"} /\ ~op[k - 1]
<1> PICK B : B = Takers(s)
  OBVIOUS
<1> PICK e \in Nat : e = Len(s)
  OBVIOUS
<1>1. 0 \in Nat /\ 1 \in Nat /\ 0 <= 1
  OBVIOUS
<1>2. /\ \E f : Alternates(B, 1, 0, e, f)
      /\ \A f : Alternates(B, 1, 0, e, f) =>
            \A j \in 0 .. e : f[j] <=> j > 1 /\ OddRun(B, 1, j)
  BY <1>1, AlternatesIsOdd
<1>3. \A f : Alternates(B, 1, 0, e, f)
         <=> f = [k \in 0 .. e |-> k > 1 /\ s[k - 1] \in Separate \cup {"-o"} /\ ~f[k - 1]]
  <2>1. ASSUME NEW f, NEW k \in 0 .. e
        PROVE  (k > 1 /\ k - 1 \in B /\ ~f[k - 1])
                  = (k > 1 /\ s[k - 1] \in Separate \cup {"-o"} /\ ~f[k - 1])
    <3>1. k > 1 => k - 1 \in Nat
      OBVIOUS
    <3>2. k > 1 => (k - 1 \in B <=> s[k - 1] \in Separate \cup {"-o"})
      BY <3>1 DEF Takers, Takes
    <3> QED BY <3>2
  <2> QED BY <2>1 DEF Alternates
<1>4. op = CHOOSE f :
         f = [k \in 0 .. e |-> k > 1 /\ s[k - 1] \in Separate \cup {"-o"} /\ ~f[k - 1]]
  BY Zenon
<1>5. Operands(s) = {k \in DOMAIN s : op[k]}
  BY Zenon DEF Operands
<1> HIDE DEF op
<1>6. Alternates(B, 1, 0, e, op)
  BY <1>2, <1>3, <1>4, Zenon
<1>7. \A j \in 0 .. e : op[j] <=> j > 1 /\ OddRun(B, 1, j)
  BY <1>2, <1>6
<1>8. ~OddRun(B, 1, 1)
  BY <1>1, OddNext
<1>9. ASSUME NEW k \in DOMAIN s PROVE op[k] <=> OddRun(B, 1, k)
  <2>1. k \in 0 .. e /\ (k > 1 \/ k = 1)
    OBVIOUS
  <2> QED BY <1>7, <1>8, <2>1
<1> QED BY <1>5, <1>9 DEF Taken

-----------------------------------------------------------------------------
(***************************************************************************)
(* extra holds whole pairs: what comes next is no operand.                 *)
(***************************************************************************)
Whole(e) ==
    /\ ~Taken(e, Len(e) + 1)
    /\ \A k \in DOMAIN e : Taken(e, k) \/ e[k] \in Separate \cup Joined

(* Only what is before k tells whether it is an operand.                   *)
LEMMA TakenBefore ==
    ASSUME NEW s, NEW t, NEW k \in Nat \ {0}, \A j \in 1 .. (k - 1) : s[j] = t[j]
    PROVE  Taken(s, k) <=> Taken(t, k)
<1> PICK B : B = Takers(s)
  OBVIOUS
<1> PICK C : C = Takers(t)
  OBVIOUS
<1>1. 1 \in Nat /\ k \in Nat /\ 1 <= k
  OBVIOUS
<1>2. \A l \in 1 .. (k - 1) : l \in B <=> l \in C
  BY DEF Takers, Takes
<1>3. OddRun(B, 1, k) <=> OddRun(C, 1, k)
  BY <1>1, <1>2, OddSame
<1> QED BY <1>3 DEF Taken

LEMMA AppendTaken ==
    ASSUME NEW S, NEW e \in Seq(S), NEW v \in S
    PROVE  LET f == Append(e, v)
           IN /\ Len(f) = Len(e) + 1
              /\ f[Len(e) + 1] = v
              /\ \A k \in 1 .. (Len(e) + 1) : Taken(f, k) <=> Taken(e, k)
              /\ Taken(f, Len(f) + 1) <=>
                    v \in Separate \cup {"-o"} /\ ~Taken(e, Len(e) + 1)
<1> PICK f : f = Append(e, v)
  OBVIOUS
<1>1. Len(e) \in Nat /\ Len(f) = Len(e) + 1 /\ f[Len(e) + 1] = v
      /\ \A j \in 1 .. Len(e) : f[j] = e[j]
  BY AppendProperties
<1>2. ASSUME NEW k \in 1 .. (Len(e) + 1) PROVE Taken(f, k) <=> Taken(e, k)
  <2>1. k \in Nat \ {0} /\ \A j \in 1 .. (k - 1) : j \in 1 .. Len(e)
    BY <1>1
  <2> QED BY <1>1, <2>1, TakenBefore
<1>3. Len(e) + 1 \in Nat \ {0} /\ Len(e) + 1 \in 1 .. (Len(e) + 1)
  BY <1>1
<1> PICK n \in Nat \ {0} : n = Len(e) + 1
  BY <1>3
<1>4. Taken(f, n + 1) <=> v \in Separate \cup {"-o"} /\ ~Taken(f, n)
  BY <1>1, TakenNext DEF Takes
<1> QED BY <1>1, <1>2, <1>3, <1>4

LEMMA WholeWithOne ==
    ASSUME NEW e \in Seq(STRING), Whole(e), NEW o \in STRING, o \in Joined
    PROVE  Whole(Append(e, o))
<1> PICK f : f = Append(e, o)
  OBVIOUS
<1>1. Len(e) \in Nat /\ DOMAIN f = 1 .. (Len(e) + 1) /\ DOMAIN e = 1 .. Len(e)
      /\ \A j \in 1 .. Len(e) : f[j] = e[j]
  OBVIOUS
<1>2. /\ Len(f) = Len(e) + 1
      /\ f[Len(e) + 1] = o
      /\ \A k \in 1 .. (Len(e) + 1) : Taken(f, k) <=> Taken(e, k)
      /\ Taken(f, Len(f) + 1) <=> o \in Separate \cup {"-o"} /\ ~Taken(e, Len(e) + 1)
  BY AppendTaken
<1>3. o \notin Separate \cup {"-o"}
  BY DEF Joined, Separate
<1>4. ASSUME NEW k \in DOMAIN f PROVE Taken(f, k) \/ f[k] \in Separate \cup Joined
  <2>1. k \in 1 .. Len(e) \/ k = Len(e) + 1
    BY <1>1
  <2>2. CASE k \in 1 .. Len(e)
    <3>1. k \in 1 .. (Len(e) + 1)
      BY <1>1, <2>2
    <3> QED BY <1>1, <1>2, <2>2, <3>1 DEF Whole
  <2>3. CASE k = Len(e) + 1
    BY <1>2, <2>3
  <2> QED BY <2>1, <2>2, <2>3
<1> QED BY <1>2, <1>3, <1>4 DEF Whole

LEMMA OneMore ==
    ASSUME NEW S, NEW e \in Seq(S), NEW x \in S
    PROVE  /\ Len(Append(e, x)) = Len(e) + 1
           /\ DOMAIN Append(e, x) = 1 .. (Len(e) + 1)
           /\ \A j \in 1 .. Len(e) : Append(e, x)[j] = e[j]
  OBVIOUS

LEMMA WholeWithPair ==
    ASSUME NEW e \in Seq(STRING), Whole(e),
           NEW o \in STRING, o \in Separate, NEW v \in STRING
    PROVE  Whole(Append(Append(e, o), v))
<1> PICK f \in Seq(STRING) : f = Append(e, o)
  BY AppendProperties
<1> PICK g : g = Append(f, v)
  OBVIOUS
<1>1. /\ Len(e) \in Nat /\ DOMAIN e = 1 .. Len(e)
      /\ \A j \in 1 .. Len(e) : f[j] = e[j]
  OBVIOUS
<1>2. /\ Len(f) = Len(e) + 1
      /\ f[Len(e) + 1] = o
      /\ \A k \in 1 .. (Len(e) + 1) : Taken(f, k) <=> Taken(e, k)
      /\ Taken(f, Len(f) + 1)
  BY AppendTaken DEF Whole
<1>3. /\ Len(g) = Len(f) + 1 /\ DOMAIN g = 1 .. (Len(f) + 1)
      /\ \A j \in 1 .. Len(f) : g[j] = f[j]
  BY OneMore
<1>4. /\ \A k \in 1 .. (Len(f) + 1) : Taken(g, k) <=> Taken(f, k)
      /\ ~Taken(g, Len(g) + 1)
  BY ZenonT(60), <1>2, AppendTaken
<1>5. ASSUME NEW k \in DOMAIN g PROVE Taken(g, k) \/ g[k] \in Separate \cup Joined
  <2>1. k \in 1 .. Len(e) \/ k = Len(e) + 1 \/ k = Len(f) + 1
    BY <1>1, <1>2, <1>3
  <2>2. CASE k \in 1 .. Len(e)
    <3>1. k \in 1 .. (Len(e) + 1) /\ k \in 1 .. (Len(f) + 1) /\ k \in 1 .. Len(f)
      BY <1>1, <1>2, <2>2
    <3>2. (Taken(g, k) <=> Taken(e, k)) /\ g[k] = e[k]
      BY <1>1, <1>2, <1>3, <1>4, <2>2, <3>1
    <3> QED BY <1>1, <2>2, <3>2 DEF Whole
  <2>3. CASE k = Len(e) + 1
    <3>1. k \in 1 .. Len(f)
      BY <1>1, <1>2, <2>3
    <3> QED BY <1>2, <1>3, <2>3, <3>1
  <2>4. CASE k = Len(f) + 1
    <3>1. k \in 1 .. (Len(f) + 1)
      BY <1>1, <1>2, <2>4
    <3> QED BY <1>2, <1>4, <2>4, <3>1
  <2> QED BY <2>1, <2>2, <2>3, <2>4
<1> QED BY <1>4, <1>5 DEF Whole

(* Two entries at once are one after the other.                            *)
OneByOne(e, o, v) == e \o <<o, v>> = Append(Append(e, o), v)

LEMMA PairIsTwo ==
    ASSUME NEW S, NEW e \in Seq(S), NEW o \in S, NEW v \in S
    PROVE  OneByOne(e, o, v)
<1>1. Append(e, o) \in Seq(S) /\ Append(e, o) = e \o <<o>>
  BY AppendProperties, AppendIsConcat
<1>2. Append(Append(e, o), v) = Append(e, o) \o <<v>>
  BY <1>1, AppendIsConcat
<1>3. <<o>> \in Seq(S) /\ <<v>> \in Seq(S)
  OBVIOUS
<1>4. (e \o <<o>>) \o <<v>> = e \o (<<o>> \o <<v>>)
  BY <1>3, ConcatAssociative
<1>5. <<o>> \o <<v>> = <<o, v>>
  <2> PICK p \in Seq(S) : p = <<o>> \o <<v>>
    BY <1>3, ConcatProperties
  <2>1. Len(<<o>>) = 1 /\ Len(<<v>>) = 1 /\ <<o>>[1] = o /\ <<v>>[1] = v
    OBVIOUS
  <2>2. Len(p) = 2 /\ p[1] = o /\ p[2] = v
    BY <1>3, <2>1, ConcatProperties
  <2>3. <<o, v>> \in Seq(S) /\ Len(<<o, v>>) = 2 /\ <<o, v>>[1] = o /\ <<o, v>>[2] = v
    OBVIOUS
  <2>4. \A k \in 1 .. 2 : k = 1 \/ k = 2
    OBVIOUS
  <2>5. \A k \in 1 .. Len(p) : p[k] = <<o, v>>[k]
    BY <2>2, <2>3, <2>4
  <2> QED BY <2>2, <2>3, <2>5, SeqEqual
<1> QED BY <1>1, <1>2, <1>4, <1>5 DEF OneByOne

ExtraWhole == Whole(extra)

LEMMA WholeMeans == TypeOK /\ ExtraWhole => PairsWhole
<1> SUFFICES ASSUME TypeOK, Whole(extra), NEW k \in DOMAIN extra
             PROVE  /\ k \in Ats(extra, Separate) => k < Len(extra)
                    /\ k \notin Operands(extra) => extra[k] \in Separate \cup Joined
  BY DEF PairsWhole, ExtraWhole
<1>1. Len(extra) \in Nat /\ DOMAIN extra = 1 .. Len(extra)
  BY DEF TypeOK
<1>2. k \in Operands(extra) <=> Taken(extra, k)
  BY <1>1, OperandsTaken
<1>3. k \in Ats(extra, Separate) => k < Len(extra)
  <2> SUFFICES ASSUME k \in Ats(extra, Separate) PROVE k # Len(extra)
    BY <1>1
  <2>1. extra[k] \in Separate /\ ~Taken(extra, k)
    BY <1>2 DEF Ats
  <2>2. k \in Nat \ {0}
    BY <1>1
  <2>3. Taken(extra, k + 1)
    BY <2>1, <2>2, TakenNext DEF Takes
  <2> QED BY <2>3 DEF Whole
<1> QED BY <1>2, <1>3 DEF Whole

LEMMA WholeStep == TypeOK /\ ExtraWhole /\ [Next]_vars => ExtraWhole'
<1> SUFFICES ASSUME TypeOK, Whole(extra), [Next]_vars PROVE Whole(extra')
  BY DEF ExtraWhole
<1>0. extra \in Seq(STRING)
  BY DEF TypeOK
<1>1. CASE SeparateOption
  <2>1. a \in STRING /\ argv[i + 1] \in STRING /\ a \in Separate
    BY <1>1, OperandIsArgument DEF SeparateOption
  <2>2. extra' = extra \/ extra' = extra \o <<a, argv[i + 1]>>
    BY <1>1 DEF SeparateOption
  <2> PICK v \in STRING : v = argv[i + 1]
    BY <2>1
  <2> PICK o \in STRING : o = a
    BY <2>1
  <2> PICK e \in Seq(STRING) : e = extra
    BY <1>0
  <2>3. e \o <<o, v>> = Append(Append(e, o), v)
    <3>1. OneByOne(e, o, v)
      BY PairIsTwo
    <3> QED BY <3>1, Zenon DEF OneByOne
  <2>4. Whole(Append(Append(extra, o), v))
    BY <1>0, <2>1, WholeWithPair
  <2> QED BY <2>2, <2>3, <2>4
<1>2. CASE JoinedOption
  <2>1. a \in STRING /\ a \in Joined
    BY <1>2, OperandIsArgument DEF JoinedOption
  <2>2. extra' = extra \/ extra' = Append(extra, a)
    BY <1>2 DEF JoinedOption
  <2> PICK o \in STRING : o = a
    BY <2>1
  <2>3. Whole(Append(extra, o))
    BY <1>0, <2>1, WholeWithOne
  <2> QED BY <2>2, <2>3
<1>3. CASE ~SeparateOption /\ ~JoinedOption
  <2>1. extra' = extra
    BY <1>3 DEF Next, Output, Flag, HelpOption, Unknown, Input, Finish, vars
  <2> QED BY <2>1
<1> QED BY <1>1, <1>2, <1>3

(* However many options there are and however few fit, every option passed *)
(* to the preprocessor has its operand after it and every operand its      *)
(* option before it (driver.c:269-278).                                    *)
THEOREM PairsStayWhole == Spec => []PairsWhole
<1>1. Init => ExtraWhole
  <2> SUFFICES ASSUME Init PROVE Whole(<<>>)
    BY DEF Init, ExtraWhole
  <2>1. Len(<<>>) = 0 /\ DOMAIN <<>> = {}
    OBVIOUS
  <2>2. ~Taken(<<>>, 1)
    BY TakenNext
  <2> QED BY <2>1, <2>2 DEF Whole
<1> QED BY <1>1, InitTyped, StepTyped, WholeStep, WholeMeans, PTL DEF Spec


-----------------------------------------------------------------------------
(***************************************************************************)
(* What the arguments before n come to, by the order-free reading of the   *)
(* whole command line s: the loop, looking at n, has read just that.       *)
(***************************************************************************)
Line(s) == s \in Seq(STRING) /\ \A k \in DOMAIN s : s[k] # NoName

Outs(s) == {k \in Operands(s) : s[k - 1] = "-o"}

NameRead(s, n, x) ==
    \/ x = NoName /\ \A k \in Names(s) : ~(k < n)
    \/ \E k \in Names(s) : k < n /\ x = s[k] /\ \A j \in Names(s) : j < n => j = k

OutputRead(s, n, y) ==
    \/ y = NoName /\ \A k \in Outs(s) : ~(k < n)
    \/ \E k \in Outs(s) : k < n /\ y = s[k] /\ \A j \in Outs(s) : j < n => j <= k

FlagsRead(s, n, F) == \A f : f \in F <=> \E k \in Ats(s, Flags) : k < n /\ f = s[k]

NoStray(s, n) ==
    \A k \in Dangling(s) \cup Ats(s, Help \cup {"-unknown"}) : ~(k < n)

ExtraRead(s, n, e) ==
    /\ Rank(ForCpp(s), n) = Len(e)
    /\ \A p \in ForCpp(s) : p < n => e[Rank(ForCpp(s), p) + 1] = s[p]

AllRead(s, n, x, y, F, e) ==
    /\ ~Taken(s, n)
    /\ NameRead(s, n, x)
    /\ OutputRead(s, n, y)
    /\ FlagsRead(s, n, F)
    /\ NoStray(s, n)
    /\ ExtraRead(s, n, e)

LEMMA LineTyped ==
    ASSUME NEW s, Line(s)
    PROVE  /\ s \in Seq(STRING) /\ Len(s) \in Nat /\ DOMAIN s = 1 .. Len(s)
           /\ Outs(s) \subseteq Nat /\ Names(s) \subseteq Nat
           /\ ForCpp(s) \subseteq DOMAIN s /\ ForCpp(s) \subseteq Int
           /\ IsFiniteSet(ForCpp(s))
           /\ Dangling(s) \subseteq Nat /\ \A S : Ats(s, S) \subseteq Nat
           /\ \A k : k \in Operands(s) <=> k \in DOMAIN s /\ Taken(s, k)
<1>1. s \in Seq(STRING) /\ Len(s) \in Nat /\ DOMAIN s = 1 .. Len(s)
  BY DEF Line
<1>2. \A k : k \in Operands(s) <=> k \in DOMAIN s /\ Taken(s, k)
  BY <1>1, OperandsTaken
<1>3. \A S : Ats(s, S) \subseteq DOMAIN s
  BY DEF Ats
<1>4. ForCpp(s) \subseteq DOMAIN s
  BY <1>2, <1>3 DEF ForCpp
<1>5. Outs(s) \subseteq DOMAIN s /\ Names(s) \subseteq DOMAIN s /\ Dangling(s) \subseteq DOMAIN s
  BY <1>2, <1>3 DEF Outs, Names, Dangling
<1>6. IsFiniteSet(DOMAIN s) /\ DOMAIN s \subseteq Nat
  <2>1. 1 \in Int /\ Len(s) \in Int
    BY <1>1
  <2>2. IsFiniteSet(1 .. Len(s))
    BY <2>1, FS_Interval
  <2> QED BY <1>1, <2>2
<1>7. IsFiniteSet(ForCpp(s))
  BY <1>4, <1>6, FS_Subset
<1> QED BY <1>1, <1>2, <1>3, <1>4, <1>5, <1>6, <1>7

(* What an argument that is no operand is ...                              *)
LEMMA ArgumentMeans ==
    ASSUME NEW s, Line(s), NEW n \in DOMAIN s, ~Taken(s, n)
    PROVE  /\ n \notin Outs(s)
           /\ \A S : n \in Ats(s, S) <=> s[n] \in S
           /\ n \in Names(s) <=> s[n] \notin Dashed
           /\ n \in ForCpp(s) <=> s[n] \in Separate \cup Joined
           /\ n \in Dangling(s) <=> Takes(s, n) /\ n = Len(s)
<1>1. n \notin Operands(s)
  BY LineTyped
<1>2. \A S : n \in Ats(s, S) <=> s[n] \in S
  BY <1>1 DEF Ats
<1> QED BY <1>1, <1>2 DEF Outs, Names, ForCpp, Dangling, Takes

(* ... and what the one after it is if that is its operand.                *)
LEMMA OperandMeans ==
    ASSUME NEW s, Line(s), NEW n \in DOMAIN s, ~Taken(s, n), Takes(s, n),
           NEW m \in DOMAIN s, m = n + 1
    PROVE  /\ Taken(s, m)
           /\ m \in Outs(s) <=> s[n] = "-o"
           /\ \A S : m \notin Ats(s, S)
           /\ m \notin Names(s) /\ m \notin Dangling(s)
           /\ m \in ForCpp(s) <=> s[n] \in Separate
           /\ ~Taken(s, m + 1)
<1>1. n \in Nat \ {0} /\ m \in Nat \ {0} /\ m - 1 = n
  BY LineTyped
<1>2. Taken(s, m)
  BY <1>1, TakenNext
<1>3. ~Taken(s, m + 1)
  BY <1>1, <1>2, TakenNext
<1>4. m \in Operands(s)
  BY <1>2, LineTyped
<1>5. \A S : m \notin Ats(s, S)
  BY <1>4 DEF Ats
<1> QED BY <1>1, <1>2, <1>3, <1>4, <1>5 DEF Outs, Names, Dangling, ForCpp

(* Looking further, past nothing that is in S.                             *)
Skips(S, n, m) == \A k \in S : k < m <=> k < n

LEMMA SkipRank ==
    ASSUME NEW S, NEW n, NEW m, Skips(S, n, m)
    PROVE  Rank(S, m) = Rank(S, n)
<1>1. {j \in S : j < m} = {j \in S : j < n}
  BY DEF Skips
<1> QED BY <1>1 DEF Rank

LEMMA SkipReads ==
    ASSUME NEW s, NEW n, NEW m
    PROVE  /\ \A x : NameRead(s, n, x) /\ Skips(Names(s), n, m) => NameRead(s, m, x)
           /\ \A y : OutputRead(s, n, y) /\ Skips(Outs(s), n, m) => OutputRead(s, m, y)
           /\ \A F : FlagsRead(s, n, F) /\ Skips(Ats(s, Flags), n, m) => FlagsRead(s, m, F)
           /\ \A e : ExtraRead(s, n, e) /\ Skips(ForCpp(s), n, m) => ExtraRead(s, m, e)
<1>1. ASSUME NEW x, NameRead(s, n, x), Skips(Names(s), n, m) PROVE NameRead(s, m, x)
  BY <1>1 DEF NameRead, Skips
<1>2. ASSUME NEW y, OutputRead(s, n, y), Skips(Outs(s), n, m) PROVE OutputRead(s, m, y)
  BY <1>2 DEF OutputRead, Skips
<1>3. ASSUME NEW F, FlagsRead(s, n, F), Skips(Ats(s, Flags), n, m) PROVE FlagsRead(s, m, F)
  BY <1>3 DEF FlagsRead, Skips
<1>4. ASSUME NEW e, ExtraRead(s, n, e), Skips(ForCpp(s), n, m) PROVE ExtraRead(s, m, e)
  <2>1. Rank(ForCpp(s), m) = Rank(ForCpp(s), n)
    BY <1>4, SkipRank
  <2> QED BY <1>4, <2>1 DEF ExtraRead, Skips
<1> QED BY <1>1, <1>2, <1>3, <1>4

(* One after n, and two, the second of them not in S.                      *)
LEMMA NextSkips ==
    ASSUME NEW S, S \subseteq Int, NEW n \in Int
    PROVE  /\ n \notin S => Skips(S, n, n + 1)
           /\ n \notin S /\ n + 1 \notin S => Skips(S, n, n + 2)
BY DEF Skips

LEMMA RankOne ==
    ASSUME NEW S, IsFiniteSet(S), S \subseteq Int, NEW n \in S
    PROVE  Rank(S, n + 1) = Rank(S, n) + 1
<1> DEFINE B == {j \in S : j < n}
<1>1. {j \in S : j < n + 1} = B \cup {n} /\ n \notin B /\ B \subseteq S
  <2>1. n \in Int /\ \A j \in S : j < n + 1 <=> j < n \/ j = n
    OBVIOUS
  <2>2. \A j : j \in {k \in S : k < n + 1} <=> j \in B \/ j = n
    BY <2>1
  <2>3. n \notin B /\ B \subseteq S
    OBVIOUS
  <2> HIDE DEF B
  <2> QED BY <2>2, <2>3
<1> HIDE DEF B
<1>2. IsFiniteSet(B)
  BY <1>1, FS_Subset
<1>3. Cardinality(B \cup {n}) = Cardinality(B) + 1
  BY <1>1, <1>2, FS_AddElement
<1>4. Cardinality({j \in S : j < n + 1}) = Cardinality({j \in S : j < n}) + 1
  BY <1>1, <1>3 DEF B
<1> QED BY <1>4 DEF Rank

LEMMA RankRoom ==
    ASSUME NEW S, IsFiniteSet(S), NEW n
    PROVE  Rank(S, n) \in Nat /\ Rank(S, n) <= Cardinality(S) /\ Cardinality(S) \in Nat
<1>1. {j \in S : j < n} \subseteq S
  OBVIOUS
<1>2. IsFiniteSet({j \in S : j < n}) /\ Cardinality({j \in S : j < n}) <= Cardinality(S)
  BY <1>1, FS_Subset
<1> QED BY <1>2, FS_CardinalityType DEF Rank

LEMMA FlagOn ==
    ASSUME NEW s, Line(s), NEW n \in DOMAIN s, ~Taken(s, n), s[n] \in Flags,
           NEW F, FlagsRead(s, n, F)
    PROVE  FlagsRead(s, n + 1, F \cup {s[n]})
<1>1. n \in Ats(s, Flags)
  BY ArgumentMeans
<1>2. \A k \in Ats(s, Flags) : k < n + 1 <=> k < n \/ k = n
  <2>1. Ats(s, Flags) \subseteq Nat /\ n \in Nat
    BY <1>1, LineTyped
  <2> QED BY <2>1
<1> QED BY <1>1, <1>2 DEF FlagsRead

LEMMA NameOn ==
    ASSUME NEW s, Line(s), NEW n \in DOMAIN s, n \in Names(s), NameRead(s, n, NoName)
    PROVE  NameRead(s, n + 1, s[n])
<1>1. \A k \in Names(s) : k \in Nat /\ s[k] # NoName
  BY LineTyped DEF Line, Names
<1>2. \A k \in Names(s) : ~(k < n)
  BY <1>1 DEF NameRead
<1>3. n \in Nat /\ n < n + 1 /\ \A k \in Names(s) : k < n + 1 => k = n
  BY <1>1, <1>2
<1> QED BY <1>3 DEF NameRead

LEMMA OutputOn ==
    ASSUME NEW s, Line(s), NEW n \in Int, NEW m \in Outs(s), m = n + 1
    PROVE  OutputRead(s, n + 2, s[m])
<1>1. \A k \in Outs(s) : k \in Nat
  BY LineTyped
<1>2. m < n + 2 /\ \A k \in Outs(s) : k < n + 2 => k <= m
  BY <1>1
<1> QED BY <1>2 DEF OutputRead

LEMMA NoStrayOn ==
    ASSUME NEW s, Line(s), NEW n \in DOMAIN s, NoStray(s, n), ~Taken(s, n),
           s[n] \notin Help \cup {"-unknown"}, ~Takes(s, n) \/ n < Len(s)
    PROVE  /\ NoStray(s, n + 1)
           /\ Takes(s, n) => NoStray(s, n + 2)
<1> DEFINE T == Dangling(s) \cup Ats(s, Help \cup {"-unknown"})
<1>1. n \in Nat /\ n <= Len(s) /\ Len(s) \in Nat /\ T \subseteq Nat
  BY LineTyped
<1>2. n \notin T
  BY <1>1, ArgumentMeans
<1>3. Takes(s, n) => n + 1 \notin T
  <2> SUFFICES ASSUME Takes(s, n) PROVE n + 1 \notin T
    OBVIOUS
  <2> PICK m \in DOMAIN s : m = n + 1
    BY <1>1, LineTyped
  <2> QED BY OperandMeans
<1> HIDE DEF T
<1>4. Skips(T, n, n + 1) /\ (Takes(s, n) => Skips(T, n, n + 2))
  <2>1. T \subseteq Int /\ n \in Int
    BY <1>1
  <2> QED BY <1>2, <1>3, <2>1, NextSkips
<1>5. \A k \in T : ~(k < n)
  BY DEF NoStray, T
<1> QED BY <1>4, <1>5 DEF NoStray, Skips, T

LEMMA ExtraOn ==
    ASSUME NEW s, Line(s), NEW n \in ForCpp(s),
           NEW e \in Seq(STRING), ExtraRead(s, n, e), s[n] \in STRING
    PROVE  ExtraRead(s, n + 1, Append(e, s[n]))
<1> PICK S : S = ForCpp(s)
  OBVIOUS
<1> PICK f : f = Append(e, s[n])
  OBVIOUS
<1>1. IsFiniteSet(S) /\ S \subseteq Int /\ n \in S /\ n \in Int
  BY LineTyped
<1>2. /\ Len(e) \in Nat /\ Len(f) = Len(e) + 1 /\ f[Len(e) + 1] = s[n]
      /\ \A j \in 1 .. Len(e) : f[j] = e[j]
  BY AppendProperties, LenProperties
<1>3. Rank(S, n) = Len(e) /\ \A p \in S : p < n => e[Rank(S, p) + 1] = s[p]
  BY DEF ExtraRead
<1>4. Rank(S, n + 1) = Len(f)
  BY <1>1, <1>2, <1>3, RankOne
<1>5. ASSUME NEW p \in S, p < n + 1 PROVE f[Rank(S, p) + 1] = s[p]
  <2>1. p \in Int /\ (p < n \/ p = n)
    BY <1>1, <1>5
  <2>2. CASE p < n
    <3>1. Rank(S, p) \in Nat /\ Rank(S, p) < Rank(S, n)
      BY <1>1, <2>2, RankGrows, RankRoom
    <3>2. Rank(S, p) + 1 \in 1 .. Len(e)
      BY <1>2, <1>3, <3>1
    <3> QED BY <1>2, <1>3, <2>2, <3>2
  <2>3. CASE p = n
    BY <1>2, <1>3, <2>3
  <2> QED BY <2>1, <2>2, <2>3
<1> QED BY <1>4, <1>5 DEF ExtraRead

(***************************************************************************)
(* One argument looked at, by what it is.                                  *)
(***************************************************************************)
LEMMA ReadOutput ==
    ASSUME NEW s, Line(s), NEW n \in DOMAIN s, n < Len(s), s[n] = "-o",
           NEW x, NEW y, NEW F, NEW e, AllRead(s, n, x, y, F, e)
    PROVE  AllRead(s, n + 2, x, s[n + 1], F, e)
<1>1. /\ ~Taken(s, n) /\ NameRead(s, n, x) /\ FlagsRead(s, n, F)
      /\ NoStray(s, n) /\ ExtraRead(s, n, e)
  BY DEF AllRead
<1>2. /\ Takes(s, n) /\ s[n] \in Dashed /\ s[n] \notin Flags
      /\ s[n] \notin Separate \cup Joined /\ s[n] \notin Help \cup {"-unknown"}
  BY DEF Takes, Dashed, Flags, Separate, Joined, Help
<1>3. n \in Int /\ n + 1 \in DOMAIN s
  BY LineTyped
<1> PICK m \in DOMAIN s : m = n + 1
  BY <1>3
<1>4. /\ n \notin Names(s) /\ n \notin Ats(s, Flags) /\ n \notin ForCpp(s)
  BY <1>1, <1>2, ArgumentMeans
<1>5. /\ m \notin Names(s) /\ m \notin Ats(s, Flags) /\ m \notin ForCpp(s)
      /\ m \in Outs(s) /\ ~Taken(s, m + 1)
  BY <1>1, <1>2, OperandMeans
<1>6. /\ Names(s) \subseteq Int /\ Ats(s, Flags) \subseteq Int /\ ForCpp(s) \subseteq Int
  BY LineTyped
<1>7. /\ Skips(Names(s), n, n + 2) /\ Skips(Ats(s, Flags), n, n + 2)
      /\ Skips(ForCpp(s), n, n + 2)
  BY <1>3, <1>4, <1>5, <1>6, NextSkips
<1>8. OutputRead(s, n + 2, s[m])
  BY <1>3, <1>5, OutputOn
<1>9. NoStray(s, n + 2)
  BY <1>1, <1>2, NoStrayOn
<1>10. m + 1 = n + 2
  BY <1>3
<1>11. ~Taken(s, n + 2)
  BY <1>5, <1>10
<1>12. NameRead(s, n + 2, x) /\ FlagsRead(s, n + 2, F) /\ ExtraRead(s, n + 2, e)
  BY <1>1, <1>7, SkipReads
<1> QED BY <1>8, <1>9, <1>11, <1>12 DEF AllRead

LEMMA ReadFlag ==
    ASSUME NEW s, Line(s), NEW n \in DOMAIN s, s[n] \in Flags,
           NEW x, NEW y, NEW F, NEW e, AllRead(s, n, x, y, F, e)
    PROVE  AllRead(s, n + 1, x, y, F \cup {s[n]}, e)
<1>1. /\ ~Taken(s, n) /\ NameRead(s, n, x) /\ OutputRead(s, n, y) /\ FlagsRead(s, n, F)
      /\ NoStray(s, n) /\ ExtraRead(s, n, e)
  BY DEF AllRead
<1>2. /\ ~Takes(s, n) /\ s[n] \in Dashed
      /\ s[n] \notin Separate \cup Joined /\ s[n] \notin Help \cup {"-unknown"}
  BY DEF Takes, Dashed, Flags, Separate, Joined, Help
<1>3. n \in Int /\ n \in Nat \ {0}
  BY LineTyped
<1>4. n \notin Names(s) /\ n \notin Outs(s) /\ n \notin ForCpp(s)
  BY <1>1, <1>2, ArgumentMeans
<1>5. Names(s) \subseteq Int /\ Outs(s) \subseteq Int /\ ForCpp(s) \subseteq Int
  BY LineTyped
<1>6. /\ Skips(Names(s), n, n + 1) /\ Skips(Outs(s), n, n + 1)
      /\ Skips(ForCpp(s), n, n + 1)
  BY <1>3, <1>4, <1>5, NextSkips
<1>7. FlagsRead(s, n + 1, F \cup {s[n]})
  BY <1>1, FlagOn
<1>8. NoStray(s, n + 1)
  BY <1>1, <1>2, NoStrayOn
<1>9. ~Taken(s, n + 1)
  BY <1>2, <1>3, TakenNext
<1>10. NameRead(s, n + 1, x) /\ OutputRead(s, n + 1, y) /\ ExtraRead(s, n + 1, e)
  BY <1>1, <1>6, SkipReads
<1> QED BY <1>7, <1>8, <1>9, <1>10 DEF AllRead

LEMMA ReadJoined ==
    ASSUME NEW s, Line(s), NEW n \in DOMAIN s, s[n] \in Joined,
           NEW x, NEW y, NEW F, NEW e \in Seq(STRING), AllRead(s, n, x, y, F, e)
    PROVE  /\ Len(e) < Cardinality(ForCpp(s))
           /\ AllRead(s, n + 1, x, y, F, Append(e, s[n]))
<1>1. /\ ~Taken(s, n) /\ NameRead(s, n, x) /\ OutputRead(s, n, y) /\ FlagsRead(s, n, F)
      /\ NoStray(s, n) /\ ExtraRead(s, n, e)
  BY DEF AllRead
<1>2. /\ ~Takes(s, n) /\ s[n] \in Dashed /\ s[n] \notin Flags
      /\ s[n] \notin Help \cup {"-unknown"}
  BY DEF Takes, Dashed, Flags, Separate, Joined, Help
<1>3. n \in Int /\ n \in Nat \ {0} /\ s[n] \in STRING
  BY LineTyped
<1>4. n \notin Names(s) /\ n \notin Outs(s) /\ n \notin Ats(s, Flags) /\ n \in ForCpp(s)
  BY <1>1, <1>2, ArgumentMeans
<1>5. Names(s) \subseteq Int /\ Outs(s) \subseteq Int /\ Ats(s, Flags) \subseteq Int
  BY LineTyped
<1>6. /\ Skips(Names(s), n, n + 1) /\ Skips(Outs(s), n, n + 1)
      /\ Skips(Ats(s, Flags), n, n + 1)
  BY <1>3, <1>4, <1>5, NextSkips
<1>7. ExtraRead(s, n + 1, Append(e, s[n]))
  BY <1>1, <1>3, <1>4, ExtraOn
<1>8. NoStray(s, n + 1)
  BY <1>1, <1>2, NoStrayOn
<1>9. ~Taken(s, n + 1)
  BY <1>2, <1>3, TakenNext
<1>10. NameRead(s, n + 1, x) /\ OutputRead(s, n + 1, y) /\ FlagsRead(s, n + 1, F)
  BY <1>1, <1>6, SkipReads
<1>11. Len(e) < Cardinality(ForCpp(s))
  <2>1. IsFiniteSet(ForCpp(s)) /\ ForCpp(s) \subseteq Int
    BY LineTyped
  <2>2. Rank(ForCpp(s), n) \in 0 .. (Cardinality(ForCpp(s)) - 1)
    BY <1>4, <2>1, RankBelow
  <2>3. Cardinality(ForCpp(s)) \in Nat /\ Rank(ForCpp(s), n) = Len(e)
    BY <1>1, <2>1, RankRoom DEF ExtraRead
  <2> QED BY <2>2, <2>3
<1> QED BY <1>7, <1>8, <1>9, <1>10, <1>11 DEF AllRead

LEMMA ReadSeparate ==
    ASSUME NEW s, Line(s), NEW n \in DOMAIN s, n < Len(s), s[n] \in Separate,
           NEW x, NEW y, NEW F, NEW e \in Seq(STRING), AllRead(s, n, x, y, F, e)
    PROVE  /\ Len(e) + 2 <= Cardinality(ForCpp(s))
           /\ AllRead(s, n + 2, x, y, F, Append(Append(e, s[n]), s[n + 1]))
<1>1. /\ ~Taken(s, n) /\ NameRead(s, n, x) /\ OutputRead(s, n, y) /\ FlagsRead(s, n, F)
      /\ NoStray(s, n) /\ ExtraRead(s, n, e)
  BY DEF AllRead
<1>2. /\ Takes(s, n) /\ s[n] \in Dashed /\ s[n] \notin Flags
      /\ s[n] # "-o" /\ s[n] \notin Help \cup {"-unknown"}
  BY DEF Takes, Dashed, Flags, Separate, Joined, Help
<1>3. n \in Int /\ n + 1 \in DOMAIN s /\ s[n] \in STRING /\ s[n + 1] \in STRING
  BY LineTyped
<1> PICK m \in DOMAIN s : m = n + 1
  BY <1>3
<1>4. n \notin Names(s) /\ n \notin Outs(s) /\ n \notin Ats(s, Flags) /\ n \in ForCpp(s)
  BY <1>1, <1>2, ArgumentMeans
<1>5. /\ m \notin Names(s) /\ m \notin Outs(s) /\ m \notin Ats(s, Flags) /\ m \in ForCpp(s)
      /\ ~Taken(s, m + 1)
  BY <1>1, <1>2, OperandMeans
<1>6. /\ Names(s) \subseteq Int /\ Outs(s) \subseteq Int /\ Ats(s, Flags) \subseteq Int
      /\ ForCpp(s) \subseteq Int /\ IsFiniteSet(ForCpp(s))
  BY LineTyped
<1>7. /\ Skips(Names(s), n, n + 2) /\ Skips(Outs(s), n, n + 2)
      /\ Skips(Ats(s, Flags), n, n + 2)
  BY <1>3, <1>4, <1>5, <1>6, NextSkips
<1> PICK g \in Seq(STRING) : g = Append(e, s[n])
  BY <1>3, AppendProperties
<1>8. ExtraRead(s, m, g)
  BY <1>1, <1>3, <1>4, ExtraOn
<1>9. ExtraRead(s, m + 1, Append(g, s[m]))
  BY <1>3, <1>5, <1>8, ExtraOn
<1>10. m + 1 = n + 2
  BY <1>3
<1>11. ~Taken(s, n + 2)
  BY <1>5, <1>10
<1>12. NoStray(s, n + 2)
  BY <1>1, <1>2, NoStrayOn
<1>13. NameRead(s, n + 2, x) /\ OutputRead(s, n + 2, y) /\ FlagsRead(s, n + 2, F)
  BY <1>1, <1>7, SkipReads
<1>14. Len(e) + 2 <= Cardinality(ForCpp(s))
  <2>1. Rank(ForCpp(s), m) \in 0 .. (Cardinality(ForCpp(s)) - 1)
    BY <1>5, <1>6, RankBelow
  <2>2. Cardinality(ForCpp(s)) \in Nat /\ Rank(ForCpp(s), m) = Len(g)
    BY <1>6, <1>8, RankRoom DEF ExtraRead
  <2>3. Len(g) = Len(e) + 1 /\ Len(e) \in Nat
    BY <1>3, AppendProperties, LenProperties
  <2> QED BY <2>1, <2>2, <2>3
<1>15. ExtraRead(s, n + 2, Append(Append(e, s[n]), s[n + 1]))
  BY <1>9, <1>10
<1> QED BY <1>11, <1>12, <1>13, <1>14, <1>15 DEF AllRead

LEMMA ReadName ==
    ASSUME NEW s, Line(s), NEW n \in DOMAIN s, s[n] \notin Dashed,
           NEW y, NEW F, NEW e, AllRead(s, n, NoName, y, F, e)
    PROVE  AllRead(s, n + 1, s[n], y, F, e)
<1>1. /\ ~Taken(s, n) /\ NameRead(s, n, NoName) /\ OutputRead(s, n, y) /\ FlagsRead(s, n, F)
      /\ NoStray(s, n) /\ ExtraRead(s, n, e)
  BY DEF AllRead
<1>2. /\ ~Takes(s, n) /\ s[n] \notin Flags /\ s[n] \notin Separate \cup Joined
      /\ s[n] \notin Help \cup {"-unknown"}
  BY DEF Takes, Dashed
<1>3. n \in Int /\ n \in Nat \ {0}
  BY LineTyped
<1>4. n \in Names(s) /\ n \notin Outs(s) /\ n \notin Ats(s, Flags) /\ n \notin ForCpp(s)
  BY <1>1, <1>2, ArgumentMeans
<1>5. Outs(s) \subseteq Int /\ Ats(s, Flags) \subseteq Int /\ ForCpp(s) \subseteq Int
  BY LineTyped
<1>6. /\ Skips(Outs(s), n, n + 1) /\ Skips(Ats(s, Flags), n, n + 1)
      /\ Skips(ForCpp(s), n, n + 1)
  BY <1>3, <1>4, <1>5, NextSkips
<1>7. NameRead(s, n + 1, s[n])
  BY <1>1, <1>4, NameOn
<1>8. NoStray(s, n + 1)
  BY <1>1, <1>2, NoStrayOn
<1>9. ~Taken(s, n + 1)
  BY <1>2, <1>3, TakenNext
<1>10. OutputRead(s, n + 1, y) /\ FlagsRead(s, n + 1, F) /\ ExtraRead(s, n + 1, e)
  BY <1>1, <1>6, SkipReads
<1> QED BY <1>7, <1>8, <1>9, <1>10 DEF AllRead

(***************************************************************************)
(* At the end of the command line all of it has been read.                 *)
(***************************************************************************)
LEMMA LastAt ==
    ASSUME NEW s, NEW S, S \subseteq Int
    PROVE  /\ S = {} => At(s, S) = NoName
           /\ \A k \in S : (\A j \in S : j <= k) => At(s, S) = s[k]
<1>1. ASSUME NEW k \in S, \A j \in S : j <= k PROVE At(s, S) = s[k]
  <2>1. \A l \in S : (\A j \in S : j <= l) => l = k
    BY <1>1
  <2>2. (CHOOSE l \in S : \A j \in S : j <= l) = k
    BY <1>1, <2>1
  <2> QED BY <2>2 DEF At
<1> QED BY <1>1 DEF At

LEMMA AllBefore ==
    ASSUME NEW s, Line(s), NEW n, n = Len(s) + 1
    PROVE  /\ \A k \in DOMAIN s : k < n
           /\ \A k \in Names(s) : k < n
           /\ \A k \in Outs(s) : k < n
           /\ \A S : \A k \in Ats(s, S) : k < n
           /\ \A k \in Dangling(s) : k < n
           /\ \A k \in ForCpp(s) : k < n
<1>1. \A k \in DOMAIN s : k < n
  BY LineTyped
<1>2. \A k \in Operands(s) : k \in DOMAIN s
  BY LineTyped
<1> QED BY <1>1, <1>2 DEF Names, Outs, Ats, Dangling, ForCpp

LEMMA ReadNames ==
    ASSUME NEW s, Line(s), NEW n, n = Len(s) + 1, NEW x, NameRead(s, n, x)
    PROVE  /\ x = NoName => Names(s) = {}
           /\ x # NoName => Names(s) # {} /\ (\A j, k \in Names(s) : j = k)
           /\ x = At(s, Names(s))
<1>1. \A k \in Names(s) : k < n /\ k \in Int /\ s[k] # NoName
  BY AllBefore, LineTyped DEF Line, Names
<1>2. Names(s) \subseteq Int
  BY <1>1
<1>3. CASE x = NoName /\ \A k \in Names(s) : ~(k < n)
  <2>1. Names(s) = {}
    BY <1>1, <1>3
  <2> QED BY <1>2, <1>3, <2>1, LastAt
<1>4. CASE \E k \in Names(s) : k < n /\ x = s[k] /\ \A j \in Names(s) : j < n => j = k
  <2>1. PICK k \in Names(s) : x = s[k] /\ \A j \in Names(s) : j = k
    BY <1>1, <1>4
  <2>2. x # NoName /\ \A j \in Names(s) : j <= k
    BY <1>1, <2>1
  <2> QED BY <1>2, <2>1, <2>2, LastAt
<1> QED BY <1>3, <1>4 DEF NameRead

LEMMA ReadOutputs ==
    ASSUME NEW s, Line(s), NEW n, n = Len(s) + 1, NEW y, OutputRead(s, n, y)
    PROVE  y = At(s, Outs(s))
<1>1. Outs(s) \subseteq Int /\ \A k \in Outs(s) : k < n
  BY AllBefore, LineTyped
<1>2. CASE y = NoName /\ \A k \in Outs(s) : ~(k < n)
  <2>1. Outs(s) = {}
    BY <1>1, <1>2
  <2> QED BY <1>1, <1>2, <2>1, LastAt
<1>3. CASE \E k \in Outs(s) : k < n /\ y = s[k] /\ \A j \in Outs(s) : j < n => j <= k
  BY <1>1, <1>3, LastAt
<1> QED BY <1>2, <1>3 DEF OutputRead

LEMMA ReadFlags ==
    ASSUME NEW s, Line(s), NEW n, n = Len(s) + 1, NEW F, FlagsRead(s, n, F)
    PROVE  F = {s[k] : k \in Ats(s, Flags)}
<1>1. \A k \in Ats(s, Flags) : k < n
  BY AllBefore
<1>2. \A f : f \in F <=> \E k \in Ats(s, Flags) : f = s[k]
  BY <1>1 DEF FlagsRead
<1> QED BY <1>2

LEMMA ReadExtra ==
    ASSUME NEW s, Line(s), NEW n, n = Len(s) + 1,
           NEW e \in Seq(STRING), ExtraRead(s, n, e)
    PROVE  e = [k \in 1 .. Cardinality(ForCpp(s)) |->
                  s[CHOOSE p \in ForCpp(s) :
                       Cardinality({q \in ForCpp(s) : q < p}) = k - 1]]
<1> PICK S : S = ForCpp(s)
  OBVIOUS
<1>1. IsFiniteSet(S) /\ S \subseteq Int /\ \A k \in S : k < n
  BY AllBefore, LineTyped
<1>2. {j \in S : j < n} = S
  BY <1>1
<1>3. Cardinality(S) = Len(e)
  BY <1>2 DEF ExtraRead, Rank
<1>4. \A p \in S : e[Rank(S, p) + 1] = s[p]
  BY <1>1 DEF ExtraRead
<1>5. ASSUME NEW k \in 1 .. Cardinality(S) PROVE e[k] = s[Nth(S, k)]
  <2>1. Cardinality(S) \in Nat /\ Nth(S, k) \in S /\ Rank(S, Nth(S, k)) = k - 1
    BY <1>1, NthElement
  <2>2. (k - 1) + 1 = k
    BY <2>1
  <2> QED BY <1>4, <2>1, <2>2
<1>6. e = [k \in 1 .. Cardinality(S) |-> e[k]]
  BY <1>3, LenProperties
<1>7. e = [k \in 1 .. Cardinality(S) |-> s[Nth(S, k)]]
  BY <1>5, <1>6
<1>8. \A k : Nth(S, k) = CHOOSE p \in S : Cardinality({q \in S : q < p}) = k - 1
  BY Zenon DEF Nth, Rank
<1> QED BY <1>7, <1>8, Zenon

Meant(s, x, y, F, e) ==
    /\ Dangling(s) \cup Ats(s, Help \cup {"-unknown"}) = {}
    /\ x = At(s, Names(s))
    /\ y = At(s, {k \in Operands(s) : s[k - 1] = "-o"})
    /\ F = {s[k] : k \in Ats(s, Flags)}
    /\ e = [k \in 1 .. Cardinality(ForCpp(s)) |->
              s[CHOOSE p \in ForCpp(s) :
                   Cardinality({q \in ForCpp(s) : q < p}) = k - 1]]

LEMMA ReadAll ==
    ASSUME NEW s, Line(s), NEW n, n = Len(s) + 1,
           NEW x, NEW y, NEW F, NEW e \in Seq(STRING), AllRead(s, n, x, y, F, e)
    PROVE  /\ x = NoName => Names(s) = {}
           /\ x # NoName => Names(s) # {} /\ (\A j, k \in Names(s) : j = k)
           /\ Meant(s, x, y, F, e)
<1>1. NameRead(s, n, x) /\ OutputRead(s, n, y) /\ FlagsRead(s, n, F)
      /\ NoStray(s, n) /\ ExtraRead(s, n, e)
  BY DEF AllRead
<1>2. Dangling(s) \cup Ats(s, Help \cup {"-unknown"}) = {}
  BY <1>1, AllBefore DEF NoStray
<1>3. y = At(s, {k \in Operands(s) : s[k - 1] = "-o"})
  BY <1>1, ReadOutputs DEF Outs
<1>4. F = {s[k] : k \in Ats(s, Flags)}
  BY <1>1, ReadFlags
<1>5. /\ x = NoName => Names(s) = {}
      /\ x # NoName => Names(s) # {} /\ (\A j, k \in Names(s) : j = k)
      /\ x = At(s, Names(s))
  BY <1>1, ReadNames
<1>6. e = [k \in 1 .. Cardinality(ForCpp(s)) |->
             s[CHOOSE p \in ForCpp(s) :
                  Cardinality({q \in ForCpp(s) : q < p}) = k - 1]]
  BY <1>1, ReadExtra
<1>7. Meant(s, x, y, F, e)
  BY <1>2, <1>3, <1>4, <1>5, <1>6, Zenon DEF Meant
<1> QED BY <1>5, <1>7

-----------------------------------------------------------------------------
(* The loop has read the arguments before i as they are meant.             *)
Scanned ==
    /\ argv \in Argvs
    /\ ~Full(argv) /\ result = "parsing" => AllRead(argv, i, input, output, flags, extra)

LEMMA InitScanned == Init => Scanned
<1> SUFFICES ASSUME Init PROVE AllRead(argv, 1, NoName, NoName, {}, <<>>)
  BY DEF Init, Scanned
<1> PICK s : s = argv
  OBVIOUS
<1>1. Line(s)
  BY ArgsAssumption DEF Init, Line
<1>2. \A k \in DOMAIN s : ~(k < 1)
  BY <1>1, LineTyped
<1>3. \A k \in Operands(s) : k \in DOMAIN s
  BY <1>1, LineTyped
<1>4. /\ \A k \in Names(s) : ~(k < 1)
      /\ \A k \in Outs(s) : ~(k < 1)
      /\ \A S : \A k \in Ats(s, S) : ~(k < 1)
      /\ \A k \in Dangling(s) : ~(k < 1)
      /\ \A k \in ForCpp(s) : ~(k < 1)
  BY <1>2, <1>3 DEF Names, Outs, Ats, Dangling, ForCpp
<1>5. ~Taken(s, 1)
  BY TakenNext
<1>6. NameRead(s, 1, NoName) /\ OutputRead(s, 1, NoName)
  BY <1>4 DEF NameRead, OutputRead
<1>7. FlagsRead(s, 1, {}) /\ NoStray(s, 1)
  BY <1>4 DEF FlagsRead, NoStray
<1>8. ExtraRead(s, 1, <<>>)
  <2>1. {j \in ForCpp(s) : j < 1} = {}
    BY <1>4
  <2>2. Rank(ForCpp(s), 1) = 0
    BY <2>1, FS_EmptySet DEF Rank
  <2>3. Len(<<>>) = 0
    OBVIOUS
  <2> QED BY <1>4, <2>2, <2>3 DEF ExtraRead
<1> QED BY <1>5, <1>6, <1>7, <1>8 DEF AllRead

LEMMA ScannedStep == TypeOK /\ Scanned /\ [Next]_vars => Scanned'
<1> SUFFICES ASSUME TypeOK, Scanned, [Next]_vars PROVE Scanned'
  OBVIOUS
<1>1. argv' = argv
  BY DEF Next, Output, Flag, SeparateOption, JoinedOption, HelpOption, Unknown,
         Input, Finish, vars
<1> PICK s : s = argv
  OBVIOUS
<1> PICK n : n = i
  OBVIOUS
<1> PICK x : x = input
  OBVIOUS
<1> PICK y : y = output
  OBVIOUS
<1> PICK F : F = flags
  OBVIOUS
<1> PICK e \in Seq(STRING) : e = extra
  BY DEF TypeOK
<1>2. s \in Argvs /\ Line(s)
  BY ArgsAssumption DEF Scanned, Line
<1> SUFFICES ASSUME ~Full(s), result' = "parsing"
             PROVE  AllRead(s, i', input', output', flags', extra')
  BY <1>1, <1>2 DEF Scanned
<1>3. CASE UNCHANGED vars
  BY <1>3 DEF vars, Scanned
<1>4. CASE result # "parsing"
  BY <1>3, <1>4 DEF Next, Output, Flag, SeparateOption, JoinedOption, HelpOption,
                    Unknown, Input, Finish, Looking
<1>5. ASSUME result = "parsing", Next
      PROVE  AllRead(s, i', input', output', flags', extra')
  <2>1. AllRead(s, n, x, y, F, e)
    BY <1>5 DEF Scanned
  <2>2. Looking => n \in DOMAIN s /\ a = s[n] /\ (HasNext <=> n < Len(s))
    BY <1>2, LineTyped DEF Looking, TypeOK, a, HasNext
  <2>3. Len(e) \in Nat /\ Cardinality(ForCpp(s)) \in Nat /\ ExtraCap \in Nat
        /\ Cardinality(ForCpp(s)) + 2 < ExtraCap
    <3>1. IsFiniteSet(ForCpp(s)) /\ Len(e) \in Nat
      BY <1>2, LineTyped, LenProperties
    <3>2. Cardinality(ForCpp(s)) \in Nat
      BY <3>1, FS_CardinalityType
    <3> QED BY <3>1, <3>2, ArgsAssumption DEF Full
  <2>4. CASE Output
    <3>1. n \in DOMAIN s /\ n < Len(s) /\ s[n] = "-o"
      BY <2>2, <2>4 DEF Output
    <3>2. AllRead(s, n + 2, x, s[n + 1], F, e)
      BY <1>2, <2>1, <3>1, ReadOutput
    <3> QED BY <2>4, <3>2 DEF Output
  <2>5. CASE Flag
    <3>1. n \in DOMAIN s /\ s[n] \in Flags /\ flags' = F \cup {s[n]}
      BY <2>2, <2>5 DEF Flag
    <3>2. AllRead(s, n + 1, x, y, F \cup {s[n]}, e)
      BY <1>2, <2>1, <3>1, ReadFlag
    <3> QED BY <2>5, <3>1, <3>2 DEF Flag
  <2>6. CASE SeparateOption
    <3>1. n \in DOMAIN s /\ n < Len(s) /\ s[n] \in Separate
      BY <2>2, <2>6 DEF SeparateOption
    <3>2. /\ Len(e) + 2 <= Cardinality(ForCpp(s))
          /\ AllRead(s, n + 2, x, y, F, Append(Append(e, s[n]), s[n + 1]))
      BY <1>2, <2>1, <3>1, ReadSeparate
    <3>3. Len(extra) + 2 < ExtraCap
      BY <2>3, <3>2
    <3>4. extra' = e \o <<s[n], s[n + 1]>> /\ i' = n + 2
      BY <2>2, <2>6, <3>3 DEF SeparateOption, Looking
    <3>5. s[n] \in STRING /\ s[n + 1] \in STRING
      BY <1>2, <3>1, LineTyped
    <3>6. OneByOne(e, s[n], s[n + 1])
      BY <3>5, PairIsTwo
    <3>7. extra' = Append(Append(e, s[n]), s[n + 1])
      BY <3>4, <3>6, Zenon DEF OneByOne
    <3> QED BY <2>6, <3>2, <3>4, <3>7 DEF SeparateOption
  <2>7. CASE JoinedOption
    <3>1. n \in DOMAIN s /\ s[n] \in Joined
      BY <2>2, <2>7 DEF JoinedOption
    <3>2. /\ Len(e) < Cardinality(ForCpp(s))
          /\ AllRead(s, n + 1, x, y, F, Append(e, s[n]))
      BY <1>2, <2>1, <3>1, ReadJoined
    <3>3. Len(extra) < ExtraCap
      BY <2>3, <3>2
    <3>4. extra' = Append(e, s[n])
      BY <2>2, <2>7, <3>3 DEF JoinedOption, Looking
    <3> QED BY <2>7, <3>2, <3>4 DEF JoinedOption
  <2>8. CASE Input
    <3>1. n \in DOMAIN s /\ s[n] \notin Dashed /\ x = NoName /\ input' = s[n] /\ i' = n + 1
      BY <2>2, <2>8 DEF Input
    <3>2. AllRead(s, n + 1, s[n], y, F, e)
      BY <1>2, <2>1, <3>1, ReadName
    <3> QED BY <2>8, <3>1, <3>2 DEF Input
  <2>9. CASE HelpOption \/ Unknown \/ Finish
    BY <2>9 DEF HelpOption, Unknown, Finish
  <2> QED BY <1>5, <2>4, <2>5, <2>6, <2>7, <2>8, <2>9 DEF Next
<1> QED BY <1>3, <1>4, <1>5

(* Where the loop ends, it has seen why.                                   *)
LEMMA MeantStep == TypeOK /\ Scanned /\ ReadAsMeant /\ [Next]_vars => ReadAsMeant'
<1> SUFFICES ASSUME TypeOK, Scanned, ReadAsMeant, [Next]_vars PROVE ReadAsMeant'
  OBVIOUS
<1>1. argv' = argv
  BY DEF Next, Output, Flag, SeparateOption, JoinedOption, HelpOption, Unknown,
         Input, Finish, vars
<1>2. CASE UNCHANGED vars
  BY ZenonT(60), <1>2 DEF vars, ReadAsMeant
<1>3. CASE result # "parsing"
  BY <1>2, <1>3 DEF Next, Output, Flag, SeparateOption, JoinedOption, HelpOption,
                    Unknown, Input, Finish, Looking
<1>4. CASE result' = "parsing"
  BY <1>4 DEF ReadAsMeant
<1>5. ASSUME result = "parsing", Next, result' # "parsing", ~Full(argv)
      PROVE  /\ result' = "run" =>
                  /\ Names(argv) # {} /\ \A j, k \in Names(argv) : j = k
                  /\ Dangling(argv) \cup Ats(argv, Help \cup {"-unknown"}) = {}
                  /\ input' = At(argv, Names(argv))
                  /\ output' = At(argv, {k \in Operands(argv) : argv[k - 1] = "-o"})
                  /\ flags' = {argv[k] : k \in Ats(argv, Flags)}
                  /\ extra' = [k \in 1 .. Cardinality(ForCpp(argv)) |->
                        argv[CHOOSE p \in ForCpp(argv) :
                                Cardinality({q \in ForCpp(argv) : q < p}) = k - 1]]
             /\ result' = "error" =>
                  \/ \A j \in Names(argv) : \E k \in Names(argv) : k # j
                  \/ Dangling(argv) \cup Ats(argv, {"-unknown"}) # {}
             /\ result' = "ok" => Ats(argv, Help) # {}
  <2> PICK s : s = argv
    OBVIOUS
  <2> PICK n : n = i
    OBVIOUS
  <2> PICK x : x = input
    OBVIOUS
  <2> PICK y : y = output
    OBVIOUS
  <2> PICK F : F = flags
    OBVIOUS
  <2> PICK e \in Seq(STRING) : e = extra
    BY DEF TypeOK
  <2>1. Line(s)
    BY ArgsAssumption DEF Scanned, Line
  <2>2. AllRead(s, n, x, y, F, e)
    BY <1>5 DEF Scanned
  <2>3. Looking => n \in DOMAIN s /\ a = s[n] /\ (HasNext <=> n < Len(s))
    BY <2>1, LineTyped DEF Looking, TypeOK, a, HasNext
  <2>4. ~Taken(s, n) /\ NameRead(s, n, x)
    BY <2>2 DEF AllRead
  <2>5. CASE HelpOption
    <3>1. n \in DOMAIN s /\ s[n] \in Help /\ result' = "ok"
      BY <2>3, <2>5 DEF HelpOption
    <3>2. n \in Ats(s, Help)
      BY <2>1, <2>4, <3>1, ArgumentMeans
    <3> QED BY <3>1, <3>2
  <2>6. CASE Unknown
    <3>1. n \in DOMAIN s /\ result' = "error"
          /\ (s[n] = "-unknown" \/ (Takes(s, n) /\ ~(n < Len(s))))
      BY <2>3, <2>6 DEF Unknown, Takes
    <3>2. n \in Nat /\ n <= Len(s) /\ Len(s) \in Nat
      BY <2>1, <3>1, LineTyped
    <3>3. n \in Dangling(s) \cup Ats(s, {"-unknown"})
      BY <2>1, <2>4, <3>1, <3>2, ArgumentMeans
    <3> QED BY <3>1, <3>3
  <2>7. CASE Input
    <3>1. n \in DOMAIN s /\ s[n] \notin Dashed /\ x # NoName /\ result' = "error"
      BY <1>5, <2>3, <2>7 DEF Input
    <3>2. n \in Names(s) /\ n \in Nat
      BY <2>1, <2>4, <3>1, ArgumentMeans, LineTyped
    <3>3. PICK k \in Names(s) : k < n
      BY <2>4, <3>1 DEF NameRead
    <3>4. k # n
      BY <3>2, <3>3
    <3> QED BY <3>1, <3>2, <3>4
  <2>8. CASE Finish
    <3>1. n = Len(s) + 1
      BY <2>1, <2>8, LineTyped DEF Finish, TypeOK
    <3>2. input' = x /\ output' = y /\ flags' = F /\ extra' = e
      BY <2>8 DEF Finish
    <3>3. result' = IF x = NoName THEN "error" ELSE "run"
      BY <2>8 DEF Finish
    <3>4. /\ x = NoName => Names(s) = {}
          /\ x # NoName => Names(s) # {} /\ (\A j, k \in Names(s) : j = k)
          /\ Meant(s, x, y, F, e)
      BY <2>1, <2>2, <3>1, ReadAll
    <3>5. CASE x = NoName
      BY <3>3, <3>4, <3>5
    <3>6. CASE x # NoName
      <4>1. /\ Names(argv) # {} /\ (\A j, k \in Names(argv) : j = k)
            /\ Meant(argv, input', output', flags', extra')
        BY <3>2, <3>4, <3>6
      <4>2. result' # "error" /\ result' # "ok"
        BY <3>3, <3>6
      <4> QED BY <4>1, <4>2, Zenon DEF Meant
    <3> QED BY <3>5, <3>6
  <2>9. CASE Output \/ Flag \/ SeparateOption \/ JoinedOption
    BY <1>5, <2>9 DEF Output, Flag, SeparateOption, JoinedOption
  <2> QED BY <1>5, <2>5, <2>6, <2>7, <2>8, <2>9 DEF Next
<1> QED BY ZenonT(60), <1>1, <1>2, <1>3, <1>4, <1>5 DEF ReadAsMeant

(* Every command line whose options for the preprocessor fit is taken for  *)
(* what it means by a reading without a scan, however long it is: run on   *)
(* its one input, its last -o, its flags and its options in their order,   *)
(* or refused for a reason it gives (driver.c:253-294).                    *)
THEOREM LinesReadAsMeant == Spec => []ReadAsMeant
<1>1. Init => ReadAsMeant
  BY DEF Init, ReadAsMeant
<1> QED BY <1>1, InitTyped, StepTyped, InitScanned, ScannedStep, MeantStep, PTL DEF Spec

=============================================================================
