--------------------------- MODULE QbeStmtProofs ---------------------------
(***************************************************************************)
(* Theorems about QbeStmt: for every set of function bodies, the emitter   *)
(* keeps its types, every jump it prints resolves but for the gaps that    *)
(* KnownGap names, qbe_ctx is what break and continue can leave, no label  *)
(* is printed twice, and what is printed is a list of blocks.              *)
(***************************************************************************)
EXTENDS QbeStmt, SetsAndLists, SequenceTheorems

-----------------------------------------------------------------------------
(* Lines and the labels they print and name.                               *)

LEMMA LabelsMember ==
    ASSUME NEW s, NEW l
    PROVE  /\ l \in Labels(s) <=> \E i \in DOMAIN s : s[i].op = "lab" /\ l \in s[i].ls
           /\ l \in Targets(s) <=> \E i \in DOMAIN s : s[i].op = "jmp" /\ l \in s[i].ls
BY DEF Labels, Targets

LEMMA LabelsConcat ==
    ASSUME NEW s \in Seq(Line), NEW t \in Seq(Line)
    PROVE  /\ s \o t \in Seq(Line)
           /\ Labels(s \o t) = Labels(s) \cup Labels(t)
           /\ Targets(s \o t) = Targets(s) \cup Targets(t)
<1>1. s \o t \in Seq(Line)
  OBVIOUS
<1>2. \A i \in DOMAIN s : i \in DOMAIN (s \o t) /\ (s \o t)[i] = s[i]
  OBVIOUS
<1>3. \A i \in DOMAIN t : Len(s) + i \in DOMAIN (s \o t) /\ (s \o t)[Len(s) + i] = t[i]
  OBVIOUS
<1>4. ASSUME NEW i \in DOMAIN (s \o t)
      PROVE  \/ i \in DOMAIN s /\ (s \o t)[i] = s[i]
             \/ i - Len(s) \in DOMAIN t /\ (s \o t)[i] = t[i - Len(s)]
  OBVIOUS
<1>5. Labels(s \o t) = Labels(s) \cup Labels(t)
  <2>1. ASSUME NEW l \in Labels(s \o t) PROVE l \in Labels(s) \cup Labels(t)
    <3>1. PICK i \in DOMAIN (s \o t) : (s \o t)[i].op = "lab" /\ l \in (s \o t)[i].ls
      BY <2>1, LabelsMember
    <3> QED
      BY <3>1, <1>4, LabelsMember
  <2>2. ASSUME NEW l \in Labels(s) PROVE l \in Labels(s \o t)
    <3>1. PICK i \in DOMAIN s : s[i].op = "lab" /\ l \in s[i].ls
      BY <2>2, LabelsMember
    <3> QED
      BY <3>1, <1>2, LabelsMember
  <2>3. ASSUME NEW l \in Labels(t) PROVE l \in Labels(s \o t)
    <3>1. PICK i \in DOMAIN t : t[i].op = "lab" /\ l \in t[i].ls
      BY <2>3, LabelsMember
    <3> QED
      BY <3>1, <1>3, LabelsMember
  <2> QED
    BY <2>1, <2>2, <2>3
<1>6. Targets(s \o t) = Targets(s) \cup Targets(t)
  <2>1. ASSUME NEW l \in Targets(s \o t) PROVE l \in Targets(s) \cup Targets(t)
    <3>1. PICK i \in DOMAIN (s \o t) : (s \o t)[i].op = "jmp" /\ l \in (s \o t)[i].ls
      BY <2>1, LabelsMember
    <3> QED
      BY <3>1, <1>4, LabelsMember
  <2>2. ASSUME NEW l \in Targets(s) PROVE l \in Targets(s \o t)
    <3>1. PICK i \in DOMAIN s : s[i].op = "jmp" /\ l \in s[i].ls
      BY <2>2, LabelsMember
    <3> QED
      BY <3>1, <1>2, LabelsMember
  <2>3. ASSUME NEW l \in Targets(t) PROVE l \in Targets(s \o t)
    <3>1. PICK i \in DOMAIN t : t[i].op = "jmp" /\ l \in t[i].ls
      BY <2>3, LabelsMember
    <3> QED
      BY <3>1, <1>3, LabelsMember
  <2> QED
    BY <2>1, <2>2, <2>3
<1> QED
  BY <1>1, <1>5, <1>6

LEMMA LabelsOne ==
    ASSUME NEW x \in Line
    PROVE  /\ <<x>> \in Seq(Line)
           /\ Labels(<<x>>) = IF x.op = "lab" THEN x.ls ELSE {}
           /\ Targets(<<x>>) = IF x.op = "jmp" THEN x.ls ELSE {}
BY DEF Labels, Targets

LEMMA LabelsNone ==
    <<>> \in Seq(Line) /\ Labels(<<>>) = {} /\ Targets(<<>>) = {}
BY DEF Labels, Targets

LEMMA LabelsTwo ==
    ASSUME NEW x \in Line, NEW y \in Line
    PROVE  /\ <<x, y>> \in Seq(Line)
           /\ Labels(<<x, y>>) = Labels(<<x>>) \cup Labels(<<y>>)
           /\ Targets(<<x, y>>) = Targets(<<x>>) \cup Targets(<<y>>)
<1> DEFINE s == <<x, y>>
<1>1. s \in Seq(Line) /\ DOMAIN s = {1, 2} /\ s[1] = x /\ s[2] = y
  OBVIOUS
<1>2. Labels(s) = Labels(<<x>>) \cup Labels(<<y>>)
  BY <1>1, LabelsMember, LabelsOne
<1>3. Targets(s) = Targets(<<x>>) \cup Targets(<<y>>)
  BY <1>1, LabelsMember, LabelsOne
<1> QED
  BY <1>1, <1>2, <1>3

LEMMA LineTypes ==
    ASSUME NEW l \in LabelType, NEW m \in LabelType
    PROVE  /\ Ins \in Line /\ Ret \in Line /\ Lab(l) \in Line /\ Jmp(l) \in Line
           /\ Jnz(l, m) \in Line
           /\ Labels(<<Ins>>) = {} /\ Labels(<<Ret>>) = {} /\ Labels(<<Lab(l)>>) = {l}
           /\ Labels(<<Jmp(l)>>) = {} /\ Labels(<<Jnz(l, m)>>) = {}
           /\ Targets(<<Ins>>) = {} /\ Targets(<<Ret>>) = {} /\ Targets(<<Lab(l)>>) = {}
           /\ Targets(<<Jmp(l)>>) = {l} /\ Targets(<<Jnz(l, m)>>) = {l, m}
<1>1. Ins \in Line /\ Ret \in Line
  BY DEF Ins, Ret, Line
<1>2. Lab(l) \in Line /\ Jmp(l) \in Line
  BY DEF Lab, Jmp, Line
<1>3. Jnz(l, m) \in Line
  BY DEF Jnz, Line
<1>4. /\ Labels(<<Ins>>) = {} /\ Labels(<<Ret>>) = {}
      /\ Targets(<<Ins>>) = {} /\ Targets(<<Ret>>) = {}
  BY <1>1, LabelsOne DEF Ins, Ret
<1>5. Labels(<<Lab(l)>>) = {l} /\ Targets(<<Lab(l)>>) = {}
  BY <1>2, LabelsOne DEF Lab
<1>6. Labels(<<Jmp(l)>>) = {} /\ Targets(<<Jmp(l)>>) = {l}
  BY <1>2, LabelsOne DEF Jmp
<1>7. Labels(<<Jnz(l, m)>>) = {} /\ Targets(<<Jnz(l, m)>>) = {l, m}
  BY <1>3, LabelsOne DEF Jnz
<1> QED
  BY <1>1, <1>2, <1>3, <1>4, <1>5, <1>6, <1>7

(* What an expression prints is closed under its own jumps.                *)
LEMMA ExprLines ==
    ASSUME NEW e \in Shapes, NEW t \in Nat
    PROVE  /\ qbe_expr_val(e, t) \in Seq(Line)
           /\ Targets(qbe_expr_val(e, t)) \subseteq Labels(qbe_expr_val(e, t))
           /\ Tmps(e) \in Nat
<1>1. \A k \in {"sc_rhs", "sc_end", "cond_then", "cond_else", "cond_end"} :
          L(k, t) \in LabelType /\ L(k, t + 1) \in LabelType
  BY DEF L, LabelType, LabelKinds
<1>2. Tmps(e) \in Nat
  BY DEF Tmps, Shapes
<1>3. CASE e = "andor"
  <2> DEFINE s == qbe_short_circuit(t)
  <2>1. s \in Seq(Line)
    <3>1. L("sc_rhs", t) \in LabelType /\ L("sc_end", t) \in LabelType
      BY <1>1
    <3>2. /\ Ins \in Line /\ Jnz(L("sc_rhs", t), L("sc_end", t)) \in Line
          /\ Lab(L("sc_rhs", t)) \in Line /\ Lab(L("sc_end", t)) \in Line
      BY <3>1, LineTypes
    <3> QED
      BY <3>2 DEF qbe_short_circuit
  <2>2. DOMAIN s = 1 .. 8
    BY DEF qbe_short_circuit
  <2>3. ASSUME NEW l \in Targets(s) PROVE l \in Labels(s)
    <3>1. PICK i \in 1 .. 8 : s[i].op = "jmp" /\ l \in s[i].ls
      BY <2>2, <2>3, LabelsMember
    <3>2. l \in {L("sc_rhs", t), L("sc_end", t)}
      BY <3>1 DEF qbe_short_circuit, Ins, Lab, Jnz
    <3>3. s[4] = Lab(L("sc_rhs", t)) /\ s[8] = Lab(L("sc_end", t))
      BY DEF qbe_short_circuit
    <3> QED
      BY <2>2, <3>2, <3>3, LabelsMember DEF Lab
  <2> QED
    BY <1>2, <1>3, <2>1, <2>3 DEF qbe_expr_val
<1>4. CASE e = "cond"
  <2> DEFINE s == qbe_conditional(t)
  <2>1. s \in Seq(Line)
    <3>1. /\ L("cond_then", t + 1) \in LabelType
          /\ L("cond_else", t + 1) \in LabelType
          /\ L("cond_end", t + 1) \in LabelType
      BY <1>1
    <3>2. /\ Ins \in Line
          /\ Jnz(L("cond_then", t + 1), L("cond_else", t + 1)) \in Line
          /\ Jmp(L("cond_end", t + 1)) \in Line
          /\ Lab(L("cond_then", t + 1)) \in Line
          /\ Lab(L("cond_else", t + 1)) \in Line
          /\ Lab(L("cond_end", t + 1)) \in Line
      BY <3>1, LineTypes
    <3> QED
      BY <3>2 DEF qbe_conditional
  <2>2. DOMAIN s = 1 .. 10
    BY DEF qbe_conditional
  <2>3. ASSUME NEW l \in Targets(s) PROVE l \in Labels(s)
    <3>1. PICK i \in 1 .. 10 : s[i].op = "jmp" /\ l \in s[i].ls
      BY <2>2, <2>3, LabelsMember
    <3>2. l \in {L("cond_then", t + 1), L("cond_else", t + 1), L("cond_end", t + 1)}
      BY <3>1 DEF qbe_conditional, Ins, Lab, Jnz, Jmp
    <3>3. /\ s[3] = Lab(L("cond_then", t + 1))
          /\ s[7] = Lab(L("cond_else", t + 1))
          /\ s[10] = Lab(L("cond_end", t + 1))
      BY DEF qbe_conditional
    <3> QED
      BY <2>2, <3>2, <3>3, LabelsMember DEF Lab
  <2> QED
    BY <1>2, <1>4, <2>1, <2>3 DEF qbe_expr_val
<1>5. CASE e \notin {"andor", "cond"}
  <2>1. L("start", 0) \in LabelType
    BY DEF L, LabelType, LabelKinds
  <2> QED
    BY <1>2, <1>5, <2>1, LabelsNone, LabelsOne, LineTypes DEF qbe_expr_val
<1> QED
  BY <1>3, <1>4, <1>5

(* Lines that print the labels Y and whose jumps go to labels among them   *)
(* or to X.                                                                *)
Closed(s, X, Y) ==
    s \in Seq(Line) /\ Targets(s) \subseteq Labels(s) \cup X /\ Y \subseteq Labels(s)

LEMMA LTypes ==
    ASSUME NEW k \in LabelKinds, NEW id \in Nat
    PROVE  L(k, id) \in LabelType
BY DEF L, LabelType

LEMMA ClosedIns == Closed(<<>>, {}, {}) /\ Closed(<<Ins>>, {}, {}) /\ Closed(<<Ret>>, {}, {})
<1>1. L("start", 0) \in LabelType
  BY LTypes DEF LabelKinds
<1> QED
  BY <1>1, LabelsNone, LabelsOne, LineTypes DEF Closed

LEMMA ClosedOne ==
    ASSUME NEW l \in LabelType, NEW m \in LabelType
    PROVE  /\ Closed(<<Lab(l)>>, {}, {l})
           /\ Closed(<<Jmp(l)>>, {l}, {})
           /\ Closed(<<Jnz(l, m)>>, {l, m}, {})
BY LabelsOne, LineTypes DEF Closed

LEMMA ClosedExpr ==
    ASSUME NEW e \in Shapes, NEW t \in Nat
    PROVE  Closed(qbe_expr_val(e, t), {}, {})
BY ExprLines DEF Closed

LEMMA ClosedConcat ==
    ASSUME NEW s, NEW t, NEW X, NEW Y, NEW V, NEW W, Closed(s, X, Y), Closed(t, V, W)
    PROVE  Closed(s \o t, X \cup V, Y \cup W)
BY LabelsConcat DEF Closed

LEMMA ClosedTwo ==
    ASSUME NEW x \in Line, NEW y \in Line, NEW X, NEW Y, NEW V, NEW W,
           Closed(<<x>>, X, Y), Closed(<<y>>, V, W)
    PROVE  Closed(<<x, y>>, X \cup V, Y \cup W)
BY ZenonT(60), LabelsTwo DEF Closed

LEMMA ClosedJnzLab ==
    ASSUME NEW l \in LabelType, NEW m \in LabelType
    PROVE  /\ Closed(<<Jnz(l, m), Lab(l)>>, {m}, {l})
           /\ Closed(<<Jnz(l, m), Lab(m)>>, {l}, {m})
           /\ Closed(<<Jmp(l), Lab(m)>>, {l}, {m})
<1>1. /\ Jnz(l, m) \in Line /\ Lab(l) \in Line /\ Lab(m) \in Line
      /\ Jmp(l) \in Line
  BY LineTypes
<1>2. /\ Closed(<<Lab(l)>>, {}, {l}) /\ Closed(<<Lab(m)>>, {}, {m})
      /\ Closed(<<Jmp(l)>>, {l}, {}) /\ Closed(<<Jnz(l, m)>>, {l, m}, {})
  BY ClosedOne
<1> DEFINE j == Jnz(l, m)
           x == Lab(l)
           y == Lab(m)
           z == Jmp(l)
<1> HIDE DEF j, x, y, z
<1>3. /\ j \in Line /\ x \in Line /\ y \in Line /\ z \in Line
      /\ Closed(<<x>>, {}, {l}) /\ Closed(<<y>>, {}, {m})
      /\ Closed(<<z>>, {l}, {}) /\ Closed(<<j>>, {l, m}, {})
  BY <1>1, <1>2 DEF j, x, y, z
<1>4. Closed(<<j, x>>, {m}, {l})
  <2>1. /\ <<j, x>> \in Seq(Line)
        /\ Labels(<<j, x>>) = Labels(<<j>>) \cup Labels(<<x>>)
        /\ Targets(<<j, x>>) = Targets(<<j>>) \cup Targets(<<x>>)
    BY <1>3, LabelsTwo
  <2> QED
    BY <1>3, <2>1 DEF Closed
<1>5. Closed(<<j, y>>, {l}, {m})
  <2>1. /\ <<j, y>> \in Seq(Line)
        /\ Labels(<<j, y>>) = Labels(<<j>>) \cup Labels(<<y>>)
        /\ Targets(<<j, y>>) = Targets(<<j>>) \cup Targets(<<y>>)
    BY <1>3, LabelsTwo
  <2> QED
    BY <1>3, <2>1 DEF Closed
<1>6. Closed(<<z, y>>, {l}, {m})
  <2>1. /\ <<z, y>> \in Seq(Line)
        /\ Labels(<<z, y>>) = Labels(<<z>>) \cup Labels(<<y>>)
        /\ Targets(<<z, y>>) = Targets(<<z>>) \cup Targets(<<y>>)
    BY <1>3, LabelsTwo
  <2> QED
    BY <1>3, <2>1 DEF Closed
<1> QED
  BY <1>4, <1>5, <1>6 DEF j, x, y, z

-----------------------------------------------------------------------------
(* Stacks of frames.                                                       *)

LEMMA PopStack ==
    ASSUME NEW S, NEW s \in Seq(S), Len(s) > 0
    PROVE  /\ Pop(s) \in Seq(S)
           /\ Len(Pop(s)) = Len(s) - 1
           /\ DOMAIN Pop(s) = 1 .. (Len(s) - 1)
           /\ \A i \in 1 .. (Len(s) - 1) : Pop(s)[i] = s[i]
<1>1. PICK n \in Nat : n = Len(s) - 1
  OBVIOUS
<1>2. 1 \in Int /\ n \in Int /\ \A i \in 1 .. n : s[i] \in S
  BY <1>1
<1>3. /\ SubSeq(s, 1, n) \in Seq(S)
      /\ Len(SubSeq(s, 1, n)) = IF 1 <= n THEN n - 1 + 1 ELSE 0
      /\ \A i \in 1 .. (n - 1 + 1) : SubSeq(s, 1, n)[i] = s[1 + i - 1]
  BY <1>2, SubSeqProperties
<1>4. Len(SubSeq(s, 1, n)) = n /\ \A i \in 1 .. n : SubSeq(s, 1, n)[i] = s[i]
  BY <1>1, <1>3
<1> QED
  BY <1>1, <1>3, <1>4 DEF Pop

LEMMA PushStack ==
    ASSUME NEW S, NEW s \in Seq(S), NEW e \in S
    PROVE  /\ Append(s, e) \in Seq(S)
           /\ Len(Append(s, e)) = Len(s) + 1
           /\ DOMAIN Append(s, e) = 1 .. (Len(s) + 1)
           /\ Append(s, e)[Len(s) + 1] = e
           /\ \A i \in 1 .. Len(s) : Append(s, e)[i] = s[i]
OBVIOUS

(* The three ways an action changes the innermost frame.                   *)
LEMMA TopStack ==
    ASSUME NEW s \in Seq(FrameType), s # <<>>, NEW f \in FrameType,
           NEW r, r = [s EXCEPT ![Len(s)] = f]
    PROVE  /\ r \in Seq(FrameType) /\ Len(r) = Len(s) /\ DOMAIN r = DOMAIN s
           /\ Len(s) \in DOMAIN s /\ r[Len(s)] = f
           /\ \A i \in DOMAIN s : i # Len(s) => r[i] = s[i]
OBVIOUS

LEMMA SawStack ==
    ASSUME stack \in Seq(FrameType), stack # <<>>, NEW m \in Nat
    PROVE  /\ Saw(m) = [stack EXCEPT ![Len(stack)] = [Top EXCEPT !.seen = m]]
           /\ Top \in FrameType /\ [Top EXCEPT !.seen = m] \in FrameType
<1>1. Top \in FrameType
  BY DEF Top
<1>2. [Top EXCEPT !.seen = m] \in FrameType
  BY <1>1 DEF FrameType
<1>3. Saw(m) = [stack EXCEPT ![Len(stack)] = [Top EXCEPT !.seen = m]]
  BY DEF Saw, Top
<1> QED
  BY <1>1, <1>2, <1>3

-----------------------------------------------------------------------------
(* Types.                                                                  *)

TypeInv ==
    /\ TypeOK
    /\ status # "idle" => ast \in Asts
    /\ status \in {"idle", "done"} => stack = <<>>

LEMMA BodyFacts ==
    ASSUME TypeInv, status = "emit"
    PROVE  /\ Body(ast) /\ Nodes(ast) \subseteq Nat /\ 1 \in Nodes(ast)
           /\ \A m \in Nodes(ast) : /\ ast.kind[m] \in Kinds
                                    /\ ast.ex[m] \in Shapes
                                    /\ ast.init[m] \in Shapes
                                    /\ ast.post[m] \in Shapes
<1>1. Body(ast)
  BY QbeAssumption DEF TypeInv
<1> QED
  BY <1>1 DEF Body, Nodes

LEMMA VisitFacts ==
    ASSUME TypeInv, NEW m \in Nodes(ast), Visit(m)
    PROVE  /\ m \in Nat /\ Len(stack) \in DOMAIN stack
           /\ Top \in FrameType /\ Top.node \in Nodes(ast)
           /\ Saw(m) \in Seq(FrameType) /\ DOMAIN Saw(m) = DOMAIN stack
           /\ Len(Saw(m)) = Len(stack)
           /\ \A i \in DOMAIN stack : Saw(m)[i].node = stack[i].node
<1>1. m \in Nat /\ stack \in Seq(FrameType) /\ stack # <<>>
  BY BodyFacts DEF TypeInv, TypeOK, Visit
<1>2. /\ Saw(m) = [stack EXCEPT ![Len(stack)] = [Top EXCEPT !.seen = m]]
      /\ Top \in FrameType /\ [Top EXCEPT !.seen = m] \in FrameType
  BY <1>1, SawStack
<1>3. /\ Saw(m) \in Seq(FrameType) /\ DOMAIN Saw(m) = DOMAIN stack
      /\ Len(Saw(m)) = Len(stack) /\ Len(stack) \in DOMAIN stack
      /\ Saw(m)[Len(stack)] = [Top EXCEPT !.seen = m]
      /\ \A i \in DOMAIN stack : i # Len(stack) => Saw(m)[i] = stack[i]
  BY <1>1, <1>2, TopStack
<1>4. [Top EXCEPT !.seen = m].node = Top.node
  BY <1>2 DEF FrameType
<1> QED
  BY <1>1, <1>2, <1>3, <1>4 DEF Top, TypeInv, TypeOK

LEMMA EmitType ==
    ASSUME TypeInv, NEW lines \in Seq(Line), NEW n \in Nat, Emit(lines, n)
    PROVE  out' \in Seq(Line) /\ tmp' \in Nat
BY LabelsConcat DEF TypeInv, TypeOK, Emit

LEMMA LeafType ==
    ASSUME TypeInv, NEW m \in Nodes(ast), Visit(m),
           NEW lines \in Seq(Line), NEW n \in Nat, Leaf(m, lines, n),
           ctx' = ctx, labels' \in Seq(KeyType), Len(labels') <= LabelCap
    PROVE  TypeInv'
<1>1. out' \in Seq(Line) /\ tmp' \in Nat
  BY EmitType DEF Leaf
<1>2. stack' \in Seq(FrameType) /\ \A i \in DOMAIN stack' : stack'[i].node \in Nodes(ast)
  BY VisitFacts DEF Leaf, TypeInv, TypeOK
<1> QED
  BY <1>1, <1>2 DEF Leaf, TypeInv, TypeOK, Visit, Nodes

LEMMA OpenType ==
    ASSUME TypeInv, NEW m \in Nodes(ast), Visit(m),
           NEW id \in Nat, NEW ph \in {"dispatch", "body", "else"},
           NEW lines \in Seq(Line), NEW n \in Nat, Open(m, id, ph, lines, n),
           ctx' \in Seq(LoopCtx)
    PROVE  TypeInv'
<1>1. out' \in Seq(Line) /\ tmp' \in Nat
  BY EmitType DEF Open
<1> DEFINE f == Frame(m, id, ph, Len(ctx'))
<1>2. f \in FrameType /\ f.node = m
  BY VisitFacts DEF Frame, FrameType
<1>3. Saw(m) \in Seq(FrameType) /\ \A i \in DOMAIN Saw(m) : Saw(m)[i].node \in Nodes(ast)
  BY VisitFacts DEF TypeInv, TypeOK
<1>4. stack' = Append(Saw(m), f)
  BY DEF Open
<1>5. stack' \in Seq(FrameType) /\ \A i \in DOMAIN stack' : stack'[i].node \in Nodes(ast)
  BY <1>2, <1>3, <1>4
<1> QED
  BY <1>1, <1>5 DEF Open, TypeInv, TypeOK, Visit, Nodes

LEMMA CloseType ==
    ASSUME TypeInv, NEW lines \in Seq(Line), NEW n \in Nat, Close(lines, n),
           ctx' \in Seq(LoopCtx)
    PROVE  TypeInv'
<1>1. out' \in Seq(Line) /\ tmp' \in Nat
  BY EmitType DEF Close
<1>2. /\ stack \in Seq(FrameType) /\ Len(stack) > 0
      /\ \A i \in DOMAIN stack : stack[i].node \in Nodes(ast)
  BY DEF Close, TypeInv, TypeOK
<1>3. /\ stack' \in Seq(FrameType) /\ DOMAIN stack' = 1 .. (Len(stack) - 1)
      /\ \A i \in DOMAIN stack' : stack'[i] = stack[i] /\ i \in DOMAIN stack
  <2>1. stack' = Pop(stack)
    BY DEF Close
  <2>2. /\ Pop(stack) \in Seq(FrameType) /\ DOMAIN Pop(stack) = 1 .. (Len(stack) - 1)
        /\ \A i \in 1 .. (Len(stack) - 1) : Pop(stack)[i] = stack[i]
    BY <1>2, PopStack
  <2>3. DOMAIN stack = 1 .. Len(stack) /\ Len(stack) \in Nat
    BY <1>2
  <2>4. \A i \in 1 .. (Len(stack) - 1) : i \in DOMAIN stack
    BY <2>3
  <2> QED
    BY <2>1, <2>2, <2>4
<1> QED
  BY <1>1, <1>2, <1>3 DEF Close, TypeInv, TypeOK, Nodes

LEMMA ExitType ==
    ASSUME TypeInv, status = "emit", Exit
    PROVE  TypeInv'
BY DEF Exit, TypeInv, TypeOK, Nodes

LEMMA CaseLabelType ==
    ASSUME TypeInv, status = "emit", NEW n \in Nodes(ast), NEW id \in Nat,
           NEW m \in Nodes(ast)
    PROVE  CaseLabel(ast, n, id, m) \in LabelType
<1> DEFINE flat == FlatCases(ast, n)
<1>1. flat \subseteq Nodes(ast)
  BY DEF FlatCases, Queued, Walked
<1>2. FirstCase(ast, n) \subseteq Nodes(ast)
  BY <1>1 DEF FirstCase
<1>3. CaseUid(ast, n, m) \in Nat
  BY <1>2, BodyFacts DEF CaseUid
<1> QED
  BY <1>3 DEF CaseLabel, LabelType, LabelKinds

-----------------------------------------------------------------------------
(* The invariant behind JumpsResolve.  A jump names a label that is        *)
(* printed, or one that a pending call will print before it returns, or a  *)
(* known gap.                                                              *)

Gap(a, labs, t) ==
    \/ t[1] \in {"while_end", "while_cond"}
          /\ {L("for_cond", t[2]), L("do_body", t[2])} \cap labs # {}
    \/ t[1] = "user_label"
    \/ t[1] = "case" /\ \E m \in Nodes(a) : m = t[3] /\ a.kind[a.par[m]] # "switch"

Awaited(a, f, t) ==
    \/ a.kind[f.node] = "if" /\ t = L("if_end", f.id)
    \/ /\ a.kind[f.node] = "if" /\ f.ph = "body" /\ ~OneKid(a, f.node)
       /\ t = L("if_else", f.id)
    \/ a.kind[f.node] = "while" /\ t = L("while_end", f.id)
    \/ a.kind[f.node] = "for" /\ t = L("for_end", f.id)
    \/ a.kind[f.node] = "switch" /\ t = L("switch_end", f.id)
    \/ /\ a.kind[f.node] = "switch"
       /\ \E m \in Kids(a, f.node) :
             m > f.seen /\ IsCase(a, m) /\ t = CaseLabel(a, f.node, f.id, m)

Pending(a, st, t) == \E i \in DOMAIN st : Awaited(a, st[i], t)

Resolved(a, o, st) ==
    \A t \in Targets(o) : t \in Labels(o) \/ Pending(a, st, t) \/ Gap(a, Labels(o), t)

(* A loop has printed the label it jumps back to; a frame remembers a      *)
(* child it has visited; only a switch dispatches, before its statements.  *)
FrameOK(a, f, labs) ==
    /\ f.seen \in {0} \cup Kids(a, f.node)
    /\ a.kind[f.node] = "while" => L("while_cond", f.id) \in labs
    /\ a.kind[f.node] = "for" => L("for_cond", f.id) \in labs
    /\ a.kind[f.node] = "do" => L("do_body", f.id) \in labs
    /\ a.kind[f.node] = "if" /\ f.ph = "body" /\ f.seen # 0
          => \A k \in Kids(a, f.node) : f.seen <= k
    /\ f.ph = "dispatch" => a.kind[f.node] = "switch" /\ f.seen = 0
    /\ f.ph = "else" => a.kind[f.node] = "if"

Framed(a, o, st) == \A i \in DOMAIN st : FrameOK(a, st[i], Labels(o))

(* Which frames have an entry in qbe_ctx, and which entry.                 *)
Opens(a, f) == a.kind[f.node] \in Loops \cup {"switch"} /\ f.ph # "dispatch"

Entry(a, f, c) ==
    /\ Opens(a, f)
    /\ c.break_id = f.id
    /\ c.is_switch <=> a.kind[f.node] = "switch"

Nested(a, c, st) ==
    /\ st # <<>>
    /\ st[1].depth = 0 /\ st[1].node = 1
    /\ st[Len(st)].depth = Len(c)
    /\ \A i \in 1 .. (Len(st) - 1) :
          st[i + 1].depth = st[i].depth + IF Opens(a, st[i + 1]) THEN 1 ELSE 0
    /\ \A j \in DOMAIN c : \E i \in DOMAIN st : st[i].depth = j /\ Entry(a, st[i], c[j])

JumpInv ==
    /\ status = "emit" => Framed(ast, out, stack) /\ Nested(ast, ctx, stack)
    /\ status \in {"emit", "done"} => Resolved(ast, out, stack)
    /\ status \in {"idle", "done"} => ctx = <<>>

Inv == TypeInv /\ JumpInv

LEMMA GapMonotone ==
    ASSUME NEW a, NEW A, NEW B, A \subseteq B, NEW t, Gap(a, A, t)
    PROVE  Gap(a, B, t)
BY DEF Gap

LEMMA FrameMonotone ==
    ASSUME NEW a, NEW A, NEW B, A \subseteq B, NEW f, FrameOK(a, f, A)
    PROVE  FrameOK(a, f, B)
BY DEF FrameOK

(* Printing lines whose open jumps are awaited, while no label that was    *)
(* awaited is forgotten.                                                   *)
LEMMA ResolvedEmit ==
    ASSUME NEW a, NEW o \in Seq(Line), NEW s, NEW X, NEW Y, Closed(s, X, Y),
           NEW st, NEW st2, Resolved(a, o, st),
           \A t : Pending(a, st, t) => Pending(a, st2, t) \/ t \in Labels(s),
           \A t \in X : \/ t \in Labels(o) \cup Labels(s)
                        \/ Pending(a, st2, t)
                        \/ Gap(a, Labels(o), t)
    PROVE  Resolved(a, o \o s, st2)
<1>1. /\ Labels(o \o s) = Labels(o) \cup Labels(s)
      /\ Targets(o \o s) = Targets(o) \cup Targets(s)
  BY LabelsConcat DEF Closed
<1>2. ASSUME NEW t \in Targets(o)
      PROVE  t \in Labels(o \o s) \/ Pending(a, st2, t) \/ Gap(a, Labels(o \o s), t)
  BY <1>1, GapMonotone DEF Resolved
<1>3. ASSUME NEW t \in Targets(s)
      PROVE  t \in Labels(o \o s) \/ Pending(a, st2, t) \/ Gap(a, Labels(o \o s), t)
  BY <1>1, GapMonotone DEF Closed
<1> QED
  BY <1>1, <1>2, <1>3 DEF Resolved

(* The innermost call after it has visited its next child m.               *)
LEMMA VisitFrame ==
    ASSUME Inv, NEW m \in Nodes(ast), Visit(m),
           NEW g, g = [Top EXCEPT !.seen = m]
    PROVE  /\ g \in FrameType
           /\ g.node = Top.node /\ g.id = Top.id /\ g.ph = Top.ph /\ g.depth = Top.depth
           /\ FrameOK(ast, g, Labels(out))
           /\ \A t : Awaited(ast, Top, t)
                  => \/ Awaited(ast, g, t)
                     \/ /\ IsCase(ast, m) /\ Kind = "switch"
                        /\ t = CaseLabel(ast, Top.node, Top.id, m)
<1>1. Top \in FrameType /\ m \in Nat /\ Len(stack) \in DOMAIN stack
  BY VisitFacts DEF Inv
<1>2. /\ g \in FrameType /\ g.seen = m
      /\ g.node = Top.node /\ g.id = Top.id /\ g.ph = Top.ph /\ g.depth = Top.depth
  BY <1>1 DEF FrameType
<1>3. /\ m \in Kids(ast, Top.node) /\ m > Top.seen
      /\ \A k \in Kids(ast, Top.node) : k > Top.seen => m <= k
      /\ \/ Top.ph = "body" /\ (Kind = "if" => Top.seen = 0)
         \/ Top.ph = "else"
  BY DEF Visit
<1>4. Kids(ast, Top.node) \subseteq Nat \ {0}
  BY BodyFacts DEF Kids, Nodes, Inv, Visit
<1>5. FrameOK(ast, Top, Labels(out))
  BY <1>1 DEF Top, Inv, JumpInv, Framed, Visit
<1>6. FrameOK(ast, g, Labels(out))
  BY <1>1, <1>2, <1>3, <1>4, <1>5 DEF FrameOK, Kind
<1>7. ASSUME NEW t, Awaited(ast, Top, t)
      PROVE  \/ Awaited(ast, g, t)
             \/ /\ IsCase(ast, m) /\ Kind = "switch"
                /\ t = CaseLabel(ast, Top.node, Top.id, m)
  <2>1. CASE \E k \in Kids(ast, Top.node) :
                 /\ Kind = "switch"
                 /\ k > Top.seen /\ IsCase(ast, k)
                 /\ t = CaseLabel(ast, Top.node, Top.id, k)
    <3>1. PICK k \in Kids(ast, Top.node) :
                 /\ Kind = "switch"
                 /\ k > Top.seen /\ IsCase(ast, k)
                 /\ t = CaseLabel(ast, Top.node, Top.id, k)
      BY <2>1
    <3>2. CASE k = m
      BY <3>1, <3>2
    <3>3. CASE k # m
      <4>1. k > m
        BY <3>1, <3>3, <1>3, <1>4, <1>1
      <4> QED
        BY <3>1, <4>1, <1>2 DEF Awaited, Kind
    <3> QED
      BY <3>2, <3>3
  <2>2. CASE ~ \E k \in Kids(ast, Top.node) :
                 /\ Kind = "switch"
                 /\ k > Top.seen /\ IsCase(ast, k)
                 /\ t = CaseLabel(ast, Top.node, Top.id, k)
    BY <2>2, <1>2, <1>7 DEF Awaited, Kind
  <2> QED
    BY <2>1, <2>2
<1> QED
  BY <1>2, <1>6, <1>7

(* Replacing the innermost frame by one of the same depth and entry.       *)
LEMMA NestedSame ==
    ASSUME NEW a, NEW c \in Seq(LoopCtx), NEW st \in Seq(FrameType), NEW f \in FrameType,
           Nested(a, c, st), NEW st2, st2 = [st EXCEPT ![Len(st)] = f],
           f.node = st[Len(st)].node, f.id = st[Len(st)].id,
           f.depth = st[Len(st)].depth, Opens(a, f) <=> Opens(a, st[Len(st)])
    PROVE  Nested(a, c, st2)
<1>1. st # <<>>
  BY DEF Nested
<1>2. /\ st2 \in Seq(FrameType) /\ Len(st2) = Len(st) /\ DOMAIN st2 = DOMAIN st
      /\ Len(st) \in DOMAIN st /\ st2[Len(st)] = f
      /\ \A i \in DOMAIN st : i # Len(st) => st2[i] = st[i]
  BY <1>1, TopStack
<1>3. /\ DOMAIN st = 1 .. Len(st) /\ Len(st) \in Nat
  OBVIOUS
<1>4. \A i \in DOMAIN st : /\ st2[i].depth = st[i].depth /\ st2[i].node = st[i].node
                           /\ st2[i].id = st[i].id
                           /\ Opens(a, st2[i]) <=> Opens(a, st[i])
  BY <1>2
<1>5. /\ st2 # <<>> /\ st2[1].depth = 0 /\ st2[1].node = 1 /\ st2[Len(st2)].depth = Len(c)
  BY <1>2, <1>3, <1>4 DEF Nested
<1>6. \A i \in 1 .. (Len(st2) - 1) :
          st2[i + 1].depth = st2[i].depth + IF Opens(a, st2[i + 1]) THEN 1 ELSE 0
  <2> SUFFICES ASSUME NEW i \in 1 .. (Len(st) - 1)
               PROVE  st2[i + 1].depth = st2[i].depth + IF Opens(a, st2[i + 1]) THEN 1 ELSE 0
    BY <1>2
  <2>1. i \in DOMAIN st /\ i + 1 \in DOMAIN st
    BY <1>3
  <2>2. st[i + 1].depth = st[i].depth + IF Opens(a, st[i + 1]) THEN 1 ELSE 0
    BY DEF Nested
  <2> QED
    BY <2>1, <2>2, <1>4
<1>7. \A j \in DOMAIN c : \E i \in DOMAIN st2 : st2[i].depth = j /\ Entry(a, st2[i], c[j])
  <2> SUFFICES ASSUME NEW j \in DOMAIN c
               PROVE  \E i \in DOMAIN st2 : st2[i].depth = j /\ Entry(a, st2[i], c[j])
    OBVIOUS
  <2>1. PICK i \in DOMAIN st : st[i].depth = j /\ Entry(a, st[i], c[j])
    BY DEF Nested
  <2> QED
    BY <2>1, <1>2, <1>4 DEF Entry
<1> QED
  BY <1>5, <1>6, <1>7 DEF Nested

LEMMA NestedPush ==
    ASSUME NEW a, NEW c \in Seq(LoopCtx), NEW st \in Seq(FrameType), NEW f \in FrameType,
           Nested(a, c, st), NEW c2 \in Seq(LoopCtx), f.depth = Len(c2),
           \/ c2 = c /\ ~Opens(a, f)
           \/ \E e \in LoopCtx : c2 = Append(c, e) /\ Entry(a, f, e)
    PROVE  Nested(a, c2, Append(st, f))
<1> DEFINE st2 == Append(st, f)
<1>1. /\ Len(st) \in Nat /\ Len(st) > 0 /\ DOMAIN st = 1 .. Len(st)
      /\ Len(c) \in Nat /\ DOMAIN c = 1 .. Len(c)
  BY DEF Nested
<1>2. /\ st2 \in Seq(FrameType) /\ Len(st2) = Len(st) + 1
      /\ DOMAIN st2 = 1 .. (Len(st) + 1)
      /\ st2[Len(st) + 1] = f /\ \A i \in 1 .. Len(st) : st2[i] = st[i]
  BY PushStack
<1> HIDE DEF st2
<1>3. f.depth = Len(c) + IF Opens(a, f) THEN 1 ELSE 0
  BY <1>1 DEF Entry
<1>4. /\ st2 # <<>> /\ st2[1].depth = 0 /\ st2[1].node = 1 /\ st2[Len(st2)].depth = Len(c2)
  <2>1. 1 \in 1 .. Len(st) /\ Len(st2) # 0
    BY <1>1, <1>2
  <2> QED
    BY <2>1, <1>2 DEF Nested
<1>5. ASSUME NEW i \in 1 .. (Len(st2) - 1)
      PROVE  st2[i + 1].depth = st2[i].depth + IF Opens(a, st2[i + 1]) THEN 1 ELSE 0
  <2>1. CASE i = Len(st)
    BY <2>1, <1>1, <1>2, <1>3 DEF Nested
  <2>2. CASE i # Len(st)
    <3>1. i \in 1 .. (Len(st) - 1) /\ i \in 1 .. Len(st) /\ i + 1 \in 1 .. Len(st)
      <4>1. PICK n \in Nat : n = Len(st) /\ Len(st2) = n + 1
        BY <1>1, <1>2
      <4> QED
        BY <4>1, <2>2
    <3> QED
      BY <3>1, <1>2 DEF Nested
  <2> QED
    BY <2>1, <2>2
<1>6. ASSUME NEW j \in DOMAIN c2
      PROVE  \E i \in DOMAIN st2 : st2[i].depth = j /\ Entry(a, st2[i], c2[j])
  <2>1. CASE j \in DOMAIN c /\ c2[j] = c[j]
    <3>1. PICK i \in DOMAIN st : st[i].depth = j /\ Entry(a, st[i], c[j])
      BY <2>1 DEF Nested
    <3> QED
      BY <2>1, <3>1, <1>1, <1>2
  <2>2. CASE ~(j \in DOMAIN c /\ c2[j] = c[j])
    <3>1. PICK e \in LoopCtx : c2 = Append(c, e) /\ Entry(a, f, e)
      BY <2>2
    <3>2. /\ DOMAIN c2 = 1 .. (Len(c) + 1) /\ c2[Len(c) + 1] = e
          /\ Len(c2) = Len(c) + 1 /\ \A k \in 1 .. Len(c) : c2[k] = c[k]
      BY <3>1, PushStack
    <3>4. j = Len(c) + 1
      BY <2>2, <3>2, <1>1
    <3>3. Len(st) + 1 \in DOMAIN st2
      BY <1>1, <1>2
    <3> QED
      BY <3>1, <3>2, <3>3, <3>4, <1>2
  <2> QED
    BY <2>1, <2>2
<1> QED
  BY <1>4, <1>5, <1>6 DEF Nested, st2

LEMMA NestedPop ==
    ASSUME NEW a, NEW c \in Seq(LoopCtx), NEW st \in Seq(FrameType), Len(st) > 1,
           Nested(a, c, st), NEW c2,
           c2 = IF Opens(a, st[Len(st)]) THEN Pop(c) ELSE c
    PROVE  c2 \in Seq(LoopCtx) /\ Nested(a, c2, Pop(st))
<1> DEFINE st2 == Pop(st)
<1>1. PICK n \in Nat : /\ n = Len(st) /\ n > 1 /\ DOMAIN st = 1 .. n
                       /\ Len(c) \in Nat /\ DOMAIN c = 1 .. Len(c)
  OBVIOUS
<1>2. /\ st2 \in Seq(FrameType) /\ Len(st2) = n - 1
      /\ DOMAIN st2 = 1 .. (n - 1) /\ \A i \in 1 .. (n - 1) : st2[i] = st[i]
  BY <1>1, PopStack
<1> HIDE DEF st2
<1>3. st[n].depth = st[n - 1].depth + IF Opens(a, st[n]) THEN 1 ELSE 0
  <2>1. n - 1 \in 1 .. (n - 1) /\ n - 1 + 1 = n
    BY <1>1
  <2> QED
    BY <1>1, <2>1 DEF Nested
<1>4. st[n - 1].depth \in Nat /\ st[n].depth = Len(c)
  <2>1. n - 1 \in DOMAIN st
    BY <1>1
  <2>2. st[n - 1] \in FrameType
    BY <2>1
  <2> QED
    BY <1>1, <2>2 DEF Nested, FrameType
<1>5. /\ c2 \in Seq(LoopCtx) /\ Len(c2) = st[n - 1].depth /\ Len(c2) <= Len(c)
      /\ DOMAIN c2 = 1 .. Len(c2) /\ \A j \in DOMAIN c2 : c2[j] = c[j]
  <2>1. CASE Opens(a, st[n])
    <3>1. Len(c) > 0 /\ Len(c) = st[n - 1].depth + 1
      BY <2>1, <1>3, <1>4
    <3>2. /\ Pop(c) \in Seq(LoopCtx) /\ Len(Pop(c)) = Len(c) - 1
          /\ DOMAIN Pop(c) = 1 .. (Len(c) - 1)
          /\ \A j \in 1 .. (Len(c) - 1) : Pop(c)[j] = c[j]
      BY <3>1, PopStack
    <3>3. c2 = Pop(c)
      BY <2>1, <1>1
    <3> PICK d \in Nat : d = st[n - 1].depth
      BY <1>4
    <3>4. Len(c) - 1 = d /\ Len(c) - 1 <= Len(c)
      BY <3>1, <1>1
    <3>5. \A j \in DOMAIN c2 : c2[j] = c[j]
      BY <3>2, <3>3
    <3> QED
      BY <3>2, <3>3, <3>4, <3>5
  <2>2. CASE ~Opens(a, st[n])
    BY <2>2, <1>1, <1>3, <1>4
  <2> QED
    BY <2>1, <2>2
<1>6. /\ st2 # <<>> /\ st2[1].depth = 0 /\ st2[1].node = 1 /\ st2[Len(st2)].depth = Len(c2)
  BY <1>1, <1>2, <1>5 DEF Nested
<1>7. ASSUME NEW i \in 1 .. (Len(st2) - 1)
      PROVE  st2[i + 1].depth = st2[i].depth + IF Opens(a, st2[i + 1]) THEN 1 ELSE 0
  <2>1. /\ i \in 1 .. (n - 1) /\ i + 1 \in 1 .. (n - 1)
        /\ i \in 1 .. (Len(st) - 1)
    BY <1>1, <1>2
  <2>2. st[i + 1].depth = st[i].depth + IF Opens(a, st[i + 1]) THEN 1 ELSE 0
    BY <2>1 DEF Nested
  <2> QED
    BY <2>1, <2>2, <1>2
<1>8. ASSUME NEW j \in DOMAIN c2
      PROVE  \E i \in DOMAIN st2 : st2[i].depth = j /\ Entry(a, st2[i], c2[j])
  <2>1. j \in DOMAIN c /\ c2[j] = c[j]
    BY <1>1, <1>5
  <2>2. PICK i \in DOMAIN st : st[i].depth = j /\ Entry(a, st[i], c[j])
    BY <2>1 DEF Nested
  <2>3. i # n
    <3>1. CASE Opens(a, st[n])
      BY <3>1, <2>2, <1>1, <1>3, <1>4, <1>5
    <3>2. CASE ~Opens(a, st[n])
      BY <3>2, <2>2 DEF Entry
    <3> QED
      BY <3>1, <3>2
  <2> QED
    BY <2>1, <2>2, <2>3, <1>1, <1>2
<1> QED
  BY <1>5, <1>6, <1>7, <1>8 DEF Nested, st2

-----------------------------------------------------------------------------
(* The steps that print a statement.                                       *)

(* A statement m without statements of its own.                            *)
LEMMA LeafStep ==
    ASSUME Inv, NEW m \in Nodes(ast), Visit(m), ~IsCase(ast, m),
           NEW lines, NEW n \in Nat, NEW X, NEW Y, Closed(lines, X, Y),
           Leaf(m, lines, n), ctx' = ctx,
           labels' \in Seq(KeyType), Len(labels') <= LabelCap,
           \A t \in X : \/ t \in Labels(out)
                        \/ Pending(ast, stack, t)
                        \/ Gap(ast, Labels(out), t)
    PROVE  Inv'
<1> DEFINE g == [Top EXCEPT !.seen = m]
<1>1. TypeInv'
  BY LeafType DEF Inv, Closed
<1>2. /\ g \in FrameType /\ g.node = Top.node /\ g.id = Top.id /\ g.ph = Top.ph
      /\ g.depth = Top.depth /\ FrameOK(ast, g, Labels(out))
      /\ \A t : Awaited(ast, Top, t) => Awaited(ast, g, t)
  BY VisitFrame
<1>3. /\ stack \in Seq(FrameType) /\ stack # <<>> /\ out \in Seq(Line)
      /\ ctx \in Seq(LoopCtx) /\ status = "emit"
  BY DEF Inv, TypeInv, TypeOK, Visit
<1>4. stack' = [stack EXCEPT ![Len(stack)] = g]
  BY <1>3, VisitFacts, SawStack DEF Leaf, Inv
<1> HIDE DEF g
<1>5. /\ DOMAIN stack' = DOMAIN stack /\ Len(stack) \in DOMAIN stack
      /\ stack'[Len(stack)] = g
      /\ \A i \in DOMAIN stack : i # Len(stack) => stack'[i] = stack[i]
  BY <1>2, <1>3, <1>4, TopStack
<1>6. Labels(out') = Labels(out) \cup Labels(lines)
  BY <1>3, LabelsConcat DEF Leaf, Emit, Closed
<1>7. ast' = ast /\ status' = "emit" /\ out' = out \o lines
  BY <1>3 DEF Leaf, Emit
<1>8. Framed(ast, out', stack')
  <2> SUFFICES ASSUME NEW i \in DOMAIN stack' PROVE FrameOK(ast, stack'[i], Labels(out'))
    BY DEF Framed
  <2>1. FrameOK(ast, stack'[i], Labels(out))
    BY <1>2, <1>3, <1>5 DEF Inv, JumpInv, Framed
  <2> QED
    BY <2>1, <1>6, FrameMonotone
<1>9. Nested(ast, ctx, stack')
  <2>1. Nested(ast, ctx, stack)
    BY <1>3 DEF Inv, JumpInv
  <2>2. Opens(ast, g) <=> Opens(ast, stack[Len(stack)])
    BY <1>2 DEF Opens, Top
  <2> QED
    BY <2>1, <2>2, <1>2, <1>3, <1>4, NestedSame DEF Top
<1>10. \A t : Pending(ast, stack, t) => Pending(ast, stack', t)
  BY <1>2, <1>5 DEF Pending, Top
<1>11. Resolved(ast, out', stack')
  <2>1. Resolved(ast, out, stack)
    BY <1>3 DEF Inv, JumpInv
  <2> QED
    BY <2>1, <1>3, <1>7, <1>10, ResolvedEmit
<1> QED
  BY <1>1, <1>7, <1>8, <1>9, <1>11 DEF Inv, JumpInv

(* A statement m that opens a frame g.                                     *)
LEMMA OpenStep ==
    ASSUME Inv, NEW m \in Nodes(ast), Visit(m), NEW g,
           g.node = m, g.seen = 0, g \in FrameType, g.depth = Len(ctx'),
           g.ph \in {"body", "dispatch"},
           g.ph = "dispatch" => ast.kind[m] = "switch",
           NEW lines, NEW n \in Nat, NEW X, NEW Y, Closed(lines, X, Y), Emit(lines, n),
           stack' = Append(Saw(m), g), ast' = ast, status' = status,
           labels' \in Seq(KeyType), Len(labels') <= LabelCap,
           ctx' \in Seq(LoopCtx),
           \/ ctx' = ctx /\ ~Opens(ast, g)
           \/ \E e \in LoopCtx : ctx' = Append(ctx, e) /\ Entry(ast, g, e),
           ast.kind[m] = "while" => L("while_cond", g.id) \in Y,
           ast.kind[m] = "for" => L("for_cond", g.id) \in Y,
           ast.kind[m] = "do" => L("do_body", g.id) \in Y,
           IsCase(ast, m) /\ Kind = "switch"
               => CaseLabel(ast, Top.node, Top.id, m) \in Y,
           \A t \in X : Awaited(ast, g, t)
    PROVE  Inv'
<1> DEFINE f == [Top EXCEPT !.seen = m]
           st == Saw(m)
<1>1. /\ f \in FrameType /\ f.node = Top.node /\ f.id = Top.id /\ f.ph = Top.ph
      /\ f.depth = Top.depth /\ FrameOK(ast, f, Labels(out))
      /\ \A t : Awaited(ast, Top, t)
             => \/ Awaited(ast, f, t)
                \/ /\ IsCase(ast, m) /\ Kind = "switch"
                   /\ t = CaseLabel(ast, Top.node, Top.id, m)
  BY VisitFrame
<1>2. /\ stack \in Seq(FrameType) /\ stack # <<>> /\ out \in Seq(Line)
      /\ ctx \in Seq(LoopCtx) /\ status = "emit" /\ tmp \in Nat
      /\ ast \in Asts /\ \A i \in DOMAIN stack : stack[i].node \in Nodes(ast)
  BY DEF Inv, TypeInv, TypeOK, Visit
<1>3. st = [stack EXCEPT ![Len(stack)] = f]
  BY <1>2, VisitFacts, SawStack DEF Inv
<1> HIDE DEF f, st
<1>4. /\ st \in Seq(FrameType) /\ Len(st) = Len(stack)
      /\ DOMAIN st = DOMAIN stack /\ Len(stack) \in DOMAIN stack
      /\ st[Len(stack)] = f
      /\ \A i \in DOMAIN stack : i # Len(stack) => st[i] = stack[i]
  BY <1>1, <1>2, <1>3, TopStack
<1>5. stack' = Append(st, g)
  BY DEF st
<1>6. /\ stack' \in Seq(FrameType) /\ Len(stack') = Len(st) + 1
      /\ DOMAIN stack' = 1 .. (Len(st) + 1)
      /\ stack'[Len(st) + 1] = g
      /\ \A i \in 1 .. Len(st) : stack'[i] = st[i]
  BY <1>4, <1>5, PushStack
<1>7. DOMAIN st = 1 .. Len(st) /\ Len(st) \in Nat
  BY <1>4
<1>8. /\ Labels(out') = Labels(out) \cup Labels(lines)
      /\ out' = out \o lines /\ out' \in Seq(Line) /\ tmp' \in Nat
  BY <1>2, LabelsConcat DEF Emit, Closed
<1>9. TypeInv'
  <2>1. ASSUME NEW i \in DOMAIN stack' PROVE stack'[i].node \in Nodes(ast)
    <3>1. CASE i = Len(st) + 1
      BY <3>1, <1>6
    <3>2. CASE i # Len(st) + 1
      <4>1. i \in DOMAIN stack /\ stack'[i] = st[i]
        BY <3>2, <1>4, <1>6, <1>7
      <4>2. st[i].node = stack[i].node
        BY <4>1, <1>1, <1>4 DEF Top
      <4> QED
        BY <4>1, <4>2, <1>2
    <3> QED
      BY <3>1, <3>2
  <2> QED
    BY <2>1, <1>2, <1>6, <1>8 DEF TypeInv, TypeOK, Inv, Nodes
<1>10. Framed(ast, out', stack')
  <2> SUFFICES ASSUME NEW i \in DOMAIN stack' PROVE FrameOK(ast, stack'[i], Labels(out'))
    BY DEF Framed
  <2>1. CASE i = Len(st) + 1
    <3>1. FrameOK(ast, g, Labels(out'))
      BY <1>8 DEF FrameOK, Closed
    <3> QED
      BY <2>1, <3>1, <1>6
  <2>2. CASE i # Len(st) + 1
    <3>1. i \in DOMAIN st /\ stack'[i] = st[i]
      BY <2>2, <1>6, <1>7
    <3>2. FrameOK(ast, st[i], Labels(out))
      BY <3>1, <1>1, <1>2, <1>4 DEF Inv, JumpInv, Framed
    <3> QED
      BY <3>1, <3>2, <1>8, FrameMonotone
  <2> QED
    BY <2>1, <2>2
<1>11. Nested(ast, ctx', stack')
  <2>1. Nested(ast, ctx, stack)
    BY <1>2 DEF Inv, JumpInv
  <2>2. Opens(ast, f) <=> Opens(ast, stack[Len(stack)])
    BY <1>1 DEF Opens, Top
  <2>3. Nested(ast, ctx, st)
    BY <2>1, <2>2, <1>1, <1>2, <1>3, NestedSame DEF Top
  <2> QED
    BY <2>3, <1>2, <1>4, <1>5, NestedPush
<1>12. \A t : Pending(ast, stack, t) => Pending(ast, stack', t) \/ t \in Labels(lines)
  <2> SUFFICES ASSUME NEW t, Pending(ast, stack, t)
               PROVE  Pending(ast, stack', t) \/ t \in Labels(lines)
    OBVIOUS
  <2>1. PICK i \in DOMAIN stack : Awaited(ast, stack[i], t)
    BY DEF Pending
  <2>2. i \in DOMAIN stack' /\ stack'[i] = st[i]
    BY <1>4, <1>6, <1>7
  <2>3. CASE i # Len(stack)
    BY <2>1, <2>2, <2>3, <1>4 DEF Pending
  <2>4. CASE i = Len(stack)
    <3>1. CASE Awaited(ast, f, t)
      BY <2>2, <2>4, <3>1, <1>4 DEF Pending
    <3>2. CASE /\ IsCase(ast, m) /\ Kind = "switch"
               /\ t = CaseLabel(ast, Top.node, Top.id, m)
      BY <3>2 DEF Closed
    <3> QED
      BY <2>1, <2>4, <3>1, <3>2, <1>1 DEF Top
  <2> QED
    BY <2>3, <2>4
<1>13. \A t \in X : Pending(ast, stack', t)
  <2>1. Len(st) + 1 \in DOMAIN stack'
    BY <1>6, <1>7
  <2> QED
    BY <2>1, <1>6 DEF Pending
<1>14. Resolved(ast, out', stack')
  <2>1. Resolved(ast, out, stack)
    BY <1>2 DEF Inv, JumpInv
  <2> QED
    BY <2>1, <1>2, <1>8, <1>12, <1>13, ResolvedEmit
<1> QED
  BY <1>2, <1>9, <1>10, <1>11, <1>14 DEF Inv, JumpInv

(* The innermost call returns.                                             *)
LEMMA CloseStep ==
    ASSUME Inv, NEW lines, NEW n \in Nat, NEW X, NEW Y, Closed(lines, X, Y),
           Close(lines, n),
           ctx' = IF Opens(ast, Top) THEN Pop(ctx) ELSE ctx,
           \A t : Awaited(ast, Top, t) => t \in Y,
           X \subseteq Labels(out)
    PROVE  Inv'
<1>1. /\ stack \in Seq(FrameType) /\ stack # <<>> /\ out \in Seq(Line)
      /\ ctx \in Seq(LoopCtx) /\ status = "emit" /\ Len(stack) > 1
  BY DEF Inv, TypeInv, TypeOK, Close
<1>2. Nested(ast, ctx, stack)
  BY <1>1 DEF Inv, JumpInv
<1>3. ctx' \in Seq(LoopCtx) /\ Nested(ast, ctx', stack')
  BY <1>1, <1>2, NestedPop DEF Close, Top
<1>4. TypeInv'
  BY <1>3, CloseType DEF Inv, Closed
<1>5. /\ stack' \in Seq(FrameType) /\ Len(stack') = Len(stack) - 1
      /\ DOMAIN stack' = 1 .. (Len(stack) - 1)
      /\ \A i \in 1 .. (Len(stack) - 1) : stack'[i] = stack[i]
  BY <1>1, PopStack DEF Close
<1>6. DOMAIN stack = 1 .. Len(stack) /\ Len(stack) \in Nat
  BY <1>1
<1>7. /\ Labels(out') = Labels(out) \cup Labels(lines)
      /\ out' = out \o lines /\ ast' = ast /\ status' = "emit"
  BY <1>1, LabelsConcat DEF Emit, Close, Closed
<1>8. Framed(ast, out', stack')
  <2> SUFFICES ASSUME NEW i \in DOMAIN stack' PROVE FrameOK(ast, stack'[i], Labels(out'))
    BY DEF Framed
  <2>1. i \in DOMAIN stack /\ stack'[i] = stack[i]
    BY <1>5, <1>6
  <2>2. FrameOK(ast, stack[i], Labels(out))
    BY <2>1, <1>1 DEF Inv, JumpInv, Framed
  <2> QED
    BY <2>1, <2>2, <1>7, FrameMonotone
<1>9. \A t : Pending(ast, stack, t) => Pending(ast, stack', t) \/ t \in Labels(lines)
  <2> SUFFICES ASSUME NEW t, Pending(ast, stack, t)
               PROVE  Pending(ast, stack', t) \/ t \in Labels(lines)
    OBVIOUS
  <2>1. PICK i \in DOMAIN stack : Awaited(ast, stack[i], t)
    BY DEF Pending
  <2>2. CASE i = Len(stack)
    BY <2>1, <2>2 DEF Closed, Top
  <2>3. CASE i # Len(stack)
    <3>1. i \in DOMAIN stack' /\ stack'[i] = stack[i]
      BY <2>3, <1>5, <1>6
    <3> QED
      BY <2>1, <3>1 DEF Pending
  <2> QED
    BY <2>2, <2>3
<1>10. Resolved(ast, out', stack')
  <2>1. Resolved(ast, out, stack)
    BY <1>1 DEF Inv, JumpInv
  <2> QED
    BY <2>1, <1>1, <1>7, <1>9, ResolvedEmit
<1> QED
  BY <1>3, <1>4, <1>7, <1>8, <1>10 DEF Inv, JumpInv

(* exit(1): nothing is claimed of what is left.                            *)
LEMMA ExitStep ==
    ASSUME Inv, status = "emit", Exit
    PROVE  Inv'
BY ExitType DEF Inv, JumpInv, Exit

-----------------------------------------------------------------------------
(* One lemma per group of actions: each shows that what the action prints  *)
(* is closed up to labels that are awaited.                                *)

LEMMA StepFacts ==
    ASSUME Inv, status = "emit", NEW m \in Nodes(ast)
    PROVE  /\ m \in Nat /\ tmp \in Nat /\ tmp + 1 \in Nat
           /\ ast.ex[m] \in Shapes /\ ast.init[m] \in Shapes /\ ast.post[m] \in Shapes
           /\ Tmps(ast.ex[m]) \in Nat /\ Tmps(ast.init[m]) \in Nat
           /\ Tmps(ast.post[m]) \in Nat
           /\ labels \in Seq(KeyType) /\ Len(labels) <= LabelCap
           /\ ctx \in Seq(LoopCtx) /\ stack \in Seq(FrameType)
<1>1. /\ m \in Nat /\ ast.ex[m] \in Shapes /\ ast.init[m] \in Shapes
      /\ ast.post[m] \in Shapes
  BY BodyFacts DEF Inv
<1>2. /\ tmp \in Nat /\ labels \in Seq(KeyType) /\ Len(labels) <= LabelCap
      /\ ctx \in Seq(LoopCtx) /\ stack \in Seq(FrameType)
  BY DEF Inv, TypeInv, TypeOK
<1>3. \A e \in Shapes : Tmps(e) \in Nat
  BY ExprLines
<1> QED
  BY <1>1, <1>2, <1>3

LEMMA FrameFacts ==
    ASSUME NEW m \in Nat, NEW id \in Nat, NEW ph \in {"body", "dispatch"}, NEW d \in Nat
    PROVE  /\ Frame(m, id, ph, d) \in FrameType
           /\ Frame(m, id, ph, d).node = m /\ Frame(m, id, ph, d).id = id
           /\ Frame(m, id, ph, d).seen = 0 /\ Frame(m, id, ph, d).ph = ph
           /\ Frame(m, id, ph, d).depth = d
BY DEF Frame, FrameType

LEMMA SimpleStep ==
    ASSUME Inv, NEW m \in Nodes(ast),
           ExprStmt(m) \/ VarDecl(m) \/ Return(m)
    PROVE  Inv'
<1>1. Visit(m) /\ status = "emit" /\ ~IsCase(ast, m)
  BY DEF ExprStmt, VarDecl, Return, Visit, IsCase
<1>2. /\ m \in Nat /\ tmp \in Nat /\ tmp + 1 \in Nat
      /\ ast.ex[m] \in Shapes /\ Tmps(ast.ex[m]) \in Nat
      /\ labels \in Seq(KeyType) /\ Len(labels) <= LabelCap
  BY <1>1, StepFacts
<1> DEFINE e == qbe_expr_val(ast.ex[m], tmp)
           e1 == qbe_expr_val(ast.ex[m], tmp + 1)
<1>3. Closed(e, {}, {}) /\ Closed(e1, {}, {})
  BY <1>2, ClosedExpr
<1>4. ASSUME NEW lines, NEW n \in Nat, Closed(lines, {}, {}), Leaf(m, lines, n),
             ctx' = ctx, labels' = labels
      PROVE  Inv'
  BY <1>1, <1>2, <1>4, LeafStep
<1>5. CASE ExprStmt(m)
  BY <1>2, <1>3, <1>4, <1>5 DEF ExprStmt
<1>6. CASE Return(m)
  <2>1. Closed(e \o <<Ret>>, {} \cup {}, {} \cup {})
    BY <1>3, ClosedIns, ClosedConcat
  <2>2. Closed(e \o <<Ret>>, {}, {})
    BY <2>1
  <2> QED
    BY <1>2, <1>4, <1>6, <2>2 DEF Return
<1>7. CASE VarDecl(m) /\ ast.ex[m] = "none"
  BY <1>4, <1>7, ClosedIns DEF VarDecl
<1>8. CASE VarDecl(m) /\ ast.ex[m] # "none"
  <2>1. Closed(<<Ins>> \o e1, {} \cup {}, {} \cup {})
    BY <1>3, ClosedIns, ClosedConcat
  <2>2. Closed(<<Ins>> \o e1 \o <<Ins>>, {} \cup {} \cup {}, {} \cup {} \cup {})
    BY <2>1, ClosedIns, ClosedConcat
  <2>3. Closed(<<Ins>> \o e1 \o <<Ins>>, {}, {})
    BY <2>2
  <2>4. 1 + Tmps(ast.ex[m]) \in Nat
    BY <1>2
  <2> QED
    BY <1>4, <1>8, <2>3, <2>4 DEF VarDecl
<1> QED
  BY <1>5, <1>6, <1>7, <1>8

(* A pushed entry of qbe_ctx is the frame's.                               *)
LEMMA PushFacts ==
    ASSUME ctx \in Seq(LoopCtx), NEW id \in Nat, NEW sw \in BOOLEAN, PushCtx(id, sw)
    PROVE  /\ ctx' \in Seq(LoopCtx) /\ Len(ctx') = Len(ctx) + 1 /\ Len(ctx') \in Nat
           /\ \E e \in LoopCtx : /\ ctx' = Append(ctx, e)
                                 /\ e.break_id = id /\ e.is_switch = sw
<1> DEFINE e == [break_id |-> id, continue_id |-> IF sw THEN -1 ELSE id, is_switch |-> sw]
<1>1. e \in LoopCtx /\ e.break_id = id /\ e.is_switch = sw
  BY DEF LoopCtx
<1>2. ctx' = Append(ctx, e)
  BY DEF PushCtx
<1> HIDE DEF e
<1> QED
  BY <1>1, <1>2

LEMMA LoopStep ==
    ASSUME Inv, NEW m \in Nodes(ast), While(m) \/ Do(m) \/ For(m)
    PROVE  Inv'
<1> DEFINE g == Frame(m, tmp, "body", Len(ctx'))
<1>1. /\ Visit(m) /\ status = "emit" /\ PushCtx(tmp, FALSE)
      /\ ast.kind[m] \in Loops /\ ~IsCase(ast, m)
  BY DEF While, Do, For, Visit, Loops, IsCase
<1>2. /\ m \in Nat /\ tmp \in Nat /\ tmp + 1 \in Nat
      /\ ast.ex[m] \in Shapes /\ Tmps(ast.ex[m]) \in Nat
      /\ ast.init[m] \in Shapes /\ Tmps(ast.init[m]) \in Nat
      /\ labels \in Seq(KeyType) /\ Len(labels) <= LabelCap /\ ctx \in Seq(LoopCtx)
  BY <1>1, StepFacts
<1>3. /\ ctx' \in Seq(LoopCtx) /\ Len(ctx') \in Nat
      /\ \E e \in LoopCtx : /\ ctx' = Append(ctx, e)
                            /\ e.break_id = tmp /\ e.is_switch = FALSE
  <2>1. FALSE \in BOOLEAN /\ ctx \in Seq(LoopCtx) /\ tmp \in Nat /\ PushCtx(tmp, FALSE)
    BY <1>1, <1>2
  <2> QED
    BY <2>1, PushFacts
<1>4. /\ g \in FrameType /\ g.node = m /\ g.id = tmp /\ g.seen = 0 /\ g.ph = "body"
      /\ g.depth = Len(ctx')
  <2>1. Len(ctx') \in Nat /\ m \in Nat /\ tmp \in Nat
    BY <1>2, <1>3
  <2> QED
    BY <2>1 DEF Frame, FrameType
<1> HIDE DEF g
<1>5. \E e \in LoopCtx : ctx' = Append(ctx, e) /\ Entry(ast, g, e)
  BY <1>1, <1>3, <1>4 DEF Entry, Opens, Loops
<1>6. ASSUME NEW lines, NEW n \in Nat, NEW X, NEW Y, Closed(lines, X, Y),
             Open(m, tmp, "body", lines, n),
             ast.kind[m] = "while" => L("while_cond", tmp) \in Y,
             ast.kind[m] = "for" => L("for_cond", tmp) \in Y,
             ast.kind[m] = "do" => L("do_body", tmp) \in Y,
             \A t \in X : Awaited(ast, g, t)
      PROVE  Inv'
  <2>1. /\ Emit(lines, n) /\ stack' = Append(Saw(m), g)
        /\ ast' = ast /\ status' = status /\ labels' = labels
    BY <1>6 DEF Open, g
  <2> QED
    BY <2>1, <1>1, <1>2, <1>3, <1>4, <1>5, <1>6, OpenStep
<1>7. \A k \in LabelKinds : L(k, tmp) \in LabelType
  BY <1>2, LTypes
<1>8. CASE While(m)
  <2> DEFINE e == qbe_expr_val(ast.ex[m], tmp + 1)
             c == L("while_cond", tmp)
             b == L("while_body", tmp)
             x == L("while_end", tmp)
  <2>1. c \in LabelType /\ b \in LabelType /\ x \in LabelType
    BY <1>7 DEF LabelKinds
  <2>2. Closed(<<Lab(c)>>, {}, {c}) /\ Closed(<<Jnz(b, x), Lab(b)>>, {x}, {b})
    BY <2>1, ClosedOne, ClosedJnzLab
  <2>3. Closed(e, {}, {})
    BY <1>2, ClosedExpr
  <2>4. Closed(<<Lab(c)>> \o e, {} \cup {}, {c} \cup {})
    BY <2>2, <2>3, ClosedConcat
  <2>5. Closed(<<Lab(c)>> \o e \o <<Jnz(b, x), Lab(b)>>, {} \cup {} \cup {x}, {c} \cup {} \cup {b})
    BY <2>2, <2>4, ClosedConcat
  <2>6. Closed(<<Lab(c)>> \o e \o <<Jnz(b, x), Lab(b)>>, {x}, {c, b})
    BY <2>5 DEF Closed
  <2>7. Awaited(ast, g, x) /\ ast.kind[m] = "while"
    BY <1>4, <1>8 DEF Awaited, While
  <2>8. /\ Open(m, tmp, "body", <<Lab(c)>> \o e \o <<Jnz(b, x), Lab(b)>>,
                1 + Tmps(ast.ex[m]))
        /\ 1 + Tmps(ast.ex[m]) \in Nat
    BY <1>2, <1>8 DEF While
  <2> HIDE DEF e, b, x
  <2> QED
    BY <1>6, <2>6, <2>7, <2>8
<1>9. CASE Do(m)
  <2> DEFINE b == L("do_body", tmp)
  <2>1. Closed(<<Lab(b)>>, {}, {b})
    BY <1>7, ClosedOne DEF LabelKinds
  <2>2. Open(m, tmp, "body", <<Lab(b)>>, 1) /\ ast.kind[m] = "do"
    BY <1>9 DEF Do
  <2> QED
    BY <1>6, <2>1, <2>2
<1>10. CASE For(m)
  <2> DEFINE i == Tmps(ast.init[m])
             e == qbe_expr_val(ast.init[m], tmp + 1)
             e2 == qbe_expr_val(ast.ex[m], tmp + 1 + i)
             c == L("for_cond", tmp)
             b == L("for_body", tmp)
             x == L("for_end", tmp)
             j == IF ast.ex[m] = "none" THEN <<>> ELSE <<Jnz(b, x)>>
  <2>1. c \in LabelType /\ b \in LabelType /\ x \in LabelType /\ tmp + 1 + i \in Nat
    BY <1>2, <1>7 DEF LabelKinds
  <2>2. Closed(e, {}, {}) /\ Closed(e2, {}, {})
    BY <1>2, <2>1, ClosedExpr
  <2>3. Closed(<<Lab(c)>>, {}, {c}) /\ Closed(<<Lab(b)>>, {}, {b})
    BY <2>1, ClosedOne
  <2>4. Closed(j, {b, x}, {})
    BY <2>1, ClosedOne, ClosedIns DEF Closed
  <2>5. Closed(e \o <<Lab(c)>>, {} \cup {}, {} \cup {c})
    BY <2>2, <2>3, ClosedConcat
  <2>6. Closed(e \o <<Lab(c)>> \o e2, {} \cup {} \cup {}, {} \cup {c} \cup {})
    BY <2>2, <2>5, ClosedConcat
  <2>7. Closed(e \o <<Lab(c)>> \o e2 \o j, {} \cup {} \cup {} \cup {b, x},
               {} \cup {c} \cup {} \cup {})
    BY <2>4, <2>6, ClosedConcat
  <2>8. Closed(e \o <<Lab(c)>> \o e2 \o j \o <<Lab(b)>>,
               {} \cup {} \cup {} \cup {b, x} \cup {}, {} \cup {c} \cup {} \cup {} \cup {b})
    BY <2>3, <2>7, ClosedConcat
  <2>9. Closed(e \o <<Lab(c)>> \o e2 \o j \o <<Lab(b)>>, {x}, {c, b})
    BY <2>8 DEF Closed
  <2>10. Awaited(ast, g, x) /\ ast.kind[m] = "for"
    BY <1>4, <1>10 DEF Awaited, For
  <2>11. /\ Open(m, tmp, "body", e \o <<Lab(c)>> \o e2 \o j \o <<Lab(b)>>,
                 1 + i + Tmps(ast.ex[m]))
         /\ 1 + i + Tmps(ast.ex[m]) \in Nat
    BY <1>2, <1>10 DEF For
  <2> HIDE DEF e, e2, b, x, j, i
  <2> QED
    BY <1>6, <2>9, <2>10, <2>11
<1> QED
  BY <1>8, <1>9, <1>10

(* A statement with statements of its own that is no loop.                 *)
LEMMA PlainOpen ==
    ASSUME Inv, NEW m \in Nodes(ast), Visit(m), ast.kind[m] \notin Loops,
           NEW id \in Nat, NEW ph \in {"body", "dispatch"},
           ast.kind[m] = "switch" <=> ph = "dispatch",
           NEW lines, NEW n \in Nat, NEW X, NEW Y, Closed(lines, X, Y),
           Emit(lines, n), stack' = Append(Saw(m), Frame(m, id, ph, Len(ctx))),
           ast' = ast, status' = status, ctx' = ctx,
           labels' \in Seq(KeyType), Len(labels') <= LabelCap,
           IsCase(ast, m) /\ Kind = "switch"
               => CaseLabel(ast, Top.node, Top.id, m) \in Y,
           \A t \in X : Awaited(ast, Frame(m, id, ph, Len(ctx)), t)
    PROVE  Inv'
<1> DEFINE g == Frame(m, id, ph, Len(ctx))
<1>1. m \in Nat /\ ctx \in Seq(LoopCtx)
  BY StepFacts DEF Visit
<1>2. Len(ctx) \in Nat
  BY <1>1
<1>3. /\ g \in FrameType /\ g.node = m /\ g.id = id /\ g.seen = 0 /\ g.ph = ph
      /\ g.depth = Len(ctx)
  BY <1>1, <1>2 DEF Frame, FrameType
<1> HIDE DEF g
<1>4. ~Opens(ast, g)
  BY <1>3 DEF Opens, Loops
<1>5. stack' = Append(Saw(m), g) /\ \A t \in X : Awaited(ast, g, t)
  BY DEF g
<1>6. ast.kind[m] \notin {"while", "for", "do"}
  BY DEF Loops
<1> QED
  BY <1>1, <1>3, <1>4, <1>5, <1>6, OpenStep

(* A visit of m that prints lines, with the labels they await in X and      *)
(* place in Y, and opens a frame that owes those in X.                       *)
Opening(m, id, ph, lines, n, X, Y) ==
    /\ id \in Nat /\ ph \in {"body", "dispatch"} /\ n \in Nat
    /\ ast.kind[m] = "switch" <=> ph = "dispatch"
    /\ Closed(lines, X, Y)
    /\ Open(m, id, ph, lines, n) /\ ctx' = ctx
    /\ IsCase(ast, m) /\ Kind = "switch" => CaseLabel(ast, Top.node, Top.id, m) \in Y
    /\ \A t \in X : Awaited(ast, Frame(m, id, ph, Len(ctx)), t)

LEMMA BranchStep ==
    ASSUME Inv, NEW m \in Nodes(ast),
           Compound(m) \/ StandaloneCase(m) \/ SwitchCase(m) \/ If(m) \/ Switch(m)
    PROVE  Inv'
<1>1. /\ Visit(m) /\ status = "emit" /\ ast.kind[m] \notin Loops
      /\ ast.kind[m] = "switch" <=> Switch(m)
  BY DEF Compound, StandaloneCase, SwitchCase, If, Switch, Visit, IsCase, Loops
<1>2. /\ tmp \in Nat /\ tmp + 1 \in Nat
      /\ ast.ex[m] \in Shapes /\ Tmps(ast.ex[m]) \in Nat
      /\ labels \in Seq(KeyType) /\ Len(labels) <= LabelCap
  BY <1>1, StepFacts
<1>3. ASSUME NEW id, NEW ph, NEW lines, NEW n, NEW X, NEW Y,
             Opening(m, id, ph, lines, n, X, Y)
      PROVE  Inv'
  <2>1. /\ Emit(lines, n) /\ stack' = Append(Saw(m), Frame(m, id, ph, Len(ctx)))
        /\ ast' = ast /\ status' = status /\ labels' = labels
    BY <1>3 DEF Opening, Open
  <2>2. /\ labels' \in Seq(KeyType) /\ Len(labels') <= LabelCap
    BY <1>2, <2>1
  <2> QED
    BY ONLY Inv, m \in Nodes(ast), <1>1, <1>3, <2>1, <2>2, PlainOpen DEF Opening
<1>4. CASE Compound(m) \/ StandaloneCase(m)
  <2>1. /\ Open(m, 0, "body", <<>>, 0) /\ ctx' = ctx
        /\ ast.kind[m] # "switch" /\ ~(IsCase(ast, m) /\ Kind = "switch")
    BY <1>4 DEF Compound, StandaloneCase, IsCase
  <2>2. Closed(<<>>, {}, {})
    BY ClosedIns
  <2>3. Opening(m, 0, "body", <<>>, 0, {}, {})
    BY <2>1, <2>2 DEF Opening
  <2> QED
    BY ONLY <1>3, <2>3
<1>5. CASE SwitchCase(m)
  <2> DEFINE l == CaseLabel(ast, Top.node, Top.id, m)
  <2>1. Top \in FrameType /\ Top.node \in Nodes(ast)
    BY <1>1, VisitFacts DEF Inv
  <2>2. Top.id \in Nat
    BY <2>1 DEF FrameType
  <2>3. l \in LabelType
    BY <2>1, <2>2, <1>1, CaseLabelType DEF Inv
  <2>4. Closed(<<Lab(l)>>, {}, {l})
    BY <2>3, ClosedOne
  <2>5. Open(m, 0, "body", <<Lab(l)>>, 0) /\ ctx' = ctx /\ ast.kind[m] # "switch"
    BY <1>5 DEF SwitchCase, IsCase
  <2> HIDE DEF l
  <2>6. CaseLabel(ast, Top.node, Top.id, m) = l
    BY DEF l
  <2>7. Opening(m, 0, "body", <<Lab(l)>>, 0, {}, {l})
    BY <2>4, <2>5, <2>6 DEF Opening
  <2> QED
    BY ONLY <1>3, <2>7
<1>6. CASE Switch(m)
  <2>1. /\ Open(m, tmp, "dispatch", qbe_expr_val(ast.ex[m], tmp + 1), 1 + Tmps(ast.ex[m]))
        /\ ctx' = ctx /\ ast.kind[m] = "switch" /\ ~IsCase(ast, m)
        /\ 1 + Tmps(ast.ex[m]) \in Nat
    BY <1>2, <1>6 DEF Switch, IsCase
  <2>2. Closed(qbe_expr_val(ast.ex[m], tmp + 1), {}, {})
    BY <1>2, ClosedExpr
  <2> DEFINE lines == qbe_expr_val(ast.ex[m], tmp + 1)
             n == 1 + Tmps(ast.ex[m])
  <2> HIDE DEF lines, n
  <2>3. Opening(m, tmp, "dispatch", lines, n, {}, {})
    BY <2>1, <2>2, <1>2 DEF Opening, lines, n
  <2> QED
    BY ONLY <1>3, <2>3
<1>7. CASE If(m)
  <2> DEFINE id == tmp + Tmps(ast.ex[m])
             e == qbe_expr_val(ast.ex[m], tmp)
             th == L("if_then", id)
             other == IF OneKid(ast, m) THEN "if_end" ELSE "if_else"
             ot == L(other, id)
  <2>1. id \in Nat /\ id + 1 \in Nat
    BY <1>2
  <2>2. th \in LabelType /\ ot \in LabelType
    <3>1. "if_then" \in LabelKinds /\ other \in LabelKinds
      BY DEF LabelKinds
    <3> HIDE DEF id, other
    <3> QED
      BY <2>1, <3>1, LTypes
  <2>3. Closed(e, {}, {})
    BY <1>2, ClosedExpr
  <2>4. Closed(<<Jnz(th, ot), Lab(th)>>, {ot}, {th})
    BY <2>2, ClosedJnzLab
  <2>5. Closed(e \o <<Jnz(th, ot), Lab(th)>>, {} \cup {ot}, {} \cup {th})
    BY <2>3, <2>4, ClosedConcat
  <2>6. Closed(e \o <<Jnz(th, ot), Lab(th)>>, {ot}, {th})
    BY <2>5
  <2>7. Awaited(ast, Frame(m, id, "body", Len(ctx)), ot)
    <3>1. ast.kind[m] = "if"
      BY <1>7 DEF If
    <3> HIDE DEF id
    <3> QED
      BY <3>1 DEF Frame, Awaited
  <2>8. /\ Open(m, id, "body", e \o <<Jnz(th, ot), Lab(th)>>, Tmps(ast.ex[m]) + 1)
        /\ ctx' = ctx /\ ast.kind[m] = "if" /\ ~IsCase(ast, m)
        /\ Tmps(ast.ex[m]) + 1 \in Nat
    BY <1>2, <1>7 DEF If, IsCase
  <2> HIDE DEF id, e, th, ot, other
  <2>9. Opening(m, id, "body", e \o <<Jnz(th, ot), Lab(th)>>, Tmps(ast.ex[m]) + 1, {ot}, {th})
    BY <2>1, <2>6, <2>7, <2>8 DEF Opening
  <2> QED
    BY ONLY <1>3, <2>9
<1> QED
  BY <1>4, <1>5, <1>6, <1>7

(* The key of a goto or label, and the table after it.                     *)
LEMMA KeyFacts ==
    ASSUME Inv, status = "emit", NEW m \in Nodes(ast), ast.kind[m] \in {"goto", "label"},
           NEW lid \in 0 .. Len(labels), ~(lid >= LabelCap)
    PROVE  /\ Table(LabelKey(ast, m), lid) \in Seq(KeyType)
           /\ Len(Table(LabelKey(ast, m), lid)) <= LabelCap
           /\ L("user_label", lid) \in LabelType
<1>1. labels \in Seq(KeyType) /\ Len(labels) <= LabelCap /\ Len(labels) \in Nat
  BY StepFacts
<1>2. lid \in Nat /\ LabelCap \in Nat /\ lid < LabelCap
  BY <1>1, QbeAssumption
<1>3. Body(ast)
  BY BodyFacts DEF Inv
<1>4. LabelKey(ast, m) \in KeyType
  <2>1. ast.name[m] \in STRING /\ ast.len[m] \in 1 .. 4
    BY <1>3 DEF Body
  <2>2. CASE ast.kind[m] = "goto"
    BY <2>1, <2>2 DEF LabelKey, KeyType
  <2>3. CASE ast.kind[m] # "goto"
    <3>1. OneKid(ast, m)
      BY <1>3, <2>3 DEF Body, Single
    <3>2. PICK k \in Nodes(ast) : Kids(ast, m) = {k}
      BY <3>1 DEF OneKid
    <3> DEFINE c == CHOOSE j \in Nodes(ast) : Kids(ast, m) = {j}
    <3>3. c \in Nodes(ast)
      BY <3>2
    <3> HIDE DEF c
    <3>4. ast.kind[c] \in Kinds
      BY <1>3, <3>3 DEF Body
    <3>6. LabelKey(ast, m) = <<"node", ast.kind[c], ast.len[m]>>
      BY <2>3 DEF LabelKey, c
    <3> QED
      BY <2>1, <3>4, <3>6 DEF KeyType
  <2> QED
    BY <2>2, <2>3
<1>5. L("user_label", lid) \in LabelType
  BY <1>2, LTypes DEF LabelKinds
<1>6. /\ Append(labels, LabelKey(ast, m)) \in Seq(KeyType)
      /\ Len(Append(labels, LabelKey(ast, m))) = Len(labels) + 1
  BY <1>1, <1>4, PushStack
<1> QED
  BY <1>1, <1>2, <1>5, <1>6 DEF Table

LEMMA LabelStep ==
    ASSUME Inv, NEW m \in Nodes(ast), Label(m)
    PROVE  Inv'
<1>1. Visit(m) /\ status = "emit" /\ ast.kind[m] = "label"
  BY DEF Label, Visit
<1>2. PICK lid \in 0 .. Len(labels) :
          IF lid >= LabelCap THEN Exit
          ELSE /\ Emit(<<Lab(L("user_label", lid))>>, 0)
               /\ stack' = Append(Saw(m), Frame(m, 0, "body", Len(ctx)))
               /\ labels' = Table(LabelKey(ast, m), lid)
               /\ UNCHANGED <<status, ast, ctx>>
  BY DEF Label
<1>3. CASE lid >= LabelCap
  BY <1>1, <1>2, <1>3, ExitStep
<1>4. CASE ~(lid >= LabelCap)
  <2> DEFINE l == L("user_label", lid)
  <2>1. labels' \in Seq(KeyType) /\ Len(labels') <= LabelCap /\ l \in LabelType
    BY <1>1, <1>2, <1>4, KeyFacts
  <2>2. /\ Emit(<<Lab(l)>>, 0)
        /\ stack' = Append(Saw(m), Frame(m, 0, "body", Len(ctx)))
        /\ ast' = ast /\ status' = status /\ ctx' = ctx
    BY <1>2, <1>4
  <2> HIDE DEF l
  <2>3. Closed(<<Lab(l)>>, {}, {l})
    BY <2>1, ClosedOne
  <2>4. ast.kind[m] \notin Loops /\ ast.kind[m] # "switch" /\ ~IsCase(ast, m)
    BY <1>1 DEF Loops, IsCase
  <2> QED
    BY <1>1, <2>1, <2>2, <2>3, <2>4, PlainOpen
<1> QED
  BY <1>3, <1>4

(* What an entry of qbe_ctx offers to jump to.                             *)
LEMMA CtxJump ==
    ASSUME Inv, status = "emit", NEW j \in DOMAIN ctx,
           NEW k \in {"while_end", "while_cond"}
    PROVE  /\ ctx[j].break_id \in Nat
           /\ ctx[j].is_switch => Pending(ast, stack, L("switch_end", ctx[j].break_id))
           /\ ~ctx[j].is_switch
                => /\ ctx[j].continue_id = ctx[j].break_id
                   /\ \/ L(k, ctx[j].break_id) \in Labels(out)
                      \/ Pending(ast, stack, L(k, ctx[j].break_id))
                      \/ Gap(ast, Labels(out), L(k, ctx[j].break_id))
<1> DEFINE id == ctx[j].break_id
<1>1. ctx[j] \in LoopCtx
  BY StepFacts DEF Inv, TypeInv, TypeOK
<1>2. id \in Nat /\ (~ctx[j].is_switch => ctx[j].continue_id = id)
  BY <1>1 DEF LoopCtx
<1>3. PICK i \in DOMAIN stack : Entry(ast, stack[i], ctx[j])
  BY DEF Inv, JumpInv, Nested
<1>4. /\ stack[i].id = id /\ ast.kind[stack[i].node] \in Loops \cup {"switch"}
      /\ ctx[j].is_switch <=> ast.kind[stack[i].node] = "switch"
  BY <1>3 DEF Entry, Opens
<1> HIDE DEF id
<1>5. FrameOK(ast, stack[i], Labels(out))
  BY DEF Inv, JumpInv, Framed
<1>6. CASE ast.kind[stack[i].node] = "switch"
  <2>1. Awaited(ast, stack[i], L("switch_end", id))
    BY <1>4, <1>6 DEF Awaited
  <2> QED
    BY <1>2, <1>4, <1>6, <2>1 DEF Pending, id
<1>7. CASE ast.kind[stack[i].node] = "while"
  <2>1. Awaited(ast, stack[i], L("while_end", id)) /\ L("while_cond", id) \in Labels(out)
    BY <1>4, <1>5, <1>7 DEF Awaited, FrameOK
  <2>2. L(k, id) \in Labels(out) \/ Pending(ast, stack, L(k, id))
    BY <2>1 DEF Pending
  <2> QED
    BY <1>2, <1>4, <1>7, <2>2 DEF id
<1>8. CASE ast.kind[stack[i].node] \in {"for", "do"}
  <2>1. L("for_cond", id) \in Labels(out) \/ L("do_body", id) \in Labels(out)
    BY <1>4, <1>5, <1>8 DEF FrameOK
  <2>2. L(k, id)[1] = k /\ L(k, id)[2] = id
    BY DEF L
  <2>3. Gap(ast, Labels(out), L(k, id))
    BY <2>1, <2>2 DEF Gap
  <2> QED
    BY <1>2, <1>4, <1>8, <2>3 DEF id
<1> QED
  BY <1>4, <1>6, <1>7, <1>8 DEF Loops

LEMMA JumpStep ==
    ASSUME Inv, NEW m \in Nodes(ast), Break(m) \/ Continue(m) \/ Goto(m)
    PROVE  Inv'
<1>1. Visit(m) /\ status = "emit" /\ ~IsCase(ast, m)
  BY DEF Break, Continue, Goto, Visit, IsCase
<1>2. /\ labels \in Seq(KeyType) /\ Len(labels) <= LabelCap /\ ctx \in Seq(LoopCtx)
  BY <1>1, StepFacts
<1>3. CASE Exit
  BY <1>1, <1>3, ExitStep
<1>4. ASSUME NEW t \in LabelType, Leaf(m, <<Jmp(t)>>, 0), ctx' = ctx,
             labels' \in Seq(KeyType), Len(labels') <= LabelCap,
             \/ t \in Labels(out) \/ Pending(ast, stack, t) \/ Gap(ast, Labels(out), t)
      PROVE  Inv'
  <2>1. Closed(<<Jmp(t)>>, {t}, {})
    BY <1>4, ClosedOne
  <2> QED
    BY <2>1, <1>1, <1>4, LeafStep
<1>5. CASE Break(m) /\ ~Exit
  <2> DEFINE c == ctx[Len(ctx)]
             end == IF c.is_switch THEN "switch_end" ELSE "while_end"
  <2>1. Len(ctx) \in DOMAIN ctx
    BY <1>2, <1>5 DEF Break
  <2>2. /\ Leaf(m, <<Jmp(L(end, c.break_id))>>, 0) /\ ctx' = ctx /\ labels' = labels
    BY <1>5 DEF Break
  <2>3. /\ c.break_id \in Nat
        /\ \/ L(end, c.break_id) \in Labels(out)
           \/ Pending(ast, stack, L(end, c.break_id))
           \/ Gap(ast, Labels(out), L(end, c.break_id))
    BY <2>1, <1>1, CtxJump
  <2>4. end \in LabelKinds
    BY DEF LabelKinds
  <2> HIDE DEF c, end
  <2>5. L(end, c.break_id) \in LabelType
    BY <2>3, <2>4, LTypes
  <2> QED
    BY <1>2, <1>4, <2>2, <2>3, <2>5
<1>6. CASE Continue(m) /\ ~Exit
  <2>1. PICK i \in DOMAIN ctx :
             /\ ~ctx[i].is_switch
             /\ Leaf(m, <<Jmp(L("while_cond", ctx[i].continue_id))>>, 0)
             /\ ctx' = ctx /\ labels' = labels
    BY <1>6 DEF Continue, InnermostLoop
  <2> DEFINE t == L("while_cond", ctx[i].break_id)
  <2>2. /\ ctx[i].break_id \in Nat /\ ctx[i].continue_id = ctx[i].break_id
        /\ t \in Labels(out) \/ Pending(ast, stack, t) \/ Gap(ast, Labels(out), t)
    BY <2>1, <1>1, CtxJump
  <2>3. t \in LabelType
    BY <2>2, LTypes DEF LabelKinds
  <2>4. Leaf(m, <<Jmp(t)>>, 0)
    BY <2>1, <2>2
  <2> HIDE DEF t
  <2> QED
    BY <1>2, <1>4, <2>1, <2>2, <2>3, <2>4
<1>7. CASE Goto(m) /\ ~Exit
  <2>1. PICK lid \in 0 .. Len(labels) :
             /\ ~(lid >= LabelCap)
             /\ Leaf(m, <<Jmp(L("user_label", lid))>>, 0)
             /\ labels' = Table(LabelKey(ast, m), lid) /\ ctx' = ctx
    BY <1>7 DEF Goto
  <2>2. ast.kind[m] = "goto"
    BY <1>7 DEF Goto
  <2>3. /\ labels' \in Seq(KeyType) /\ Len(labels') <= LabelCap
        /\ L("user_label", lid) \in LabelType
    BY <1>1, <2>1, <2>2, KeyFacts
  <2>4. Gap(ast, Labels(out), L("user_label", lid))
    BY DEF Gap, L
  <2> QED
    BY <1>4, <2>1, <2>3, <2>4
<1> QED
  BY <1>3, <1>5, <1>6, <1>7

-----------------------------------------------------------------------------
(* The steps that close a statement.                                       *)

LEMMA TopFacts ==
    ASSUME Inv, status = "emit", stack # <<>>
    PROVE  /\ Top \in FrameType /\ Top.node \in Nodes(ast) /\ Top.id \in Nat
           /\ Len(stack) \in DOMAIN stack /\ Len(stack) \in Nat
           /\ FrameOK(ast, Top, Labels(out))
           /\ Kids(ast, Top.node) \subseteq Nat \ {0}
           /\ ast.ex[Top.node] \in Shapes /\ ast.post[Top.node] \in Shapes
           /\ tmp \in Nat
           /\ Tmps(ast.ex[Top.node]) \in Nat /\ Tmps(ast.post[Top.node]) \in Nat
<1>1. stack \in Seq(FrameType) /\ \A i \in DOMAIN stack : stack[i].node \in Nodes(ast)
  BY DEF Inv, TypeInv, TypeOK
<1>2. Len(stack) \in DOMAIN stack /\ Len(stack) \in Nat
  BY <1>1
<1>3. Top \in FrameType /\ Top.node \in Nodes(ast)
  BY <1>1, <1>2 DEF Top
<1>4. Top.id \in Nat
  BY <1>3 DEF FrameType
<1>5. FrameOK(ast, Top, Labels(out))
  BY <1>2 DEF Inv, JumpInv, Framed, Top
<1>6. Kids(ast, Top.node) \subseteq Nat \ {0}
  BY BodyFacts DEF Kids, Nodes, Inv
<1>7. /\ ast.ex[Top.node] \in Shapes /\ ast.post[Top.node] \in Shapes /\ tmp \in Nat
      /\ Tmps(ast.ex[Top.node]) \in Nat /\ Tmps(ast.post[Top.node]) \in Nat
  BY <1>3, StepFacts
<1> QED
  BY <1>2, <1>3, <1>4, <1>5, <1>6, <1>7

LEMMA PlainClose ==
    ASSUME Inv, EndIf \/ EndPlain
    PROVE  Inv'
<1>1. /\ status = "emit" /\ stack # <<>> /\ ctx' = ctx /\ Exhausted
      /\ Kind \notin Loops \cup {"switch"}
  BY DEF EndIf, EndPlain, Close, Loops
<1>2. /\ FrameOK(ast, Top, Labels(out)) /\ Top.id \in Nat /\ Top.node \in Nodes(ast)
      /\ Kids(ast, Top.node) \subseteq Nat \ {0} /\ Top \in FrameType
  BY <1>1, TopFacts
<1>3. ~Opens(ast, Top)
  BY <1>1 DEF Opens, Kind
<1>4. CASE EndPlain
  <2>1. Close(<<>>, 0) /\ Closed(<<>>, {}, {})
    BY <1>4, ClosedIns DEF EndPlain
  <2>2. \A t : ~Awaited(ast, Top, t)
    BY <1>4 DEF Awaited, EndPlain, Kind
  <2> QED
    BY <1>1, <1>3, <2>1, <2>2, CloseStep
<1>5. CASE EndIf
  <2> DEFINE l == L("if_end", Top.id)
  <2>1. Kind = "if" /\ Close(<<Lab(l)>>, 0)
    BY <1>5 DEF EndIf
  <2>2. Closed(<<Lab(l)>>, {}, {l})
    BY <1>2, LTypes, ClosedOne DEF LabelKinds
  <2>3. OneKid(ast, Top.node) \/ Top.ph # "body"
    <3> SUFFICES ASSUME Top.ph = "body" PROVE OneKid(ast, Top.node)
      OBVIOUS
    <3>1. Kids(ast, Top.node) # {}
      <4>1. Body(ast)
        BY <1>1, BodyFacts DEF Inv
      <4>2. OneKid(ast, Top.node) \/ TwoKids(ast, Top.node)
        BY <4>1, <1>2, <2>1 DEF Body, Kind
      <4> QED
        BY <4>2 DEF OneKid, TwoKids
    <3>2. Top.seen # 0 /\ Top.seen \in Kids(ast, Top.node)
      BY <1>1, <1>2, <3>1 DEF Exhausted, FrameOK
    <3>3. \A k \in Kids(ast, Top.node) : k = Top.seen
      BY <1>1, <1>2, <2>1, <3>2 DEF Exhausted, FrameOK, Kind
    <3>4. Kids(ast, Top.node) = {Top.seen}
      BY <3>2, <3>3
    <3>5. Top.seen \in Nodes(ast)
      BY <3>2 DEF Kids
    <3> QED
      BY <3>4, <3>5 DEF OneKid
  <2>4. \A t : Awaited(ast, Top, t) => t = l
    BY <2>1, <2>3 DEF Awaited, Kind
  <2> HIDE DEF l
  <2> QED
    BY <1>1, <1>3, <2>1, <2>2, <2>4, CloseStep
<1> QED
  BY <1>4, <1>5

LEMMA LoopClose ==
    ASSUME Inv, EndWhile \/ EndDo \/ EndFor
    PROVE  Inv'
<1> DEFINE id == Top.id
<1>1. /\ status = "emit" /\ stack # <<>> /\ ctx' = Pop(ctx)
      /\ Kind \in Loops
  BY DEF EndWhile, EndDo, EndFor, Close, PopCtx, Loops
<1>2. /\ FrameOK(ast, Top, Labels(out)) /\ id \in Nat
      /\ ast.ex[Top.node] \in Shapes /\ ast.post[Top.node] \in Shapes
      /\ tmp \in Nat
      /\ Tmps(ast.ex[Top.node]) \in Nat /\ Tmps(ast.post[Top.node]) \in Nat
  BY <1>1, TopFacts
<1>3. Opens(ast, Top)
  BY <1>1, <1>2 DEF Opens, Kind, FrameOK, Loops
<1>4. ASSUME NEW lines, NEW n \in Nat, NEW X, NEW Y, Closed(lines, X, Y),
             Close(lines, n), \A t : Awaited(ast, Top, t) => t \in Y,
             X \subseteq Labels(out)
      PROVE  Inv'
  <2>1. ctx' = IF Opens(ast, Top) THEN Pop(ctx) ELSE ctx
    BY <1>1, <1>3
  <2> QED
    BY <2>1, <1>4, CloseStep
<1>5. \A k \in LabelKinds : L(k, id) \in LabelType
  BY <1>2, LTypes
<1>6. CASE EndWhile
  <2> DEFINE c == L("while_cond", id)
             x == L("while_end", id)
             j == IF ends_in_terminator(ast, Top.seen) THEN <<>> ELSE <<Jmp(c)>>
  <2>1. c \in LabelType /\ x \in LabelType
    BY <1>5 DEF LabelKinds
  <2>2. Closed(<<Jmp(c)>>, {c}, {}) /\ Closed(<<Lab(x)>>, {}, {x}) /\ Closed(<<>>, {}, {})
    BY <2>1, ClosedOne, ClosedIns
  <2>3. Closed(j, {c}, {})
    BY <2>2 DEF Closed
  <2>4. Closed(j \o <<Lab(x)>>, {c} \cup {}, {} \cup {x})
    BY <2>2, <2>3, ClosedConcat
  <2>5. Closed(j \o <<Lab(x)>>, {c}, {x})
    BY <2>4
  <2>6. Kind = "while" /\ Close(j \o <<Lab(x)>>, 0)
    BY <1>6 DEF EndWhile
  <2>7. c \in Labels(out) /\ \A t : Awaited(ast, Top, t) => t = x
    BY <1>2, <2>6 DEF FrameOK, Awaited, Kind
  <2> HIDE DEF c, x, j
  <2> QED
    BY <1>4, <2>5, <2>6, <2>7
<1>7. CASE EndDo
  <2> DEFINE e == qbe_expr_val(ast.ex[Top.node], tmp)
             c == L("do_cond", id)
             b == L("do_body", id)
             x == L("do_end", id)
  <2>1. c \in LabelType /\ b \in LabelType /\ x \in LabelType
    BY <1>5 DEF LabelKinds
  <2>2. Closed(<<Lab(c)>>, {}, {c}) /\ Closed(<<Jnz(b, x), Lab(x)>>, {b}, {x})
    BY <2>1, ClosedOne, ClosedJnzLab
  <2>3. Closed(e, {}, {})
    BY <1>2, ClosedExpr
  <2>4. Closed(<<Lab(c)>> \o e, {} \cup {}, {c} \cup {})
    BY <2>2, <2>3, ClosedConcat
  <2>5. Closed(<<Lab(c)>> \o e \o <<Jnz(b, x), Lab(x)>>, {} \cup {} \cup {b}, {c} \cup {} \cup {x})
    BY <2>2, <2>4, ClosedConcat
  <2>6. Closed(<<Lab(c)>> \o e \o <<Jnz(b, x), Lab(x)>>, {b}, {})
    BY <2>5 DEF Closed
  <2>7. Kind = "do" /\ Close(<<Lab(c)>> \o e \o <<Jnz(b, x), Lab(x)>>, Tmps(ast.ex[Top.node]))
    BY <1>7 DEF EndDo
  <2>8. b \in Labels(out) /\ \A t : ~Awaited(ast, Top, t)
    BY <1>2, <2>7 DEF FrameOK, Awaited, Kind
  <2> HIDE DEF c, x, b, e
  <2> QED
    BY <1>2, <1>4, <2>6, <2>7, <2>8
<1>8. CASE EndFor
  <2> DEFINE e == qbe_expr_val(ast.post[Top.node], tmp)
             c == L("for_cond", id)
             p == L("for_post", id)
             x == L("for_end", id)
  <2>1. c \in LabelType /\ p \in LabelType /\ x \in LabelType
    BY <1>5 DEF LabelKinds
  <2>2. Closed(<<Lab(p)>>, {}, {p}) /\ Closed(<<Jmp(c), Lab(x)>>, {c}, {x})
    BY <2>1, ClosedOne, ClosedJnzLab
  <2>3. Closed(e, {}, {})
    BY <1>2, ClosedExpr
  <2>4. Closed(<<Lab(p)>> \o e, {} \cup {}, {p} \cup {})
    BY <2>2, <2>3, ClosedConcat
  <2>5. Closed(<<Lab(p)>> \o e \o <<Jmp(c), Lab(x)>>, {} \cup {} \cup {c}, {p} \cup {} \cup {x})
    BY <2>2, <2>4, ClosedConcat
  <2>6. Closed(<<Lab(p)>> \o e \o <<Jmp(c), Lab(x)>>, {c}, {x})
    BY <2>5 DEF Closed
  <2>7. Kind = "for" /\ Close(<<Lab(p)>> \o e \o <<Jmp(c), Lab(x)>>, Tmps(ast.post[Top.node]))
    BY <1>8 DEF EndFor
  <2>8. c \in Labels(out) /\ \A t : Awaited(ast, Top, t) => t = x
    BY <1>2, <2>7 DEF FrameOK, Awaited, Kind
  <2> HIDE DEF c, x, p, e
  <2> QED
    BY <1>2, <1>4, <2>6, <2>7, <2>8
<1> QED
  BY <1>6, <1>7, <1>8

LEMMA SwitchClose ==
    ASSUME Inv, EndSwitch
    PROVE  Inv'
<1> DEFINE l == L("switch_end", Top.id)
<1>1. /\ status = "emit" /\ stack # <<>> /\ ctx' = Pop(ctx) /\ Exhausted
      /\ Kind = "switch" /\ Top.ph = "body" /\ Close(<<Lab(l)>>, 0)
  BY DEF EndSwitch, Close, PopCtx
<1>2. /\ Top.id \in Nat /\ Kids(ast, Top.node) \subseteq Nat \ {0} /\ Top \in FrameType
  BY <1>1, TopFacts
<1>3. Opens(ast, Top)
  BY <1>1 DEF Opens, Kind
<1>4. Closed(<<Lab(l)>>, {}, {l})
  BY <1>2, LTypes, ClosedOne DEF LabelKinds
<1>5. \A t : Awaited(ast, Top, t) => t = l
  <2>1. Top.seen \in Nat
    BY <1>2 DEF FrameType
  <2>2. ~ \E m \in Kids(ast, Top.node) : m > Top.seen
    BY <1>1, <1>2, <2>1 DEF Exhausted
  <2> QED
    BY <1>1, <2>2 DEF Awaited, Kind
<1> HIDE DEF l
<1>6. ctx' = IF Opens(ast, Top) THEN Pop(ctx) ELSE ctx
  BY <1>1, <1>3
<1> QED
  BY <1>1, <1>4, <1>5, <1>6, CloseStep

-----------------------------------------------------------------------------
(* The steps between the parts of an if and of a switch.                   *)

(* The innermost frame becomes g.                                          *)
TopIs(g) == stack' = [stack EXCEPT ![Len(stack)] = g]

LEMMA FrameStep ==
    ASSUME Inv, status = "emit", stack # <<>>, NEW g \in FrameType,
           g.node = Top.node, FrameOK(ast, g, Labels(out)),
           TopIs(g), NEW lines, NEW n \in Nat, NEW X, NEW Y, Closed(lines, X, Y), Emit(lines, n),
           ast' = ast, status' = status, labels' = labels,
           ctx' \in Seq(LoopCtx), Nested(ast, ctx', stack'),
           \A t : Awaited(ast, Top, t) => Awaited(ast, g, t) \/ t \in Y,
           \A t \in X : Awaited(ast, g, t) \/ Gap(ast, Labels(out), t)
    PROVE  Inv'
<1>1. /\ stack \in Seq(FrameType) /\ out \in Seq(Line) /\ Top.node \in Nodes(ast)
  BY TopFacts DEF Inv, TypeInv, TypeOK
<1>2. /\ stack' \in Seq(FrameType) /\ DOMAIN stack' = DOMAIN stack
      /\ Len(stack) \in DOMAIN stack /\ stack'[Len(stack)] = g
      /\ \A i \in DOMAIN stack : i # Len(stack) => stack'[i] = stack[i]
  BY <1>1, TopStack DEF TopIs
<1>3. /\ Labels(out') = Labels(out) \cup Labels(lines)
      /\ out' = out \o lines
  BY <1>1, LabelsConcat DEF Emit, Closed
<1>4. TypeInv'
  <2>1. out' \in Seq(Line) /\ tmp' \in Nat
    BY EmitType DEF Inv, Closed
  <2>2. \A i \in DOMAIN stack' : stack'[i].node \in Nodes(ast)
    BY <1>1, <1>2 DEF Inv, TypeInv, TypeOK
  <2> QED
    BY <2>1, <2>2, <1>2 DEF TypeInv, TypeOK, Inv, Nodes
<1>5. Framed(ast, out', stack')
  <2> SUFFICES ASSUME NEW i \in DOMAIN stack' PROVE FrameOK(ast, stack'[i], Labels(out'))
    BY DEF Framed
  <2>1. FrameOK(ast, stack'[i], Labels(out))
    BY <1>2 DEF Inv, JumpInv, Framed
  <2> QED
    BY <2>1, <1>3, FrameMonotone
<1>6. \A t : Pending(ast, stack, t) => Pending(ast, stack', t) \/ t \in Labels(lines)
  BY <1>2 DEF Pending, Top, Closed
<1>7. \A t \in X : Pending(ast, stack', t) \/ Gap(ast, Labels(out), t)
  BY <1>2 DEF Pending
<1>8. Resolved(ast, out', stack')
  <2>1. Resolved(ast, out, stack)
    BY DEF Inv, JumpInv
  <2> QED
    BY <2>1, <1>1, <1>3, <1>6, <1>7, ResolvedEmit
<1> QED
  BY <1>4, <1>5, <1>8 DEF Inv, JumpInv

LEMMA ElseStep ==
    ASSUME Inv, Else
    PROVE  Inv'
<1> DEFINE g == [Top EXCEPT !.ph = "else"]
           x == L("if_end", Top.id)
           l == L("if_else", Top.id)
           j == IF ends_in_terminator(ast, Top.seen) THEN <<>> ELSE <<Jmp(x)>>
<1>1. /\ status = "emit" /\ stack # <<>> /\ Kind = "if" /\ Top.ph = "body"
      /\ Emit(j \o <<Lab(l)>>, 0) /\ UNCHANGED <<status, ast, ctx, labels>>
      /\ stack' = [stack EXCEPT ![Len(stack)].ph = "else"]
  BY DEF Else
<1>2. /\ Top \in FrameType /\ Top.id \in Nat /\ FrameOK(ast, Top, Labels(out))
  BY <1>1, TopFacts
<1>3. /\ stack \in Seq(FrameType) /\ ctx \in Seq(LoopCtx) /\ Nested(ast, ctx, stack)
  BY <1>1 DEF Inv, JumpInv, TypeInv, TypeOK
<1>4. /\ g \in FrameType /\ g.node = Top.node /\ g.id = Top.id /\ g.depth = Top.depth
      /\ g.ph = "else" /\ g.seen = Top.seen
  BY <1>2 DEF FrameType
<1>5. stack' = [stack EXCEPT ![Len(stack)] = g]
  BY <1>1 DEF Top
<1>6. Closed(j \o <<Lab(l)>>, {x}, {l})
  <2>1. x \in LabelType /\ l \in LabelType
    BY <1>2, LTypes DEF LabelKinds
  <2>2. Closed(<<Jmp(x)>>, {x}, {}) /\ Closed(<<Lab(l)>>, {}, {l}) /\ Closed(<<>>, {}, {})
    BY <2>1, ClosedOne, ClosedIns
  <2>3. Closed(j, {x}, {})
    BY <2>2 DEF Closed
  <2>4. Closed(j \o <<Lab(l)>>, {x} \cup {}, {} \cup {l})
    BY <2>2, <2>3, ClosedConcat
  <2> QED
    BY <2>4
<1> HIDE DEF g, j
<1>7. FrameOK(ast, g, Labels(out))
  BY <1>1, <1>2, <1>4 DEF FrameOK, Kind
<1>8. Nested(ast, ctx', stack')
  <2>1. Opens(ast, g) <=> Opens(ast, stack[Len(stack)])
    BY <1>1, <1>4 DEF Opens, Kind, Top, Loops
  <2>2. Nested(ast, ctx, stack')
    BY <2>1, <1>3, <1>4, <1>5, NestedSame DEF Top
  <2> QED
    BY <2>2, <1>1
<1>9. Awaited(ast, g, x) /\ \A t : Awaited(ast, Top, t) => Awaited(ast, g, t) \/ t = l
  BY <1>1, <1>4 DEF Awaited, Kind
<1> DEFINE lines == j \o <<Lab(l)>>
<1>10. Closed(lines, {x}, {l}) /\ Emit(lines, 0) /\ 0 \in Nat
  BY <1>1, <1>6
<1> HIDE DEF x, l, lines
<1>11. /\ TopIs(g) /\ ctx' \in Seq(LoopCtx) /\ ast' = ast /\ status' = status /\ labels' = labels
       /\ \A t : Awaited(ast, Top, t) => Awaited(ast, g, t) \/ t \in {l}
       /\ \A t \in {x} : Awaited(ast, g, t) \/ Gap(ast, Labels(out), t)
  BY <1>1, <1>3, <1>5, <1>9 DEF TopIs
<1>12. status = "emit" /\ stack # <<>> /\ g.node = Top.node /\ g \in FrameType
  BY <1>1, <1>4
<1> QED
  BY <1>7, <1>8, <1>10, <1>11, <1>12, FrameStep

(* A case that is dispatched is printed by its switch, or is in a nested   *)
(* compound.                                                               *)
LEMMA CaseAwaited ==
    ASSUME Inv, status = "emit", stack # <<>>, Kind = "switch",
           NEW m \in FlatCases(ast, Top.node),
           NEW g, g.node = Top.node, g.id = Top.id, g.seen = 0
    PROVE  \/ Awaited(ast, g, CaseLabel(ast, Top.node, Top.id, m))
           \/ Gap(ast, Labels(out), CaseLabel(ast, Top.node, Top.id, m))
<1> DEFINE c == CaseLabel(ast, Top.node, Top.id, m)
<1>1. m \in Nodes(ast)
  BY DEF FlatCases, Queued, Walked
<1>2. c = <<"case", Top.id, m>>
  BY DEF CaseLabel, CaseUid
<1>3. CASE ast.kind[ast.par[m]] # "switch"
  BY <1>1, <1>2, <1>3 DEF Gap
<1>4. CASE ast.kind[ast.par[m]] = "switch"
  <2>1. ast.par[m] \in Containers(ast, Top.node) /\ IsCase(ast, m)
    BY DEF FlatCases, Queued, Walked
  <2>2. ast.par[m] = Top.node
    BY <2>1, <1>4 DEF Containers
  <2>3. m \in Kids(ast, Top.node) /\ m > 0
    BY <2>2, <1>1, TopFacts DEF Kids
  <2> QED
    BY <2>1, <2>3 DEF Awaited, Kind
<1> QED
  BY <1>3, <1>4

LEMMA DispatchStep ==
    ASSUME Inv, NEW m \in Nodes(ast), DispatchCase(m)
    PROVE  Inv'
<1> DEFINE g == [Top EXCEPT !.disp = @ \cup {m}]
           c == CaseLabel(ast, Top.node, Top.id, m)
           x == <<"switch_next", Top.id, m>>
           e == qbe_expr_val(ast.ex[m], tmp)
<1>1. /\ status = "emit" /\ stack # <<>> /\ Top.ph = "dispatch"
      /\ m \in FlatCases(ast, Top.node)
      /\ Emit(e \o <<Ins>> \o <<Jnz(c, x), Lab(x)>>, Tmps(ast.ex[m]) + 1)
      /\ UNCHANGED <<status, ast, ctx, labels>>
      /\ stack' = [stack EXCEPT ![Len(stack)].disp = @ \cup {m}]
  BY DEF DispatchCase, NextCase, Dispatching, Undispatched
<1>2. /\ Top \in FrameType /\ Top.id \in Nat /\ FrameOK(ast, Top, Labels(out))
      /\ Top.node \in Nodes(ast)
  BY <1>1, TopFacts
<1>3. /\ stack \in Seq(FrameType) /\ ctx \in Seq(LoopCtx) /\ Nested(ast, ctx, stack)
  BY <1>1 DEF Inv, JumpInv, TypeInv, TypeOK
<1>4. /\ m \in Nat /\ tmp \in Nat /\ ast.ex[m] \in Shapes /\ Tmps(ast.ex[m]) \in Nat
      /\ Tmps(ast.ex[m]) + 1 \in Nat
  BY <1>1, StepFacts
<1>5. /\ g \in FrameType /\ g.node = Top.node /\ g.id = Top.id /\ g.depth = Top.depth
      /\ g.ph = "dispatch" /\ g.seen = Top.seen
  BY <1>1, <1>2, <1>4 DEF FrameType
<1>6. stack' = [stack EXCEPT ![Len(stack)] = g]
  BY <1>1 DEF Top
<1>7. Kind = "switch" /\ Top.seen = 0
  BY <1>1, <1>2 DEF FrameOK, Kind
<1>8. Closed(e \o <<Ins>> \o <<Jnz(c, x), Lab(x)>>, {c}, {})
  <2>1. c \in LabelType
    BY <1>1, <1>2, CaseLabelType DEF Inv
  <2>2. x \in LabelType
    BY <1>2, <1>4 DEF LabelType, LabelKinds
  <2>3. Closed(e, {}, {}) /\ Closed(<<Ins>>, {}, {})
    BY <1>4, ClosedExpr, ClosedIns
  <2> HIDE DEF e, c, x
  <2>4. Closed(<<Jnz(c, x), Lab(x)>>, {c}, {x})
    BY <2>1, <2>2, ClosedJnzLab
  <2>5. Closed(e \o <<Ins>>, {} \cup {}, {} \cup {})
    BY <2>3, ClosedConcat
  <2>6. Closed(e \o <<Ins>> \o <<Jnz(c, x), Lab(x)>>, {} \cup {} \cup {c}, {} \cup {} \cup {x})
    BY <2>4, <2>5, ClosedConcat
  <2> QED
    BY <2>6 DEF Closed
<1>9. Awaited(ast, g, c) \/ Gap(ast, Labels(out), c)
  BY <1>1, <1>5, <1>7, CaseAwaited
<1>10. \A t : Awaited(ast, Top, t) => Awaited(ast, g, t)
  BY <1>1, <1>5 DEF Awaited
<1> HIDE DEF g, c, x, e
<1>11. FrameOK(ast, g, Labels(out))
  BY <1>2, <1>5, <1>1 DEF FrameOK
<1>12. Nested(ast, ctx', stack')
  <2>1. Opens(ast, g) <=> Opens(ast, stack[Len(stack)])
    BY <1>1, <1>5 DEF Opens, Top
  <2>2. Nested(ast, ctx, stack')
    BY <2>1, <1>3, <1>5, <1>6, NestedSame DEF Top
  <2> QED
    BY <2>2, <1>1
<1> DEFINE lines == e \o <<Ins>> \o <<Jnz(c, x), Lab(x)>>
           n == Tmps(ast.ex[m]) + 1
<1>13. Closed(lines, {c}, {}) /\ Emit(lines, n) /\ n \in Nat
  BY <1>1, <1>4, <1>8 DEF e, c, x
<1> HIDE DEF lines, n
<1>14. /\ TopIs(g) /\ ctx' \in Seq(LoopCtx) /\ ast' = ast /\ status' = status /\ labels' = labels
       /\ \A t : Awaited(ast, Top, t) => Awaited(ast, g, t) \/ t \in {}
       /\ \A t \in {c} : Awaited(ast, g, t) \/ Gap(ast, Labels(out), t)
  BY <1>1, <1>3, <1>6, <1>9, <1>10 DEF TopIs
<1>15. status = "emit" /\ stack # <<>> /\ g.node = Top.node /\ g \in FrameType
  BY <1>1, <1>5
<1> QED
  BY <1>11, <1>12, <1>13, <1>14, <1>15, FrameStep

(* The innermost frame gets its entry of qbe_ctx.                          *)
LEMMA NestedTop ==
    ASSUME NEW a, NEW c \in Seq(LoopCtx), NEW st \in Seq(FrameType), NEW f \in FrameType,
           Nested(a, c, st), Len(st) > 1, ~Opens(a, st[Len(st)]),
           NEW st2, st2 = [st EXCEPT ![Len(st)] = f],
           NEW e \in LoopCtx, NEW c2 \in Seq(LoopCtx), c2 = Append(c, e),
           Entry(a, f, e), f.depth = Len(c2)
    PROVE  Nested(a, c2, st2)
<1>1. PICK n \in Nat : /\ n = Len(st) /\ n > 1 /\ DOMAIN st = 1 .. n /\ n - 1 \in Nat
                       /\ Len(c) \in Nat /\ DOMAIN c = 1 .. Len(c)
  OBVIOUS
<1>2. /\ st2 \in Seq(FrameType) /\ Len(st2) = n /\ DOMAIN st2 = 1 .. n
      /\ st2[n] = f /\ \A i \in 1 .. n : i # n => st2[i] = st[i]
  BY <1>1, TopStack
<1>3. /\ Len(c2) = Len(c) + 1 /\ DOMAIN c2 = 1 .. (Len(c) + 1)
      /\ c2[Len(c) + 1] = e /\ \A j \in 1 .. Len(c) : c2[j] = c[j]
  BY PushStack
<1>4. st[n].depth = Len(c) /\ f.depth = Len(c) + 1 /\ Opens(a, f)
  BY <1>1, <1>3 DEF Nested, Entry
<1>5. /\ st2 # <<>> /\ st2[1].depth = 0 /\ st2[1].node = 1 /\ st2[Len(st2)].depth = Len(c2)
  <2>1. 1 \in 1 .. n /\ 1 # n
    BY <1>1
  <2> QED
    BY <1>1, <1>2, <2>1 DEF Nested
<1>6. ASSUME NEW i \in 1 .. (Len(st2) - 1)
      PROVE  st2[i + 1].depth = st2[i].depth + IF Opens(a, st2[i + 1]) THEN 1 ELSE 0
  <2>1. i \in 1 .. (Len(st) - 1) /\ i \in 1 .. n /\ i # n /\ i + 1 \in 1 .. n /\ i \in DOMAIN st
    BY <1>1, <1>2
  <2>2. st[i + 1].depth = st[i].depth + IF Opens(a, st[i + 1]) THEN 1 ELSE 0
    BY <2>1 DEF Nested
  <2>3. CASE i + 1 = n
    <3>0. st[i] \in FrameType
      BY <2>1
    <3>1. st[i].depth \in Nat
      BY <3>0 DEF FrameType
    <3>2. st[i].depth = Len(c)
      BY <2>2, <2>3, <3>1, <1>1, <1>4
    <3> QED
      BY <2>1, <2>3, <3>2, <1>2, <1>4
  <2>4. CASE i + 1 # n
    BY <2>1, <2>2, <2>4, <1>2
  <2> QED
    BY <2>3, <2>4
<1>7. ASSUME NEW j \in DOMAIN c2
      PROVE  \E i \in DOMAIN st2 : st2[i].depth = j /\ Entry(a, st2[i], c2[j])
  <2>1. CASE j = Len(c) + 1
    <3>1. n \in DOMAIN st2
      BY <1>1, <1>2
    <3> QED
      BY <2>1, <3>1, <1>2, <1>3, <1>4
  <2>2. CASE j # Len(c) + 1
    <3>1. j \in DOMAIN c /\ c2[j] = c[j]
      BY <2>2, <1>1, <1>3
    <3>2. PICK i \in DOMAIN st : st[i].depth = j /\ Entry(a, st[i], c[j])
      BY <3>1 DEF Nested
    <3>3. i # n
      BY <3>2, <1>1 DEF Entry
    <3> QED
      BY <3>1, <3>2, <3>3, <1>1, <1>2
  <2> QED
    BY <2>1, <2>2
<1> QED
  BY <1>5, <1>6, <1>7 DEF Nested

LEMMA DispatchEndStep ==
    ASSUME Inv, DispatchEnd
    PROVE  Inv'
<1> DEFINE g == [Top EXCEPT !.ph = "body", !.depth = Len(ctx')]
           x == L("switch_end", Top.id)
<1>1. /\ status = "emit" /\ stack # <<>> /\ Top.ph = "dispatch"
      /\ PushCtx(Top.id, TRUE) /\ UNCHANGED <<status, ast, labels>>
      /\ stack' = [stack EXCEPT ![Len(stack)].ph = "body", ![Len(stack)].depth = Len(ctx')]
  BY DEF DispatchEnd, Dispatching
<1>2. /\ Top \in FrameType /\ Top.id \in Nat /\ FrameOK(ast, Top, Labels(out))
      /\ Top.node \in Nodes(ast) /\ Len(stack) \in Nat /\ Len(stack) \in DOMAIN stack
  BY <1>1, TopFacts
<1>3. /\ stack \in Seq(FrameType) /\ ctx \in Seq(LoopCtx) /\ Nested(ast, ctx, stack)
  BY <1>1 DEF Inv, JumpInv, TypeInv, TypeOK
<1>4. Kind = "switch" /\ Top.seen = 0
  BY <1>1, <1>2 DEF FrameOK, Kind
<1>5. /\ ctx' \in Seq(LoopCtx) /\ Len(ctx') \in Nat
      /\ \E e \in LoopCtx : /\ ctx' = Append(ctx, e)
                            /\ e.break_id = Top.id /\ e.is_switch = TRUE
  <2>1. TRUE \in BOOLEAN /\ ctx \in Seq(LoopCtx) /\ Top.id \in Nat /\ PushCtx(Top.id, TRUE)
    BY <1>1, <1>2, <1>3
  <2> QED
    BY <2>1, PushFacts
<1>6. /\ g \in FrameType /\ g.node = Top.node /\ g.id = Top.id /\ g.depth = Len(ctx')
      /\ g.ph = "body" /\ g.seen = Top.seen
  BY <1>2, <1>5 DEF FrameType
<1>7. stack' = [stack EXCEPT ![Len(stack)] = g]
  BY <1>1, <1>2, <1>3 DEF Top
<1>8. PICK e \in LoopCtx : /\ ctx' = Append(ctx, e)
                          /\ e.break_id = Top.id /\ e.is_switch = TRUE
  BY <1>5
<1> HIDE DEF g
<1>9. Entry(ast, g, e) /\ ~Opens(ast, Top)
  BY <1>1, <1>4, <1>6, <1>8 DEF Entry, Opens, Kind
<1>10. Len(stack) > 1
  <2>1. Body(ast)
    BY <1>1, BodyFacts DEF Inv
  <2>2. ast.kind[stack[1].node] = "compound"
    BY <1>3, <2>1 DEF Nested, Body
  <2>3. Len(stack) # 1
    BY <2>2, <1>4 DEF Kind, Top
  <2>4. Len(stack) # 0
    BY <1>1, <1>3
  <2>5. \A n \in Nat : n # 0 /\ n # 1 => n > 1
    OBVIOUS
  <2> QED
    BY <1>2, <2>3, <2>4, <2>5
<1>11. Nested(ast, ctx', stack')
  BY <1>3, <1>5, <1>6, <1>7, <1>8, <1>9, <1>10, NestedTop DEF Top
<1>12. FrameOK(ast, g, Labels(out))
  BY <1>2, <1>4, <1>6 DEF FrameOK, Kind
<1>13. Awaited(ast, g, x) /\ \A t : Awaited(ast, Top, t) => Awaited(ast, g, t) \/ t \in {}
  BY <1>4, <1>6 DEF Awaited, Kind
<1>14. ASSUME NEW t \in LabelType, Emit(<<Jmp(t)>>, 0),
              Awaited(ast, g, t) \/ Gap(ast, Labels(out), t)
       PROVE  Inv'
  <2>1. Closed(<<Jmp(t)>>, {t}, {}) /\ 0 \in Nat
    BY <1>14, ClosedOne
  <2>2. \A u \in {t} : Awaited(ast, g, u) \/ Gap(ast, Labels(out), u)
    BY <1>14
  <2>3. /\ TopIs(g) /\ ast' = ast /\ status' = status /\ labels' = labels
        /\ status = "emit" /\ stack # <<>> /\ g.node = Top.node /\ g \in FrameType
        /\ ctx' \in Seq(LoopCtx)
    BY <1>1, <1>5, <1>6, <1>7 DEF TopIs
  <2> QED
    BY <1>11, <1>12, <1>13, <1>14, <2>1, <2>2, <2>3, FrameStep
<1>15. CASE Emit(<<Jmp(x)>>, 0)
  <2>1. x \in LabelType
    BY <1>2, LTypes DEF LabelKinds
  <2> HIDE DEF x
  <2> QED
    BY <1>13, <1>14, <1>15, <2>1
<1>16. CASE \E m \in Nodes(ast) :
             LastDefault(m) /\ Emit(<<Jmp(CaseLabel(ast, Top.node, Top.id, m))>>, 0)
  <2>1. PICK m \in Nodes(ast) :
             LastDefault(m) /\ Emit(<<Jmp(CaseLabel(ast, Top.node, Top.id, m))>>, 0)
    BY <1>16
  <2> DEFINE c == CaseLabel(ast, Top.node, Top.id, m)
  <2>2. c \in LabelType
    BY <1>1, <1>2, CaseLabelType DEF Inv
  <2>3. m \in FlatCases(ast, Top.node)
    BY <2>1 DEF LastDefault
  <2>4. Awaited(ast, g, c) \/ Gap(ast, Labels(out), c)
    BY <1>4, <1>6, <2>3, <1>1, CaseAwaited
  <2> HIDE DEF c
  <2>5. Emit(<<Jmp(c)>>, 0)
    BY <2>1 DEF c
  <2> QED
    BY <1>14, <2>2, <2>4, <2>5
<1> QED
  BY <1>15, <1>16 DEF DispatchEnd

-----------------------------------------------------------------------------
(* The steps of qbe_emit.                                                  *)

LEMMA StartStep ==
    ASSUME Inv, NEW a \in Asts, StartFunction(a)
    PROVE  Inv'
<1> DEFINE f == Frame(1, 0, "body", 0)
           l == L("start", 0)
<1>1. /\ status = "idle" /\ status' = "emit" /\ ast' = a /\ out' = <<Lab(l)>>
      /\ ctx = <<>> /\ stack' = <<f>> /\ tmp' = tmp /\ ctx' = ctx /\ labels' = labels
  BY DEF StartFunction, Inv, JumpInv
<1>2. /\ Body(a) /\ 1 \in Nodes(a) /\ a.kind[1] = "compound" /\ a # NoBody
  <2>1. Body(a)
    BY QbeAssumption
  <2> QED
    BY <2>1 DEF Body, Nodes, NoBody
<1>3. /\ f \in FrameType /\ f.node = 1 /\ f.id = 0 /\ f.seen = 0 /\ f.ph = "body"
      /\ f.depth = 0
  BY DEF Frame, FrameType
<1>4. Closed(<<Lab(l)>>, {}, {l})
  BY LTypes, ClosedOne DEF LabelKinds
<1> HIDE DEF f, l
<1>5. /\ stack' \in Seq(FrameType) /\ Len(stack') = 1 /\ DOMAIN stack' = {1} /\ stack'[1] = f
  BY <1>1, <1>3
<1>6. TypeInv'
  BY <1>1, <1>2, <1>3, <1>4, <1>5 DEF Inv, TypeInv, TypeOK, Nodes, Closed
<1>7. Framed(a, out', stack')
  BY <1>2, <1>3, <1>5 DEF Framed, FrameOK
<1>8. Nested(a, ctx', stack')
  BY <1>1, <1>3, <1>5 DEF Nested
<1>9. Resolved(a, out', stack')
  BY <1>1, <1>4 DEF Resolved, Closed
<1> QED
  BY <1>1, <1>6, <1>7, <1>8, <1>9 DEF Inv, JumpInv

LEMMA EndFunctionStep ==
    ASSUME Inv, EndFunction
    PROVE  Inv'
<1> DEFINE r == IF ends_in_terminator(ast, 1) THEN <<>> ELSE <<Ret>>
<1>1. /\ status = "emit" /\ Len(stack) = 1 /\ status' = "done" /\ out' = out \o r
      /\ stack' = <<>> /\ ast' = ast /\ tmp' = tmp /\ ctx' = ctx /\ labels' = labels
  BY DEF EndFunction
<1>2. Closed(r, {}, {})
  BY ClosedIns
<1> HIDE DEF r
<1>3. /\ out \in Seq(Line) /\ stack \in Seq(FrameType) /\ ctx \in Seq(LoopCtx)
      /\ Nested(ast, ctx, stack) /\ Resolved(ast, out, stack)
  BY <1>1 DEF Inv, TypeInv, TypeOK, JumpInv
<1>4. ctx = <<>>
  <2>1. Len(ctx) = 0
    BY <1>1, <1>3 DEF Nested
  <2> QED
    BY <1>3, <2>1
<1>5. \A t : ~Pending(ast, stack, t)
  <2>1. DOMAIN stack = {1} /\ stack[1].node = 1
    BY <1>1, <1>3 DEF Nested
  <2>2. ast.kind[1] = "compound"
    BY <1>1, BodyFacts DEF Inv, Body
  <2> QED
    BY <2>1, <2>2 DEF Pending, Awaited
<1>6. Resolved(ast, out', stack')
  BY <1>1, <1>2, <1>3, <1>5, ResolvedEmit
<1>7. out' \in Seq(Line)
  BY <1>1, <1>2, <1>3, LabelsConcat DEF Closed
<1>8. TypeInv'
  BY <1>1, <1>7 DEF Inv, TypeInv, TypeOK, Nodes
<1> QED
  BY <1>1, <1>4, <1>6, <1>8 DEF Inv, JumpInv

LEMMA NextFunctionStep ==
    ASSUME Inv, NextFunction
    PROVE  Inv'
<1>1. /\ status = "done" /\ status' = "idle" /\ ast' = NoBody /\ out' = <<>> /\ tmp' = 0
      /\ labels' = <<>> /\ ctx' = <<>> /\ stack' = <<>>
  BY DEF NextFunction, Inv, JumpInv, TypeInv
<1>2. TypeInv'
  <2>1. 0 <= LabelCap
    BY QbeAssumption
  <2>2. <<>> \in Seq(Line) /\ <<>> \in Seq(LoopCtx) /\ <<>> \in Seq(KeyType)
        /\ <<>> \in Seq(FrameType) /\ Len(labels') = 0 /\ DOMAIN stack' = {}
    BY <1>1
  <2> QED
    BY <1>1, <2>1, <2>2 DEF TypeInv, TypeOK
<1> QED
  BY <1>1, <1>2 DEF Inv, JumpInv

LEMMA StutterStep ==
    ASSUME Inv, UNCHANGED vars
    PROVE  Inv'
<1>1. /\ status' = status /\ ast' = ast /\ out' = out /\ tmp' = tmp /\ ctx' = ctx
      /\ labels' = labels /\ stack' = stack
  BY DEF vars
<1>2. TypeInv'
  BY <1>1 DEF Inv, TypeInv, TypeOK, Nodes
<1>3. JumpInv'
  BY <1>1 DEF Inv, JumpInv
<1> QED
  BY <1>2, <1>3 DEF Inv

-----------------------------------------------------------------------------
LEMMA InitInv == Init => Inv
<1> SUFFICES ASSUME Init PROVE Inv
  OBVIOUS
<1>1. 0 <= LabelCap
  BY QbeAssumption
<1>2. <<>> \in Seq(Line) /\ <<>> \in Seq(LoopCtx) /\ <<>> \in Seq(KeyType)
      /\ <<>> \in Seq(FrameType) /\ Len(labels) = 0 /\ DOMAIN stack = {}
  BY DEF Init
<1>3. TypeInv
  BY <1>1, <1>2 DEF Init, TypeInv, TypeOK
<1> QED
  BY <1>3 DEF Init, Inv, JumpInv

LEMMA EmitInv ==
    ASSUME Inv, EmitStep
    PROVE  Inv'
<1>1. status = "emit"
  BY DEF EmitStep
<1>2. CASE DispatchEnd
  BY <1>2, DispatchEndStep
<1>3. CASE Else
  BY <1>3, ElseStep
<1>4. CASE EndIf \/ EndPlain
  BY <1>4, PlainClose
<1>5. CASE EndWhile \/ EndDo \/ EndFor
  BY <1>5, LoopClose
<1>6. CASE EndSwitch
  BY <1>6, SwitchClose
<1>7. CASE RejectClose
  BY <1>1, <1>7, ExitStep DEF RejectClose
<1>8. CASE EndFunction
  BY <1>8, EndFunctionStep
<1>9. ASSUME NEW m \in Nodes(ast), Statement(m)
      PROVE  Inv'
  <2>1. CASE Compound(m) \/ StandaloneCase(m) \/ SwitchCase(m) \/ If(m) \/ Switch(m)
    BY <2>1, BranchStep
  <2>2. CASE ExprStmt(m) \/ VarDecl(m) \/ Return(m)
    BY <2>2, SimpleStep
  <2>3. CASE While(m) \/ Do(m) \/ For(m)
    BY <2>3, LoopStep
  <2>4. CASE Break(m) \/ Continue(m) \/ Goto(m)
    BY <2>4, JumpStep
  <2>5. CASE Label(m)
    BY <2>5, LabelStep
  <2>6. CASE RejectVisit(m) \/ RejectCase(m)
    BY <1>1, <2>6, ExitStep DEF RejectVisit, RejectCase
  <2>7. CASE DispatchCase(m)
    BY <2>7, DispatchStep
  <2> QED
    BY <1>9, <2>1, <2>2, <2>3, <2>4, <2>5, <2>6, <2>7 DEF Statement
<1> QED
  BY <1>2, <1>3, <1>4, <1>5, <1>6, <1>7, <1>8, <1>9 DEF EmitStep, Ending

(* Inv is inductive.                                                       *)
THEOREM Invariance == Spec => []Inv
<1>1. Inv /\ [Next]_vars => Inv'
  <2> SUFFICES ASSUME Inv, [Next]_vars PROVE Inv'
    OBVIOUS
  <2>1. ASSUME NEW a \in Asts, StartFunction(a) PROVE Inv'
    BY <2>1, StartStep
  <2>2. CASE EmitStep
    BY <2>2, EmitInv
  <2>3. CASE NextFunction
    BY <2>3, NextFunctionStep
  <2>4. CASE Exited
    BY <2>4, StutterStep DEF Exited
  <2>5. CASE UNCHANGED vars
    BY <2>5, StutterStep
  <2> QED
    BY <2>1, <2>2, <2>3, <2>4, <2>5 DEF Next
<1> QED
  BY <1>1, InitInv, PTL DEF Spec

(* The emitter's variables keep their types, whatever the function bodies: *)
(* every line printed is IL over the label kinds, qbe_labels stays within  *)
(* its capacity, every pending call is for a node of the body.             *)
THEOREM TypeCorrect == Spec => []TypeOK
<1>1. Inv => TypeOK
  BY DEF Inv, TypeInv
<1> QED
  BY <1>1, Invariance, PTL

(* Whatever the function bodies and however deeply they nest, a closed     *)
(* function has printed every label its jumps name, but for the known      *)
(* gaps.                                                                   *)
THEOREM JumpsAlwaysResolve == Spec => []JumpsResolve
<1>1. Inv => JumpsResolve
  <2> SUFFICES ASSUME Inv, status = "done", NEW t \in Targets(out)
               PROVE  t \in Labels(out) \/ KnownGap(t)
    BY DEF JumpsResolve
  <2>1. stack = <<>> /\ Resolved(ast, out, stack)
    BY DEF Inv, TypeInv, JumpInv
  <2>2. ~Pending(ast, stack, t)
    BY <2>1 DEF Pending
  <2> QED
    BY <2>1, <2>2 DEF Resolved, Gap, KnownGap
<1> QED
  BY <1>1, Invariance, PTL

-----------------------------------------------------------------------------
(* qbe_ctx against the pending calls.  The depth a frame remembers is the  *)
(* number of entries pushed up to it.                                      *)

LEMMA DepthCounts ==
    ASSUME Inv, status = "emit", NEW i \in DOMAIN stack
    PROVE  IsFiniteSet(Entered(i)) /\ stack[i].depth = Cardinality(Entered(i))
<1>1. /\ stack \in Seq(FrameType) /\ Nested(ast, ctx, stack) /\ Body(ast)
  BY BodyFacts DEF Inv, TypeInv, TypeOK, JumpInv
<1>2. PICK n \in Nat : n = Len(stack) /\ DOMAIN stack = 1 .. n
  BY <1>1
<1>3. \A k \in 1 .. n : stack[k].depth \in Nat
  <2>1. \A k \in 1 .. n : stack[k] \in FrameType
    BY <1>1, <1>2
  <2> QED
    BY <2>1 DEF FrameType
<1>4. \A k \in 1 .. n : IsFiniteSet(Entered(k))
  <2> SUFFICES ASSUME NEW k \in 1 .. n PROVE IsFiniteSet(Entered(k))
    OBVIOUS
  <2>1. IsFiniteSet(1 .. k) /\ Entered(k) \subseteq 1 .. k
    BY FS_Interval DEF Entered
  <2> QED
    BY <2>1, FS_Subset
<1> DEFINE bad == {k \in 1 .. n : stack[k].depth # Cardinality(Entered(k))}
<1>5. ASSUME bad # {} PROVE FALSE
  <2>1. PICK k \in bad : \A j \in bad : k <= j
    <3>1. bad \in SUBSET Nat
      OBVIOUS
    <3> HIDE DEF bad
    <3> QED
      BY <3>1, <1>5, HasSmallest
  <2>2. CASE k = 1
    <3>1. stack[1].depth = 0 /\ stack[1].node = 1
      BY <1>1 DEF Nested
    <3>2. ~HasCtx(stack[1])
      BY <1>1, <3>1 DEF HasCtx, Loops, Body
    <3>3. Entered(1) = {}
      BY <3>2 DEF Entered
    <3>4. Cardinality(Entered(1)) = 0
      BY <3>3, FS_EmptySet
    <3> QED
      BY <2>1, <2>2, <3>1, <3>4
  <2>3. CASE k # 1
    <3>1. PICK l \in 1 .. (n - 1) : k = l + 1
      BY <2>1, <2>3
    <3>2. l \in 1 .. n /\ stack[l].depth = Cardinality(Entered(l))
      BY <2>1, <3>1
    <3>3. stack[k].depth = stack[l].depth + IF Opens(ast, stack[k]) THEN 1 ELSE 0
      BY <1>1, <1>2, <3>1 DEF Nested
    <3>4. Opens(ast, stack[k]) <=> HasCtx(stack[k])
      BY DEF Opens, HasCtx
    <3>5. k \notin Entered(l) /\ IsFiniteSet(Entered(l))
      BY <1>4, <3>1, <3>2 DEF Entered
    <3>6. CASE HasCtx(stack[k])
      <4>1. Entered(k) = Entered(l) \cup {k}
        BY <3>1, <3>6 DEF Entered
      <4>2. Cardinality(Entered(k)) = Cardinality(Entered(l)) + 1
        BY <3>5, <4>1, FS_AddElement
      <4> QED
        BY <2>1, <3>2, <3>3, <3>4, <3>6, <4>2
    <3>7. CASE ~HasCtx(stack[k])
      <4>1. Entered(k) = Entered(l)
        BY <3>1, <3>7 DEF Entered
      <4>2. stack[k].depth = stack[l].depth + 0 /\ stack[l].depth \in Nat
        BY <1>3, <3>2, <3>3, <3>4, <3>7
      <4> QED
        BY <2>1, <3>2, <4>1, <4>2
    <3> QED
      BY <3>6, <3>7
  <2> QED
    BY <2>2, <2>3
<1> QED
  BY <1>2, <1>4, <1>5

(* Whatever the bodies and however their loops and switches nest, qbe_ctx  *)
(* is entry by entry the statements a break could leave, and it is empty   *)
(* when a function is closed, though nothing resets it there.              *)
THEOREM BreaksSeeTheirStatement == Spec => []CtxMatchesNesting
<1>1. Inv => CtxMatchesNesting
  <2> SUFFICES ASSUME Inv, status # "exit" PROVE CtxMatchesNesting
    BY DEF CtxMatchesNesting
  <2>1. CASE status # "emit"
    <3>1. ctx = <<>> /\ stack = <<>>
      BY <2>1 DEF Inv, TypeInv, TypeOK, JumpInv
    <3>2. Entered(Len(stack)) = {}
      BY <3>1 DEF Entered
    <3>3. Cardinality(Entered(Len(stack))) = 0
      BY <3>2, FS_EmptySet
    <3> QED
      BY <3>1, <3>2, <3>3 DEF CtxMatchesNesting
  <2>2. CASE status = "emit"
    <3>1. /\ stack \in Seq(FrameType) /\ Nested(ast, ctx, stack) /\ stack # <<>>
          /\ ctx \in Seq(LoopCtx)
      BY <2>2 DEF Inv, TypeInv, TypeOK, JumpInv, Nested
    <3>2. PICK n \in Nat : n = Len(stack) /\ DOMAIN stack = 1 .. n /\ n \in 1 .. n
      BY <3>1
    <3>3. stack[n].depth = Len(ctx)
      BY <3>1, <3>2 DEF Nested
    <3>4. Len(ctx) = Cardinality(Entered(n))
      BY <2>2, <3>2, <3>3, DepthCounts
    <3>5. ASSUME NEW i \in Entered(n)
          PROVE  /\ ctx[Cardinality(Entered(i))].break_id = stack[i].id
                 /\ ctx[Cardinality(Entered(i))].is_switch
                       <=> ast.kind[stack[i].node] = "switch"
      <4>1. i \in 1 .. n /\ HasCtx(stack[i])
        BY DEF Entered
      <4>2. /\ IsFiniteSet(Entered(i)) /\ IsFiniteSet(Entered(n))
            /\ stack[i].depth = Cardinality(Entered(i))
        BY <2>2, <3>2, <4>1, DepthCounts
      <4>3. i \in Entered(i) /\ Entered(i) \subseteq Entered(n)
        BY <3>2, <4>1 DEF Entered
      <4>4. PICK j \in Nat : j = Cardinality(Entered(i))
        BY <4>2, FS_CardinalityType
      <4>5. j <= Cardinality(Entered(n))
        BY <4>2, <4>3, <4>4, FS_Subset
      <4>6. j # 0
        BY <4>2, <4>3, <4>4, FS_EmptySet
      <4>7. j \in DOMAIN ctx
        BY <3>1, <3>4, <4>4, <4>5, <4>6
      <4>8. PICK k \in DOMAIN stack : stack[k].depth = j /\ Entry(ast, stack[k], ctx[j])
        BY <3>1, <4>7 DEF Nested
      <4>9. k \in Entered(k) /\ IsFiniteSet(Entered(k)) /\ Cardinality(Entered(k)) = j
        <5>1. IsFiniteSet(Entered(k)) /\ stack[k].depth = Cardinality(Entered(k))
          BY <2>2, <4>8, DepthCounts
        <5>2. k \in 1 .. k /\ HasCtx(stack[k])
          BY <3>2, <4>8 DEF Entry, Opens, HasCtx
        <5> QED
          BY <5>1, <5>2, <4>8 DEF Entered
      <4>10. ASSUME k < i PROVE FALSE
        <5>1. i \notin Entered(k) /\ Entered(k) \subseteq Entered(i)
          BY <3>2, <4>1, <4>10 DEF Entered
        <5> QED
          BY <5>1, <4>2, <4>3, <4>4, <4>9, FS_Subset
      <4>11. ASSUME i < k PROVE FALSE
        <5>1. k \notin Entered(i) /\ Entered(i) \subseteq Entered(k)
          BY <3>2, <4>1, <4>8, <4>11 DEF Entered
        <5> QED
          BY <5>1, <4>2, <4>3, <4>4, <4>9, FS_Subset
      <4>12. i \in Int /\ k \in Int
        BY <3>2, <4>1, <4>8
      <4>13. k = i
        BY <4>10, <4>11, <4>12
      <4> QED
        BY <4>4, <4>8, <4>13 DEF Entry
    <3> QED
      BY <3>2, <3>4, <3>5 DEF CtxMatchesNesting
  <2> QED
    BY <2>1, <2>2
<1> QED
  BY <1>1, Invariance, PTL

-----------------------------------------------------------------------------
(* The invariant behind NoDuplicateLabels.  A label is named after its     *)
(* kind and after an id that qbe_tmp has passed; a pending call keeps the  *)
(* id it drew, no two the same, and the labels it has still to print are   *)
(* not printed yet.                                                        *)

Exempt(a, l) == l[1] = "user_label" \/ (l[1] = "case" /\ Overflowing(a))

Apart(a, s) ==
    \A i, j \in DOMAIN s :
        i < j /\ s[i].op = "lab" /\ s[j].op = "lab" /\ s[i].ls = s[j].ls
            => \A l \in s[i].ls : Exempt(a, l)

Unnumbered == {"start", "user_label"}

(* A label whose id was drawn while qbe_tmp went from t to t + n.          *)
Drawn(l, t, n) == l[1] \notin Unnumbered /\ l[2] >= t /\ l[2] < t + n

Numbered(a, f) == a.kind[f.node] \in Loops \cup {"if", "switch"}

(* The labels a call has still to print.                                   *)
Due(a, f, l) ==
    \/ a.kind[f.node] = "if" /\ l = L("if_end", f.id)
    \/ a.kind[f.node] = "if" /\ f.ph = "body" /\ l = L("if_else", f.id)
    \/ a.kind[f.node] = "while" /\ l = L("while_end", f.id)
    \/ a.kind[f.node] = "do" /\ l \in {L("do_cond", f.id), L("do_end", f.id)}
    \/ a.kind[f.node] = "for" /\ l \in {L("for_post", f.id), L("for_end", f.id)}
    \/ a.kind[f.node] = "switch" /\ l = L("switch_end", f.id)
    \/ /\ a.kind[f.node] = "switch"
       /\ \E m \in Nodes(a) \ f.disp : l = <<"switch_next", f.id, m>>
    \/ /\ a.kind[f.node] = "switch" /\ ~Overflowing(a)
       /\ \E m \in Nodes(a) : m > f.seen /\ l = <<"case", f.id, m>>

Owing(a, t, P, st) ==
    /\ \A i \in DOMAIN st : Numbered(a, st[i]) => st[i].id < t
    /\ \A i, j \in DOMAIN st :
          i # j /\ Numbered(a, st[i]) /\ Numbered(a, st[j]) => st[i].id # st[j].id
    /\ \A i \in DOMAIN st : \A l \in P : ~Due(a, st[i], l)

LabelInv ==
    /\ Apart(ast, out)
    /\ status = "emit" =>
          /\ \A l \in Labels(out) : l[1] \in Unnumbered \/ l[2] < tmp
          /\ Owing(ast, tmp, Labels(out), stack)
(* Lines whose labels are among P and apart.                               *)
Prints(a, s, P) == s \in Seq(Line) /\ Labels(s) \subseteq P /\ Apart(a, s)

LEMMA PrintsConcat ==
    ASSUME NEW a, NEW s, NEW t, NEW P, NEW Q, Prints(a, s, P), Prints(a, t, Q),
           \A l \in Labels(s) \cap Labels(t) : Exempt(a, l)
    PROVE  Prints(a, s \o t, P \cup Q)
<1>1. /\ s \in Seq(Line) /\ t \in Seq(Line) /\ Apart(a, s) /\ Apart(a, t)
      /\ Labels(s) \subseteq P /\ Labels(t) \subseteq Q
  BY DEF Prints
<1>2. s \o t \in Seq(Line) /\ Labels(s \o t) \subseteq P \cup Q
  BY <1>1, LabelsConcat
<1> DEFINE u == s \o t
<1>3. ASSUME NEW i \in DOMAIN u
      PROVE  \/ i \in DOMAIN s /\ u[i] = s[i]
             \/ i - Len(s) \in DOMAIN t /\ u[i] = t[i - Len(s)] /\ i > Len(s)
  BY <1>1
<1>4. PICK n \in Nat : n = Len(s) /\ DOMAIN s = 1 .. n
  BY <1>1
<1>5. DOMAIN u \subseteq Nat
  BY <1>2
<1> HIDE DEF u
<1>6. ASSUME NEW i \in DOMAIN u, NEW j \in DOMAIN u, i < j,
             u[i].op = "lab", u[j].op = "lab", u[i].ls = u[j].ls, NEW l \in u[i].ls
      PROVE  Exempt(a, l)
  <2>1. CASE j \in DOMAIN s /\ u[j] = s[j]
    <3>1. i \in DOMAIN s /\ u[i] = s[i]
      BY <1>3, <1>4, <1>5, <1>6, <2>1
    <3> QED
      BY <1>1, <1>6, <2>1, <3>1 DEF Apart
  <2>2. CASE j - n \in DOMAIN t /\ u[j] = t[j - n]
    <3>1. CASE i \in DOMAIN s /\ u[i] = s[i]
      <4>1. l \in Labels(s) /\ l \in Labels(t)
        BY <1>6, <2>2, <3>1, LabelsMember
      <4> QED
        BY <4>1
    <3>2. CASE i - n \in DOMAIN t /\ u[i] = t[i - n]
      <4>1. i - n < j - n
        BY <1>4, <1>5, <1>6
      <4> QED
        BY <1>1, <1>6, <2>2, <3>2, <4>1 DEF Apart
    <3> QED
      BY <1>3, <1>4, <3>1, <3>2
  <2> QED
    BY <1>3, <1>4, <2>1, <2>2
<1>7. Apart(a, u)
  BY <1>6 DEF Apart
<1> QED
  BY <1>2, <1>7 DEF Prints, u

(* At most one of the lines is a label.                                    *)
LEMMA PrintsFew ==
    ASSUME NEW a, NEW l \in LabelType, NEW m \in LabelType, NEW k \in LabelType
    PROVE  /\ Prints(a, <<>>, {}) /\ Prints(a, <<Ins>>, {}) /\ Prints(a, <<Ret>>, {})
           /\ Prints(a, <<Lab(l)>>, {l}) /\ Prints(a, <<Jmp(l)>>, {})
           /\ Prints(a, <<Jnz(l, m)>>, {})
           /\ Prints(a, <<Jnz(l, m), Lab(k)>>, {k})
           /\ Prints(a, <<Jmp(l), Lab(k)>>, {k})
<1>1. /\ Ins \in Line /\ Ret \in Line /\ Lab(l) \in Line /\ Lab(k) \in Line
      /\ Jmp(l) \in Line /\ Jnz(l, m) \in Line
      /\ Labels(<<Ins>>) = {} /\ Labels(<<Ret>>) = {} /\ Labels(<<Lab(l)>>) = {l}
      /\ Labels(<<Lab(k)>>) = {k}
      /\ Labels(<<Jmp(l)>>) = {} /\ Labels(<<Jnz(l, m)>>) = {}
  BY LineTypes
<1>2. ASSUME NEW x \in Line PROVE <<x>> \in Seq(Line) /\ Apart(a, <<x>>)
  BY DEF Apart
<1>3. ASSUME NEW x \in Line, x.op = "jmp"
      PROVE  /\ <<x, Lab(k)>> \in Seq(Line) /\ Apart(a, <<x, Lab(k)>>)
             /\ Labels(<<x, Lab(k)>>) = {k}
  <2> DEFINE y == Lab(k)
  <2>1. y \in Line /\ Labels(<<y>>) = {k}
    BY <1>1
  <2> HIDE DEF y
  <2>2. /\ <<x, y>> \in Seq(Line)
        /\ Labels(<<x, y>>) = Labels(<<x>>) \cup Labels(<<y>>)
    BY <2>1, LabelsTwo
  <2>3. Labels(<<x>>) = {}
    BY <1>3, LabelsOne
  <2>4. DOMAIN <<x, y>> = {1, 2} /\ <<x, y>>[1] = x
    OBVIOUS
  <2>5. Apart(a, <<x, y>>)
    BY <2>4, <1>3 DEF Apart
  <2> QED
    BY <2>1, <2>2, <2>3, <2>5 DEF y
<1>4. Jnz(l, m).op = "jmp" /\ Jmp(l).op = "jmp"
  BY DEF Jnz, Jmp
<1>5. Prints(a, <<>>, {})
  BY LabelsNone DEF Prints, Apart
<1> QED
  BY <1>1, <1>2, <1>3, <1>4, <1>5 DEF Prints

(* What an expression prints carries ids that it drew.                     *)
ExprLabels(t, n) == {l \in LabelType : Drawn(l, t, n)}

LEMMA PrintsExpr ==
    ASSUME NEW a, NEW e \in Shapes, NEW t \in Nat
    PROVE  Prints(a, qbe_expr_val(e, t), ExprLabels(t, Tmps(e)))
<1>1. qbe_expr_val(e, t) \in Seq(Line)
  BY ExprLines
<1>2. \A k \in {"sc_rhs", "sc_end", "cond_then", "cond_else", "cond_end"} :
          /\ L(k, t) \in LabelType /\ L(k, t + 1) \in LabelType
          /\ Drawn(L(k, t), t, 5) /\ Drawn(L(k, t + 1), t, 5)
  BY DEF L, LabelType, LabelKinds, Drawn, Unnumbered
<1>3. CASE e = "andor"
  <2> DEFINE s == qbe_short_circuit(t)
             x == L("sc_rhs", t)
             y == L("sc_end", t)
  <2>1. DOMAIN s = 1 .. 8 /\ s[4] = Lab(x) /\ s[8] = Lab(y)
    BY DEF qbe_short_circuit
  <2>2. \A i \in 1 .. 8 : s[i].op = "lab" => i \in {4, 8}
    BY DEF qbe_short_circuit, Ins, Lab, Jnz
  <2>3. x # y
    BY DEF L
  <2>4. Lab(x).ls = {x} /\ Lab(y).ls = {y}
    BY DEF Lab
  <2> HIDE DEF s, x, y
  <2>5. Apart(a, s)
    BY <2>1, <2>2, <2>3, <2>4 DEF Apart
  <2>6. Labels(s) \subseteq {x, y}
    BY <2>1, <2>2, <2>4, LabelsMember
  <2>7. x \in ExprLabels(t, 5) /\ y \in ExprLabels(t, 5)
    BY <1>2 DEF ExprLabels, x, y
  <2>8. Tmps(e) = 5 /\ qbe_expr_val(e, t) = s
    BY <1>3 DEF Tmps, qbe_expr_val, s
  <2> QED
    BY <1>1, <2>5, <2>6, <2>7, <2>8 DEF Prints
<1>4. CASE e = "cond"
  <2> DEFINE s == qbe_conditional(t)
             x == L("cond_then", t + 1)
             y == L("cond_else", t + 1)
             z == L("cond_end", t + 1)
  <2>1. DOMAIN s = 1 .. 10 /\ s[3] = Lab(x) /\ s[7] = Lab(y) /\ s[10] = Lab(z)
    BY DEF qbe_conditional
  <2>2. \A i \in 1 .. 10 : s[i].op = "lab" => i \in {3, 7, 10}
    BY DEF qbe_conditional, Ins, Lab, Jnz, Jmp
  <2>3. x # y /\ x # z /\ y # z
    BY DEF L
  <2>4. Lab(x).ls = {x} /\ Lab(y).ls = {y} /\ Lab(z).ls = {z}
    BY DEF Lab
  <2> HIDE DEF s, x, y, z
  <2>5. Apart(a, s)
    BY <2>1, <2>2, <2>3, <2>4 DEF Apart
  <2>6. Labels(s) \subseteq {x, y, z}
    BY <2>1, <2>2, <2>4, LabelsMember
  <2>7. x \in ExprLabels(t, 5) /\ y \in ExprLabels(t, 5) /\ z \in ExprLabels(t, 5)
    BY <1>2 DEF ExprLabels, x, y, z
  <2>8. Tmps(e) = 5 /\ qbe_expr_val(e, t) = s
    BY <1>4 DEF Tmps, qbe_expr_val, s
  <2> QED
    BY <1>1, <2>5, <2>6, <2>7, <2>8 DEF Prints
<1>5. CASE e \notin {"andor", "cond"}
  <2>1. L("sc_rhs", t) \in LabelType
    BY <1>2
  <2>2. Prints(a, <<Ins>>, {}) /\ Prints(a, <<>>, {})
    BY <2>1, PrintsFew
  <2> QED
    BY <1>5, <2>2 DEF qbe_expr_val, Prints
<1> QED
  BY <1>3, <1>4, <1>5

LEMMA DueFacts ==
    ASSUME NEW a, NEW f, NEW l, Due(a, f, l)
    PROVE  Numbered(a, f) /\ l[2] = f.id /\ l[1] \notin Unnumbered
<1>1. \A k, id : L(k, id)[1] = k /\ L(k, id)[2] = id
  BY DEF L
<1>2. CASE a.kind[f.node] = "if"
  BY <1>1, <1>2 DEF Due, Numbered, Unnumbered
<1>3. CASE a.kind[f.node] = "while"
  BY <1>1, <1>3 DEF Due, Numbered, Unnumbered, Loops
<1>4. CASE a.kind[f.node] = "do"
  BY <1>1, <1>4 DEF Due, Numbered, Unnumbered, Loops
<1>5. CASE a.kind[f.node] = "for"
  BY <1>1, <1>5 DEF Due, Numbered, Unnumbered, Loops
<1>6. CASE a.kind[f.node] = "switch"
  BY <1>1, <1>6 DEF Due, Numbered, Unnumbered
<1> QED
  BY <1>2, <1>3, <1>4, <1>5, <1>6 DEF Due

LEMMA LabelsType ==
    ASSUME NEW s \in Seq(Line)
    PROVE  \A l \in Labels(s) : l \in LabelType /\ l[2] \in Nat
<1> SUFFICES ASSUME NEW l \in Labels(s) PROVE l \in LabelType /\ l[2] \in Nat
  OBVIOUS
<1>1. PICK i \in DOMAIN s : s[i].op = "lab" /\ l \in s[i].ls
  BY LabelsMember
<1>2. s[i] \in Line
  BY <1>1
<1>3. l \in LabelType
  BY <1>1, <1>2 DEF Line
<1> QED
  BY <1>3 DEF LabelType

(* The innermost frame goes on as g, a frame g is opened: what is printed  *)
(* is not what g has still to print.                                       *)
Keeps(g, P) ==
    g.node = Top.node /\ g.id = Top.id /\ \A l : Due(ast, g, l) => Due(ast, Top, l) /\ l \notin P

Begins(g, P, n) ==
    Numbered(ast, g) => g.id >= tmp /\ g.id < tmp + n /\ \A l \in P : ~Due(ast, g, l)

(* A step may print labels with ids it draws, goto labels and labels that  *)
(* the innermost call owes.                                                *)
LEMMA PrintStep ==
    ASSUME Inv, LabelInv, status = "emit", stack # <<>>, status' = "emit", ast' = ast,
           NEW s, NEW P, NEW n \in Nat, Prints(ast, s, P), Emit(s, n),
           stack' \in Seq(FrameType),
           \A l \in P : \/ Drawn(l, tmp, n)
                        \/ l[1] = "user_label"
                        \/ /\ Numbered(ast, Top) /\ l[2] = Top.id /\ l[1] \notin Unnumbered
                           /\ Due(ast, Top, l) \/ Exempt(ast, l),
           \A i \in DOMAIN stack' :
              \/ i \in DOMAIN stack /\ i # Len(stack) /\ stack'[i] = stack[i]
              \/ i = Len(stack) /\ Keeps(stack'[i], P)
              \/ i = Len(stack) + 1 /\ Begins(stack'[i], P, n)
    PROVE  LabelInv'
<1>1. /\ out \in Seq(Line) /\ stack \in Seq(FrameType) /\ tmp \in Nat
      /\ s \in Seq(Line) /\ Labels(s) \subseteq P /\ Apart(ast, s) /\ Apart(ast, out)
  BY DEF Inv, TypeInv, TypeOK, Prints, LabelInv
<1>0. \A x, y \in Nat : ~(x < y /\ x >= y)
  OBVIOUS
<1>2. /\ out' = out \o s /\ tmp' = tmp + n
      /\ Labels(out') = Labels(out) \cup Labels(s)
  BY <1>1, LabelsConcat DEF Emit
<1>3. PICK d \in Nat : d = Len(stack) /\ DOMAIN stack = 1 .. d /\ d \in DOMAIN stack
  BY <1>1
<1>4. Top = stack[d] /\ Top \in FrameType
  BY <1>1, <1>3 DEF Top
<1>5. \A i \in DOMAIN stack : stack[i].id \in Nat
  <2>1. \A i \in DOMAIN stack : stack[i] \in FrameType
    BY <1>1
  <2> QED
    BY <2>1 DEF FrameType
<1>6. \A i \in DOMAIN stack' : stack'[i].id \in Nat
  <2>1. \A i \in DOMAIN stack' : stack'[i] \in FrameType
    OBVIOUS
  <2> QED
    BY <2>1 DEF FrameType
<1>7. /\ \A l \in Labels(out) : l[1] \in Unnumbered \/ l[2] < tmp
      /\ \A i \in DOMAIN stack : Numbered(ast, stack[i]) => stack[i].id < tmp
      /\ \A i, j \in DOMAIN stack :
            i # j /\ Numbered(ast, stack[i]) /\ Numbered(ast, stack[j])
               => stack[i].id # stack[j].id
      /\ \A i \in DOMAIN stack : \A l \in Labels(out) : ~Due(ast, stack[i], l)
  BY DEF LabelInv, Owing
<1>8. /\ \A l \in Labels(out) : l[2] \in Nat
      /\ \A l \in Labels(s) : l[2] \in Nat
  BY <1>1, LabelsType
<1>9. Apart(ast, out')
  <2> SUFFICES ASSUME NEW l \in Labels(out) \cap Labels(s) PROVE Exempt(ast, l)
    <3>1. Prints(ast, out, Labels(out))
      BY <1>1 DEF Prints
    <3>2. \A l \in Labels(out) \cap Labels(s) : Exempt(ast, l)
      OBVIOUS
    <3> QED
      BY <3>1, <3>2, <1>2, PrintsConcat DEF Prints
  <2>1. l \in P /\ l[2] \in Nat
    BY <1>1, <1>8
  <2>2. CASE Drawn(l, tmp, n)
    BY <1>1, <1>7, <2>1, <2>2 DEF Drawn
  <2>3. CASE l[1] = "user_label"
    BY <2>3 DEF Exempt
  <2>4. CASE Due(ast, Top, l)
    BY <1>3, <1>4, <1>7, <2>4
  <2> QED
    BY <2>1, <2>2, <2>3, <2>4
<1>10. \A l \in Labels(out') : l[1] \in Unnumbered \/ l[2] < tmp'
  <2> SUFFICES ASSUME NEW l \in Labels(out'), l[1] \notin Unnumbered PROVE l[2] < tmp + n
    BY <1>2
  <2>1. CASE l \in Labels(out)
    BY <1>1, <1>7, <1>8, <2>1
  <2>2. CASE l \in Labels(s)
    <3>1. l \in P /\ l[2] \in Nat /\ l[1] # "user_label"
      BY <1>1, <1>8, <2>2 DEF Unnumbered
    <3>2. CASE Drawn(l, tmp, n)
      BY <3>2 DEF Drawn
    <3>3. CASE Numbered(ast, Top) /\ l[2] = Top.id
      BY <1>1, <1>3, <1>4, <1>5, <1>7, <3>3
    <3> QED
      BY <3>1, <3>2, <3>3
  <2> QED
    BY <1>2, <2>1, <2>2
<1>11. ASSUME NEW i \in DOMAIN stack', Numbered(ast, stack'[i])
       PROVE  stack'[i].id < tmp'
  <2>1. CASE i \in DOMAIN stack /\ i # Len(stack) /\ stack'[i] = stack[i]
    BY <1>1, <1>2, <1>5, <1>7, <1>11, <2>1
  <2>2. CASE i = Len(stack) /\ Keeps(stack'[i], P)
    <3>1. Numbered(ast, stack[d]) /\ stack'[i].id = stack[d].id
      BY <1>4, <1>11, <2>2 DEF Keeps, Numbered
    <3> QED
      BY SMTT(30), <1>1, <1>2, <1>3, <1>5, <1>7, <3>1
  <2>3. CASE i = Len(stack) + 1 /\ Begins(stack'[i], P, n)
    BY <1>2, <1>11, <2>3 DEF Begins
  <2> QED
    BY <2>1, <2>2, <2>3
<1>12. ASSUME NEW i \in DOMAIN stack', NEW j \in DOMAIN stack', i < j,
              Numbered(ast, stack'[i]), Numbered(ast, stack'[j])
       PROVE  stack'[i].id # stack'[j].id
  <2>1. ASSUME NEW k \in DOMAIN stack', Numbered(ast, stack'[k]), k # d + 1
        PROVE  k \in DOMAIN stack /\ stack'[k].id = stack[k].id /\ Numbered(ast, stack[k])
    <3>1. CASE k \in DOMAIN stack /\ k # Len(stack) /\ stack'[k] = stack[k]
      BY <2>1, <3>1
    <3>2. CASE k = Len(stack) /\ Keeps(stack'[k], P)
      BY <1>3, <1>4, <2>1, <3>2 DEF Keeps, Numbered
    <3> QED
      BY <1>3, <2>1, <3>1, <3>2
  <2>2. i \in Nat /\ j \in Nat /\ i <= d + 1 /\ j <= d + 1
    <3>1. DOMAIN stack' \subseteq Nat
      OBVIOUS
    <3> QED
      BY <1>3, <3>1
  <2>3. i # d + 1 /\ i \in DOMAIN stack /\ stack'[i].id = stack[i].id
        /\ Numbered(ast, stack[i])
    BY <1>12, <2>1, <2>2
  <2>4. CASE j = d + 1
    <3>1. Begins(stack'[j], P, n)
      BY <1>3, <2>4
    <3>2. stack'[j].id >= tmp
      BY <1>12, <3>1 DEF Begins
    <3>3. stack[i].id < tmp
      BY <1>7, <2>3
    <3> QED
      BY <1>0, <1>1, <1>5, <2>3, <3>2, <3>3
  <2>5. CASE j # d + 1
    <3>1. j \in DOMAIN stack /\ stack'[j].id = stack[j].id /\ Numbered(ast, stack[j])
      BY <1>12, <2>1, <2>5
    <3> QED
      BY <1>7, <1>12, <2>2, <2>3, <3>1
  <2> QED
    BY <2>4, <2>5
<1>13. ASSUME NEW i \in DOMAIN stack', NEW l \in Labels(out'), Due(ast, stack'[i], l)
       PROVE  FALSE
  <2>1. Numbered(ast, stack'[i]) /\ l[2] = stack'[i].id /\ l[1] \notin Unnumbered
    BY <1>13, DueFacts
  <2>2. CASE i \in DOMAIN stack /\ i # Len(stack) /\ stack'[i] = stack[i]
    <3>1. l \in Labels(s) /\ l \in P
      BY <1>1, <1>2, <1>7, <1>13, <2>2
    <3>2. l[2] < tmp /\ l[2] \in Nat
      BY <1>7, <1>8, <2>1, <2>2, <3>1
    <3>3. ~Drawn(l, tmp, n) /\ l[1] # "user_label"
      <4>1. l[1] # "user_label"
        BY <2>1 DEF Unnumbered
      <4>2. ~(l[2] >= tmp)
        BY <1>0, <1>1, <3>2
      <4> QED
        BY <4>1, <4>2 DEF Drawn
    <3>4. Numbered(ast, Top) /\ l[2] = Top.id
      BY <3>1, <3>3
    <3> QED
      BY <1>3, <1>4, <1>7, <2>1, <2>2, <3>4
  <2>3. CASE i = Len(stack) /\ Keeps(stack'[i], P)
    <3>1. Due(ast, Top, l) /\ l \notin P
      BY <1>13, <2>3 DEF Keeps
    <3> QED
      BY <1>1, <1>2, <1>3, <1>4, <1>7, <3>1
  <2>4. CASE i = Len(stack) + 1 /\ Begins(stack'[i], P, n)
    <3>1. l[2] >= tmp /\ l \notin P
      BY <1>13, <2>1, <2>4 DEF Begins
    <3> QED
      BY <1>1, <1>2, <1>7, <1>8, <2>1, <3>1
  <2> QED
    BY <2>2, <2>3, <2>4
<1>14. \A i, j \in DOMAIN stack' :
          i # j /\ Numbered(ast, stack'[i]) /\ Numbered(ast, stack'[j])
             => stack'[i].id # stack'[j].id
  <2>1. DOMAIN stack' \subseteq Int
    OBVIOUS
  <2>2. \A i, j \in Int : i # j => i < j \/ j < i
    OBVIOUS
  <2> QED
    BY <1>12, <2>1, <2>2
<1>15. Owing(ast, tmp', Labels(out'), stack')
  BY <1>11, <1>13, <1>14 DEF Owing
<1> QED
  BY <1>9, <1>10, <1>15 DEF LabelInv

(* The innermost call visits m: what it owes is what it owed, but for a    *)
(* case that it visits.                                                    *)
LEMMA SeenKeeps ==
    ASSUME Inv, NEW m \in Nodes(ast), Visit(m), NEW g, g = [Top EXCEPT !.seen = m],
           NEW l, Due(ast, g, l)
    PROVE  Due(ast, Top, l) /\ l # <<"case", Top.id, m>>
<1>1. Top \in FrameType /\ m \in Nat /\ m > Top.seen
  BY VisitFacts DEF Inv, Visit
<1>2. /\ g.node = Top.node /\ g.id = Top.id /\ g.ph = Top.ph /\ g.disp = Top.disp
      /\ g.seen = m /\ Top.seen \in Nat
  BY <1>1 DEF FrameType
<1>3. Nodes(ast) \subseteq Nat
  BY BodyFacts DEF Inv, Visit
<1>4. \A k \in Nodes(ast) : k > m => k > Top.seen /\ k # m
  BY <1>1, <1>2, <1>3
<1> HIDE DEF Keeps
<1>5. Due(ast, Top, l)
  BY <1>2, <1>4 DEF Due
<1>6. \A k, id : L(k, id)[1] = k
  BY DEF L
<1>7. ASSUME l = <<"case", Top.id, m>> PROVE FALSE
  <2>1. l[1] = "case" /\ l[3] = m
    BY <1>7
  <2>2. \E k \in Nodes(ast) : k > m /\ l = <<"case", g.id, k>>
    BY <1>2, <1>6, <2>1 DEF Due
  <2>3. PICK k \in Nodes(ast) : k > m /\ l = <<"case", g.id, k>>
    BY <2>2
  <2> QED
    BY <1>4, <2>1, <2>3
<1> QED
  BY <1>5, <1>7

(* A visit that draws the ids it prints.                                   *)
LEMMA VisitPrints ==
    ASSUME Inv, LabelInv, NEW m \in Nodes(ast), Visit(m), ast' = ast, status' = status,
           NEW s, NEW P, NEW n \in Nat, Prints(ast, s, P), Emit(s, n),
           \A l \in P : \/ Drawn(l, tmp, n) \/ l[1] = "user_label"
                        \/ /\ Kind = "switch" /\ l[1] = "case" /\ l[2] = Top.id
                           /\ Overflowing(ast) \/ l = <<"case", Top.id, m>>,
           \/ stack' = Saw(m)
           \/ \E f \in FrameType : stack' = Append(Saw(m), f) /\ Begins(f, P, n)
    PROVE  LabelInv'
<1>0. PICK g, st : g = [Top EXCEPT !.seen = m] /\ st = Saw(m)
  OBVIOUS
<1>1. /\ status = "emit" /\ stack # <<>> /\ stack \in Seq(FrameType) /\ tmp \in Nat
  BY DEF Inv, TypeInv, TypeOK, Visit
<1>2. /\ m \in Nat /\ Top \in FrameType /\ Top.node \in Nodes(ast)
      /\ Len(stack) \in DOMAIN stack
  BY VisitFacts DEF Inv
<1>3. g \in FrameType /\ st = [stack EXCEPT ![Len(stack)] = g]
  BY <1>0, <1>1, <1>2, SawStack
<1>4. g.node = Top.node /\ g.id = Top.id
  BY <1>0, <1>2 DEF FrameType
<1>5. /\ st \in Seq(FrameType) /\ Len(st) = Len(stack) /\ DOMAIN st = DOMAIN stack
      /\ st[Len(stack)] = g /\ \A i \in DOMAIN stack : i # Len(stack) => st[i] = stack[i]
  BY <1>1, <1>3, TopStack
<1>6. Top.id \in Nat /\ (Numbered(ast, Top) => Top.id < tmp)
  BY <1>1, <1>2 DEF FrameType, LabelInv, Owing, Top
<1>7. \A l \in P : ~Due(ast, g, l)
  <2> SUFFICES ASSUME NEW l \in P, Due(ast, g, l) PROVE FALSE
    OBVIOUS
  <2>1. Due(ast, Top, l) /\ l # <<"case", Top.id, m>>
    BY <1>0, SeenKeeps
  <2>2. Numbered(ast, Top) /\ l[2] = Top.id /\ l[1] # "user_label"
    BY <2>1, DueFacts DEF Unnumbered
  <2>3. ~Drawn(l, tmp, n)
    <3>1. \A x, y \in Nat : ~(x < y /\ x >= y)
      OBVIOUS
    <3>2. ~(l[2] >= tmp)
      BY <1>1, <1>6, <2>2, <3>1
    <3> QED
      BY <3>2 DEF Drawn
  <2>4. l[1] = "case" /\ Kind = "switch" /\ Overflowing(ast)
    BY <2>1, <2>2, <2>3
  <2>5. \A k, id : L(k, id)[1] = k
    BY DEF L
  <2> QED
    BY <2>1, <2>4, <2>5 DEF Due, Kind
<1>8. Keeps(g, P)
  BY <1>0, <1>4, <1>7, SeenKeeps DEF Keeps
<1>9. \A l \in P : \/ Drawn(l, tmp, n)
                   \/ l[1] = "user_label"
                   \/ /\ Numbered(ast, Top) /\ l[2] = Top.id /\ l[1] \notin Unnumbered
                      /\ Due(ast, Top, l) \/ Exempt(ast, l)
  <2> SUFFICES ASSUME NEW l \in P, ~Drawn(l, tmp, n), l[1] # "user_label"
               PROVE  /\ Numbered(ast, Top) /\ l[2] = Top.id /\ l[1] \notin Unnumbered
                      /\ Due(ast, Top, l) \/ Exempt(ast, l)
    OBVIOUS
  <2>1. /\ Kind = "switch" /\ l[1] = "case" /\ l[2] = Top.id
        /\ Overflowing(ast) \/ (m > Top.seen /\ l = <<"case", Top.id, m>>)
    BY DEF Visit
  <2>2. Numbered(ast, Top) /\ l[1] \notin Unnumbered
    BY <2>1 DEF Numbered, Kind, Unnumbered
  <2>3. Overflowing(ast) => Exempt(ast, l)
    BY <2>1 DEF Exempt
  <2>4. ~Overflowing(ast) => Due(ast, Top, l)
    BY <2>1 DEF Due, Kind
  <2> QED
    BY <2>1, <2>2, <2>3, <2>4
<1>10. CASE stack' = st
  <2>1. \A i \in DOMAIN stack' :
              \/ i \in DOMAIN stack /\ i # Len(stack) /\ stack'[i] = stack[i]
              \/ i = Len(stack) /\ Keeps(stack'[i], P)
              \/ i = Len(stack) + 1 /\ Begins(stack'[i], P, n)
    BY <1>5, <1>8, <1>10
  <2>2. stack' \in Seq(FrameType) /\ status' = "emit"
    BY <1>1, <1>5, <1>10
  <2> QED
    BY <1>1, <1>9, <2>1, <2>2, PrintStep
<1>11. ASSUME NEW f \in FrameType, stack' = Append(st, f), Begins(f, P, n)
       PROVE  LabelInv'
  <2>1. /\ stack' \in Seq(FrameType) /\ DOMAIN stack' = 1 .. (Len(st) + 1)
        /\ stack'[Len(st) + 1] = f
        /\ \A i \in 1 .. Len(st) : stack'[i] = st[i]
    BY <1>5, <1>11, PushStack
  <2>2. DOMAIN st = 1 .. Len(st) /\ Len(st) \in Nat
    BY <1>5
  <2>3. ASSUME NEW i \in DOMAIN stack'
        PROVE \/ i \in DOMAIN stack /\ i # Len(stack) /\ stack'[i] = stack[i]
              \/ i = Len(stack) /\ Keeps(stack'[i], P)
              \/ i = Len(stack) + 1 /\ Begins(stack'[i], P, n)
    <3>1. CASE i = Len(st) + 1
      BY <1>5, <1>11, <2>1, <3>1
    <3>2. CASE i # Len(st) + 1
      <4>1. i \in 1 .. Len(st)
        BY <2>1, <2>2, <3>2
      <4> QED
        BY <4>1, <1>5, <1>8, <2>1, <2>2
    <3> QED
      BY <3>1, <3>2
  <2>4. status' = "emit"
    BY <1>1
  <2> QED
    BY <1>1, <1>9, <2>1, <2>3, <2>4, PrintStep
<1> QED
  BY <1>0, <1>10, <1>11

(* The innermost call returns, having printed what it owed.                *)
LEMMA ClosePrints ==
    ASSUME Inv, LabelInv, NEW s, NEW P, NEW n \in Nat, Prints(ast, s, P), Close(s, n),
           \A l \in P : Drawn(l, tmp, n) \/ Due(ast, Top, l)
    PROVE  LabelInv'
<1>1. /\ status = "emit" /\ status' = "emit" /\ ast' = ast /\ stack # <<>> /\ Emit(s, n)
      /\ stack \in Seq(FrameType) /\ Len(stack) > 0 /\ stack' = Pop(stack)
  BY DEF Close, Inv, TypeInv, TypeOK
<1>2. /\ stack' \in Seq(FrameType) /\ DOMAIN stack' = 1 .. (Len(stack) - 1)
      /\ \A i \in 1 .. (Len(stack) - 1) : stack'[i] = stack[i]
  BY <1>1, PopStack
<1>3. \A i \in DOMAIN stack' : i \in DOMAIN stack /\ i # Len(stack) /\ stack'[i] = stack[i]
  <2>1. PICK d \in Nat : d = Len(stack) /\ DOMAIN stack = 1 .. d
    BY <1>1
  <2>2. \A i \in 1 .. (d - 1) : i \in 1 .. d /\ i # d
    OBVIOUS
  <2> QED
    BY <1>2, <2>1, <2>2
<1>4. \A l : Due(ast, Top, l)
          => Numbered(ast, Top) /\ l[2] = Top.id /\ l[1] \notin Unnumbered
  BY DueFacts
<1> QED
  BY <1>1, <1>2, <1>3, <1>4, PrintStep

(* The innermost call goes on as g.                                        *)
LEMMA TopPrints ==
    ASSUME Inv, LabelInv, status = "emit", stack # <<>>, status' = "emit", ast' = ast,
           NEW g \in FrameType, TopIs(g), NEW s, NEW P, NEW n \in Nat,
           Prints(ast, s, P), Emit(s, n), Keeps(g, P),
           \A l \in P : Drawn(l, tmp, n) \/ Due(ast, Top, l)
    PROVE  LabelInv'
<1>1. stack \in Seq(FrameType)
  BY DEF Inv, TypeInv, TypeOK
<1>2. /\ stack' \in Seq(FrameType) /\ DOMAIN stack' = DOMAIN stack
      /\ stack'[Len(stack)] = g
      /\ \A i \in DOMAIN stack : i # Len(stack) => stack'[i] = stack[i]
  BY <1>1, TopStack DEF TopIs
<1>3. \A l : Due(ast, Top, l)
          => Numbered(ast, Top) /\ l[2] = Top.id /\ l[1] \notin Unnumbered
  BY DueFacts
<1>4. \A i \in DOMAIN stack' :
         \/ i \in DOMAIN stack /\ i # Len(stack) /\ stack'[i] = stack[i]
         \/ i = Len(stack) /\ Keeps(stack'[i], P)
  BY <1>2
<1> QED
  BY <1>2, <1>3, <1>4, PrintStep

-----------------------------------------------------------------------------
(* What each action prints, as sets of labels.                             *)

LEMMA PrintsApart ==
    ASSUME NEW a, NEW s, NEW t, NEW P, NEW Q, Prints(a, s, P), Prints(a, t, Q),
           P \cap Q = {}
    PROVE  Prints(a, s \o t, P \cup Q)
<1>1. \A l \in Labels(s) \cap Labels(t) : Exempt(a, l)
  BY DEF Prints
<1> QED
  BY <1>1, PrintsConcat

LEMMA LParts ==
    ASSUME NEW k, NEW id
    PROVE  L(k, id)[1] = k /\ L(k, id)[2] = id
BY DEF L

LEMMA ExprIds ==
    ASSUME NEW t \in Nat, NEW n \in Nat
    PROVE  /\ \A l \in ExprLabels(t, n) : l[2] \in Nat /\ t <= l[2] /\ l[2] < t + n
           /\ \A u, v \in Nat : u <= t /\ t + n <= u + v
                 => \A l \in ExprLabels(t, n) : Drawn(l, u, v)
           /\ \A id \in Nat : id < t \/ t + n <= id
                 => \A k : L(k, id) \notin ExprLabels(t, n)
<1>1. ASSUME NEW l \in ExprLabels(t, n)
      PROVE  l[2] \in Nat /\ t <= l[2] /\ l[2] < t + n /\ l[1] \notin Unnumbered
  <2>1. l[2] \in Nat /\ l[2] >= t /\ l[2] < t + n /\ l[1] \notin Unnumbered
    BY DEF ExprLabels, Drawn, LabelType
  <2> QED
    BY <2>1
<1>2. ASSUME NEW u \in Nat, NEW v \in Nat, u <= t, t + n <= u + v,
             NEW l \in ExprLabels(t, n)
      PROVE  Drawn(l, u, v)
  <2>1. PICK i \in Nat : i = l[2] /\ t <= i /\ i < t + n
    BY <1>1
  <2>2. i >= u /\ i < u + v
    BY <1>2, <2>1
  <2> QED
    BY <1>1, <2>1, <2>2 DEF Drawn
<1>3. ASSUME NEW id \in Nat, id < t \/ t + n <= id, NEW k, L(k, id) \in ExprLabels(t, n)
      PROVE  FALSE
  <2>1. t <= id /\ id < t + n
    BY <1>1, <1>3, LParts
  <2> QED
    BY <1>3, <2>1
<1> QED
  BY <1>1, <1>2, <1>3

LEMMA ExprsApart ==
    ASSUME NEW t \in Nat, NEW n \in Nat, NEW u \in Nat, NEW v \in Nat, t + n <= u
    PROVE  ExprLabels(t, n) \cap ExprLabels(u, v) = {}
<1> SUFFICES ASSUME NEW l \in ExprLabels(t, n), l \in ExprLabels(u, v) PROVE FALSE
  OBVIOUS
<1>1. PICK i \in Nat : i = l[2] /\ i < t + n /\ u <= i
  BY ExprIds
<1> QED
  BY <1>1

(* The labels a statement prints before its first statement, with the id   *)
(* of its frame.                                                           *)
Openers == {"if_then", "while_cond", "while_body", "do_body", "for_cond", "for_body"}

LEMMA DueKinds ==
    ASSUME NEW a, NEW f, NEW l, Due(a, f, l)
    PROVE  l[1] \notin Openers /\ l[2] = f.id
<1>1. \A k, id : L(k, id)[1] = k
  BY DEF L
<1>2. l[1] \in {"if_end", "if_else", "while_end", "do_cond", "do_end", "for_post",
                "for_end", "switch_end", "switch_next", "case"}
  BY <1>1 DEF Due
<1> QED
  BY <1>2, DueFacts DEF Openers

(* A statement that opens a frame.                                         *)
LEMMA OpenPrints ==
    ASSUME Inv, LabelInv, NEW m \in Nodes(ast), Visit(m),
           NEW id \in Nat, NEW ph \in {"body", "dispatch"}, NEW lines, NEW n \in Nat,
           Open(m, id, ph, lines, n), ctx' \in Seq(LoopCtx),
           NEW P, Prints(ast, lines, P),
           \A l \in P : Drawn(l, tmp, n) /\ (l[2] # id \/ l[1] \in Openers),
           \/ id >= tmp /\ id < tmp + n
           \/ ast.kind[m] \notin Loops \cup {"if", "switch"}
    PROVE  LabelInv'
<1>1. PICK d \in Nat : d = Len(ctx')
  OBVIOUS
<1>2. PICK f : f = Frame(m, id, ph, d)
  OBVIOUS
<1>3. m \in Nat
  BY VisitFacts DEF Inv
<1>4. f \in FrameType /\ f.node = m /\ f.id = id
  BY <1>2, <1>3 DEF Frame, FrameType
<1>5. \A l \in P : ~Due(ast, f, l)
  BY <1>4, DueKinds
<1>6. Begins(f, P, n)
  BY <1>4, <1>5 DEF Begins, Numbered
<1>7. stack' = Append(Saw(m), f) /\ Emit(lines, n) /\ ast' = ast /\ status' = status
  BY <1>1, <1>2 DEF Open
<1> QED
  BY <1>4, <1>6, <1>7, VisitPrints

LEMMA LeafLabels ==
    ASSUME Inv, LabelInv, NEW m \in Nodes(ast),
           \/ ExprStmt(m) \/ VarDecl(m) \/ Return(m)
           \/ Break(m) \/ Continue(m) \/ Goto(m)
    PROVE  LabelInv'
<1>1. Visit(m) /\ status = "emit"
  BY DEF ExprStmt, VarDecl, Return, Break, Continue, Goto, Visit
<1>2. PICK n \in Nat : n = Tmps(ast.ex[m])
  BY <1>1, StepFacts
<1>3. /\ tmp \in Nat /\ tmp + 1 \in Nat /\ 1 + n \in Nat /\ ast.ex[m] \in Shapes
      /\ ctx \in Seq(LoopCtx)
  BY <1>1, <1>2, StepFacts
<1>4. PICK e, e1 : e = qbe_expr_val(ast.ex[m], tmp) /\ e1 = qbe_expr_val(ast.ex[m], tmp + 1)
  OBVIOUS
<1>5. /\ Prints(ast, e, ExprLabels(tmp, n))
      /\ Prints(ast, e1, ExprLabels(tmp + 1, n))
  BY <1>2, <1>3, <1>4, PrintsExpr
<1>6. L("start", 0) \in LabelType
  BY LTypes DEF LabelKinds
<1>7. Prints(ast, <<Ins>>, {}) /\ Prints(ast, <<Ret>>, {}) /\ Prints(ast, <<>>, {})
  BY <1>6, PrintsFew
<1>8. ASSUME NEW s, NEW k \in Nat, NEW P, Prints(ast, s, P), Leaf(m, s, k),
             \A l \in P : Drawn(l, tmp, k)
      PROVE  LabelInv'
  <2>1. stack' = Saw(m) /\ Emit(s, k) /\ ast' = ast /\ status' = status
    BY <1>8 DEF Leaf
  <2> QED
    BY <1>1, <1>8, <2>1, VisitPrints
<1>9. CASE ExprStmt(m)
  <2>1. Leaf(m, e, n)
    BY <1>2, <1>4, <1>9 DEF ExprStmt
  <2>2. \A l \in ExprLabels(tmp, n) : Drawn(l, tmp, n)
    BY <1>3, ExprIds
  <2> QED
    BY <1>5, <1>8, <2>1, <2>2
<1>10. CASE Return(m)
  <2>1. Leaf(m, e \o <<Ret>>, n)
    BY <1>2, <1>4, <1>10 DEF Return
  <2>2. Prints(ast, e \o <<Ret>>, ExprLabels(tmp, n) \cup {})
    BY <1>5, <1>7, PrintsApart
  <2>3. \A l \in ExprLabels(tmp, n) \cup {} : Drawn(l, tmp, n)
    BY <1>3, ExprIds
  <2> QED
    BY <1>8, <2>1, <2>2, <2>3
<1>11. CASE VarDecl(m) /\ ast.ex[m] = "none"
  <2>1. Leaf(m, <<>>, 0)
    BY <1>11 DEF VarDecl
  <2> QED
    BY <1>7, <1>8, <2>1
<1>12. CASE VarDecl(m) /\ ast.ex[m] # "none"
  <2>1. Leaf(m, <<Ins>> \o e1 \o <<Ins>>, 1 + n)
    BY <1>2, <1>4, <1>12 DEF VarDecl
  <2> DEFINE P == ExprLabels(tmp + 1, n)
  <2> HIDE DEF P
  <2>2. Prints(ast, <<Ins>> \o e1, {} \cup P)
    BY <1>5, <1>7, PrintsApart DEF P
  <2>3. Prints(ast, <<Ins>> \o e1 \o <<Ins>>, {} \cup P \cup {})
    BY <1>7, <2>2, PrintsApart
  <2>4. \A l \in {} \cup P \cup {} : Drawn(l, tmp, 1 + n)
    <3>1. tmp <= tmp + 1 /\ tmp + 1 + n <= tmp + (1 + n)
      BY <1>3
    <3> QED
      BY <1>3, <3>1, ExprIds DEF P
  <2> QED
    BY <1>3, <1>8, <2>1, <2>3, <2>4
<1>13. ASSUME NEW l \in LabelType, Leaf(m, <<Jmp(l)>>, 0)
       PROVE  LabelInv'
  <2>1. Prints(ast, <<Jmp(l)>>, {})
    BY PrintsFew
  <2> QED
    BY <1>8, <1>13, <2>1
<1>14. ASSUME Exit PROVE LabelInv'
  BY <1>1, <1>14 DEF Exit, LabelInv
<1>15. CASE Break(m)
  <2>1. CASE ctx = <<>>
    BY <1>14, <1>15, <2>1 DEF Break
  <2>2. CASE ctx # <<>>
    <3> DEFINE c == ctx[Len(ctx)]
               k == IF c.is_switch THEN "switch_end" ELSE "while_end"
    <3>1. Len(ctx) \in DOMAIN ctx
      BY <1>3, <2>2
    <3>2. c.break_id \in Nat
      BY <1>1, <3>1, CtxJump
    <3>3. k \in LabelKinds
      BY DEF LabelKinds
    <3>4. Leaf(m, <<Jmp(L(k, c.break_id))>>, 0)
      BY <1>15, <2>2 DEF Break
    <3> HIDE DEF k, c
    <3>5. L(k, c.break_id) \in LabelType
      BY <3>2, <3>3, LTypes
    <3> QED
      BY <1>13, <3>4, <3>5
  <2> QED
    BY <2>1, <2>2
<1>16. CASE Continue(m)
  <2>1. CASE Exit
    BY <1>14, <2>1
  <2>2. CASE ~Exit
    <3>1. PICK i \in DOMAIN ctx :
              ~ctx[i].is_switch /\ Leaf(m, <<Jmp(L("while_cond", ctx[i].continue_id))>>, 0)
      BY <1>16, <2>2 DEF Continue, InnermostLoop
    <3>2. ctx[i].break_id \in Nat /\ ctx[i].continue_id = ctx[i].break_id
      BY <1>1, <3>1, CtxJump
    <3>3. L("while_cond", ctx[i].continue_id) \in LabelType
      BY <3>2, LTypes DEF LabelKinds
    <3> QED
      BY <1>13, <3>1, <3>3
  <2> QED
    BY <2>1, <2>2
<1>17. CASE Goto(m)
  <2>1. PICK lid \in 0 .. Len(labels) :
           IF lid >= LabelCap THEN Exit
           ELSE Leaf(m, <<Jmp(L("user_label", lid))>>, 0)
    BY <1>17 DEF Goto
  <2>2. lid \in Nat
    BY <1>1, StepFacts
  <2>3. L("user_label", lid) \in LabelType
    BY <2>2, LTypes DEF LabelKinds
  <2> QED
    BY <1>13, <1>14, <2>1, <2>3
<1> QED
  BY <1>9, <1>10, <1>11, <1>12, <1>15, <1>16, <1>17

(* A label and a case among the statements of a switch open a frame that   *)
(* draws no id.                                                            *)
LEMMA UnnumberedLabels ==
    ASSUME Inv, LabelInv, NEW m \in Nodes(ast), Label(m) \/ SwitchCase(m)
    PROVE  LabelInv'
<1>1. Visit(m) /\ status = "emit" /\ ast.kind[m] \in {"label", "case", "default"}
  BY DEF Label, SwitchCase, Visit, IsCase
<1>2. PICK d \in Nat : d = Len(ctx)
  <2>1. ctx \in Seq(LoopCtx)
    BY <1>1, StepFacts
  <2> QED
    BY <2>1
<1>3. PICK f : f = Frame(m, 0, "body", d)
  OBVIOUS
<1>4. m \in Nat
  BY <1>1, StepFacts
<1>5. f \in FrameType /\ f.node = m
  BY <1>3, <1>4 DEF Frame, FrameType
<1>6. \A P : Begins(f, P, 0)
  BY <1>1, <1>5 DEF Begins, Numbered, Loops
<1>7. CASE Label(m)
  <2>1. PICK lid \in 0 .. Len(labels) :
           IF lid >= LabelCap THEN Exit
           ELSE /\ Emit(<<Lab(L("user_label", lid))>>, 0)
                /\ stack' = Append(Saw(m), Frame(m, 0, "body", Len(ctx)))
                /\ UNCHANGED <<status, ast, ctx>>
    BY <1>7 DEF Label
  <2>2. CASE lid >= LabelCap
    BY <1>1, <2>1, <2>2 DEF Exit, LabelInv
  <2>3. CASE ~(lid >= LabelCap)
    <3>1. lid \in Nat
      BY <1>1, StepFacts
    <3>2. PICK l \in LabelType : l = L("user_label", lid)
      BY <3>1, LTypes DEF LabelKinds
    <3>3. Prints(ast, <<Lab(l)>>, {l}) /\ l[1] = "user_label"
      BY <3>2, PrintsFew, LParts
    <3>4. /\ Emit(<<Lab(l)>>, 0) /\ stack' = Append(Saw(m), f)
          /\ ast' = ast /\ status' = status
      BY <1>2, <1>3, <2>1, <2>3, <3>2
    <3>5. \A x \in {l} : Drawn(x, tmp, 0) \/ x[1] = "user_label"
      BY <3>3
    <3> QED
      BY <1>1, <1>5, <1>6, <3>3, <3>4, <3>5, VisitPrints
  <2> QED
    BY <2>2, <2>3
<1>8. CASE SwitchCase(m)
  <2>1. Top \in FrameType /\ Top.node \in Nodes(ast)
    BY <1>1, VisitFacts DEF Inv
  <2>2. Top.id \in Nat
    BY <2>1 DEF FrameType
  <2>3. PICK l \in LabelType : l = CaseLabel(ast, Top.node, Top.id, m)
    BY <1>1, <2>1, <2>2, CaseLabelType DEF Inv
  <2>4. l[1] = "case" /\ l[2] = Top.id /\ Kind = "switch"
    BY <1>8, <2>3 DEF CaseLabel, SwitchCase
  <2>5. ASSUME ~Overflowing(ast) PROVE l = <<"case", Top.id, m>>
    <3>1. Queued(ast, Top.node) = Walked(ast, Top.node)
      BY <2>1, <2>4, <2>5 DEF Overflowing, Kind
    <3>2. m \in Walked(ast, Top.node)
      BY <1>1 DEF Visit, Kids, Walked, Containers
    <3>3. m \in FlatCases(ast, Top.node)
      BY <1>8, <3>1, <3>2 DEF FlatCases, SwitchCase
    <3> QED
      BY <2>3, <3>3 DEF CaseLabel, CaseUid
  <2>6. Prints(ast, <<Lab(l)>>, {l})
    BY PrintsFew
  <2>7. /\ Emit(<<Lab(l)>>, 0) /\ stack' = Append(Saw(m), f)
        /\ ast' = ast /\ status' = status
    BY <1>2, <1>3, <1>8, <2>3 DEF SwitchCase, Open
  <2>8. \A x \in {l} : /\ Kind = "switch" /\ x[1] = "case" /\ x[2] = Top.id
                       /\ Overflowing(ast) \/ x = <<"case", Top.id, m>>
    BY <2>4, <2>5
  <2> QED
    BY <1>1, <1>5, <1>6, <2>6, <2>7, <2>8, VisitPrints
<1> QED
  BY <1>7, <1>8

LEMMA OpenLabels ==
    ASSUME Inv, LabelInv, NEW m \in Nodes(ast),
           \/ Compound(m) \/ StandaloneCase(m) \/ If(m) \/ Switch(m)
           \/ While(m) \/ Do(m) \/ For(m)
    PROVE  LabelInv'
<1>1. Visit(m) /\ status = "emit"
  BY DEF Compound, StandaloneCase, If, Switch, While, Do, For, Visit
<1>2. PICK n, i \in Nat : n = Tmps(ast.ex[m]) /\ i = Tmps(ast.init[m])
  BY <1>1, StepFacts
<1>3. /\ tmp \in Nat /\ tmp + 1 \in Nat /\ 1 + n \in Nat /\ n + 1 \in Nat
      /\ ast.ex[m] \in Shapes /\ ast.init[m] \in Shapes /\ ctx \in Seq(LoopCtx)
  BY <1>1, <1>2, StepFacts
<1>4. ctx' \in Seq(LoopCtx)
  <2>1. CASE ctx' = ctx
    BY <1>3, <2>1
  <2>2. CASE PushCtx(tmp, FALSE)
    <3>1. FALSE \in BOOLEAN
      OBVIOUS
    <3> QED
      BY <1>3, <2>2, <3>1, PushFacts
  <2> QED
    BY <2>1, <2>2 DEF Compound, StandaloneCase, If, Switch, While, Do, For
<1>5. \A k \in LabelKinds, id \in Nat : L(k, id) \in LabelType
  BY LTypes
<1>6. \A k \in LabelKinds \ Unnumbered, id \in Nat, v \in Nat :
          id >= tmp /\ id < tmp + v => Drawn(L(k, id), tmp, v)
  BY LParts DEF Drawn
<1>7. \A k \in Openers : k \in LabelKinds /\ k \notin Unnumbered
  BY DEF Openers, LabelKinds, Unnumbered
<1>8. CASE Compound(m) \/ StandaloneCase(m)
  <2>1. Open(m, 0, "body", <<>>, 0) /\ ast.kind[m] \notin Loops \cup {"if", "switch"}
    BY <1>8 DEF Compound, StandaloneCase, IsCase, Loops
  <2>2. L("if_end", 0) \in LabelType
    BY <1>5 DEF LabelKinds
  <2>3. Prints(ast, <<>>, {})
    BY <2>2, PrintsFew
  <2> QED
    BY <1>1, <1>4, <2>1, <2>3, OpenPrints
<1>9. CASE Switch(m)
  <2>1. PICK e : e = qbe_expr_val(ast.ex[m], tmp + 1)
    OBVIOUS
  <2>2. PICK P : P = ExprLabels(tmp + 1, n)
    OBVIOUS
  <2>3. Prints(ast, e, P)
    BY <1>2, <1>3, <2>1, <2>2, PrintsExpr
  <2>4. Open(m, tmp, "dispatch", e, 1 + n)
    BY <1>2, <1>9, <2>1 DEF Switch
  <2>5. tmp <= tmp + 1 /\ tmp + 1 + n <= tmp + (1 + n)
    BY <1>3
  <2>6. \A l \in P : Drawn(l, tmp, 1 + n)
    BY <1>3, <2>2, <2>5, ExprIds
  <2>7. \A l \in P : l[2] # tmp
    <3>1. \A l \in P : l[2] \in Nat /\ tmp + 1 <= l[2]
      BY <1>3, <2>2, ExprIds
    <3> QED
      BY <1>3, <3>1
  <2>8. tmp >= tmp /\ tmp < tmp + (1 + n)
    BY <1>3
  <2> QED
    BY <1>1, <1>3, <1>4, <2>3, <2>4, <2>6, <2>7, <2>8, OpenPrints
<1>10. CASE If(m)
  <2>1. PICK id \in Nat : id = tmp + n /\ tmp <= id
    BY <1>3
  <2>2. PICK th, ot \in LabelType :
           th = L("if_then", id) /\ ot = L(IF OneKid(ast, m) THEN "if_end" ELSE "if_else", id)
    BY <1>5 DEF LabelKinds
  <2>3. PICK e : e = qbe_expr_val(ast.ex[m], tmp)
    OBVIOUS
  <2>4. PICK P : P = ExprLabels(tmp, n)
    OBVIOUS
  <2>5. Prints(ast, e, P)
    BY <1>2, <1>3, <2>3, <2>4, PrintsExpr
  <2>6. Prints(ast, <<Jnz(th, ot), Lab(th)>>, {th})
    BY PrintsFew
  <2>7. th \notin P
    BY <1>3, <2>1, <2>2, <2>4, ExprIds
  <2>8. Prints(ast, e \o <<Jnz(th, ot), Lab(th)>>, P \cup {th})
    BY <2>5, <2>6, <2>7, PrintsApart
  <2>9. Open(m, id, "body", e \o <<Jnz(th, ot), Lab(th)>>, n + 1)
    BY <1>2, <1>10, <2>1, <2>2, <2>3 DEF If
  <2>10. \A l \in P : Drawn(l, tmp, n + 1) /\ l[2] # id
    <3>1. tmp <= tmp /\ tmp + n <= tmp + (n + 1)
      BY <1>3
    <3>2. \A l \in P : Drawn(l, tmp, n + 1) /\ l[2] \in Nat /\ l[2] < tmp + n
      BY <1>3, <2>4, <3>1, ExprIds
    <3> QED
      BY <2>1, <3>2
  <2>11. id >= tmp /\ id < tmp + (n + 1)
    BY <1>3, <2>1
  <2>12. Drawn(th, tmp, n + 1) /\ th[1] \in Openers
    BY <1>3, <1>6, <1>7, <2>2, <2>11, LParts DEF Openers
  <2>13. \A l \in P \cup {th} : Drawn(l, tmp, n + 1) /\ (l[2] # id \/ l[1] \in Openers)
    BY <2>10, <2>12
  <2> QED
    BY <1>1, <1>3, <1>4, <2>8, <2>9, <2>11, <2>13, OpenPrints
<1>11. CASE While(m)
  <2>1. PICK c, b, x \in LabelType :
           c = L("while_cond", tmp) /\ b = L("while_body", tmp) /\ x = L("while_end", tmp)
    BY <1>3, <1>5 DEF LabelKinds
  <2>2. PICK e : e = qbe_expr_val(ast.ex[m], tmp + 1)
    OBVIOUS
  <2>3. PICK P : P = ExprLabels(tmp + 1, n)
    OBVIOUS
  <2>4. Prints(ast, e, P)
    BY <1>2, <1>3, <2>2, <2>3, PrintsExpr
  <2>5. Prints(ast, <<Lab(c)>>, {c}) /\ Prints(ast, <<Jnz(b, x), Lab(b)>>, {b})
    BY PrintsFew
  <2>6. c \notin P /\ b \notin P /\ c # b
    <3>1. tmp < tmp + 1
      BY <1>3
    <3>2. c[1] # b[1]
      BY <2>1, LParts
    <3> QED
      BY <1>3, <2>1, <2>3, <3>1, <3>2, ExprIds
  <2>7. Prints(ast, <<Lab(c)>> \o e, {c} \cup P)
    BY <2>4, <2>5, <2>6, PrintsApart
  <2>8. Prints(ast, <<Lab(c)>> \o e \o <<Jnz(b, x), Lab(b)>>, {c} \cup P \cup {b})
    BY <2>5, <2>6, <2>7, PrintsApart
  <2>9. Open(m, tmp, "body", <<Lab(c)>> \o e \o <<Jnz(b, x), Lab(b)>>, 1 + n)
    BY <1>2, <1>11, <2>1, <2>2 DEF While
  <2>10. \A l \in P : Drawn(l, tmp, 1 + n) /\ l[2] # tmp
    <3>1. tmp <= tmp + 1 /\ tmp + 1 + n <= tmp + (1 + n)
      BY <1>3
    <3>2. \A l \in P : Drawn(l, tmp, 1 + n) /\ l[2] \in Nat /\ tmp + 1 <= l[2]
      BY <1>3, <2>3, <3>1, ExprIds
    <3> QED
      BY <1>3, <3>2
  <2>11. tmp >= tmp /\ tmp < tmp + (1 + n)
    BY <1>3
  <2>12. /\ Drawn(c, tmp, 1 + n) /\ c[1] \in Openers
         /\ Drawn(b, tmp, 1 + n) /\ b[1] \in Openers
    BY <1>3, <1>6, <1>7, <2>1, <2>11, LParts DEF Openers
  <2>13. \A l \in {c} \cup P \cup {b} :
            Drawn(l, tmp, 1 + n) /\ (l[2] # tmp \/ l[1] \in Openers)
    BY <2>10, <2>12
  <2> QED
    BY <1>1, <1>3, <1>4, <2>8, <2>9, <2>11, <2>13, OpenPrints
<1>12. CASE Do(m)
  <2>1. PICK b \in LabelType : b = L("do_body", tmp)
    BY <1>3, <1>5 DEF LabelKinds
  <2>2. Prints(ast, <<Lab(b)>>, {b})
    BY PrintsFew
  <2>3. Open(m, tmp, "body", <<Lab(b)>>, 1)
    BY <1>12, <2>1 DEF Do
  <2>4. tmp >= tmp /\ tmp < tmp + 1
    BY <1>3
  <2>5. \A l \in {b} : Drawn(l, tmp, 1) /\ l[1] \in Openers
    BY <1>3, <1>6, <1>7, <2>1, <2>4, LParts DEF Openers
  <2> QED
    BY <1>1, <1>3, <1>4, <2>2, <2>3, <2>4, <2>5, OpenPrints
<1>13. CASE For(m)
  <2>1. PICK c, b, x \in LabelType :
           c = L("for_cond", tmp) /\ b = L("for_body", tmp) /\ x = L("for_end", tmp)
    BY <1>3, <1>5 DEF LabelKinds
  <2>2. PICK e, e2, j : /\ e = qbe_expr_val(ast.init[m], tmp + 1)
                        /\ e2 = qbe_expr_val(ast.ex[m], tmp + 1 + i)
                        /\ j = IF ast.ex[m] = "none" THEN <<>> ELSE <<Jnz(b, x)>>
    OBVIOUS
  <2>3. PICK P, Q : P = ExprLabels(tmp + 1, i) /\ Q = ExprLabels(tmp + 1 + i, n)
    OBVIOUS
  <2>4. tmp + 1 + i \in Nat /\ 1 + i + n \in Nat
    BY <1>3
  <2>5. Prints(ast, e, P) /\ Prints(ast, e2, Q)
    BY <1>2, <1>3, <2>2, <2>3, <2>4, PrintsExpr
  <2>6. /\ Prints(ast, <<Lab(c)>>, {c}) /\ Prints(ast, <<Lab(b)>>, {b})
        /\ Prints(ast, j, {})
    BY <2>2, PrintsFew
  <2>7. /\ c \notin P /\ b \notin P /\ c # b /\ c \notin Q /\ b \notin Q
        /\ P \cap Q = {}
    <3>1. tmp < tmp + 1 /\ tmp < tmp + 1 + i
      BY <1>3
    <3>2. c[1] # b[1]
      BY <2>1, LParts
    <3>3. /\ \A k : L(k, tmp) \notin ExprLabels(tmp + 1, i)
          /\ \A k : L(k, tmp) \notin ExprLabels(tmp + 1 + i, n)
      BY <1>3, <2>4, <3>1, ExprIds
    <3>4. P \cap Q = {}
      <4>1. tmp + 1 + i <= tmp + 1 + i
        BY <2>4
      <4> QED
        BY <1>3, <2>3, <2>4, <4>1, ExprsApart
    <3> QED
      BY <2>1, <2>3, <3>2, <3>3, <3>4
  <2>8. Prints(ast, e \o <<Lab(c)>>, P \cup {c})
    BY <2>5, <2>6, <2>7, PrintsApart
  <2>9. Prints(ast, e \o <<Lab(c)>> \o e2, P \cup {c} \cup Q)
    BY <2>5, <2>7, <2>8, PrintsApart
  <2>10. Prints(ast, e \o <<Lab(c)>> \o e2 \o j, P \cup {c} \cup Q \cup {})
    BY <2>6, <2>9, PrintsApart
  <2>11. Prints(ast, e \o <<Lab(c)>> \o e2 \o j \o <<Lab(b)>>,
                P \cup {c} \cup Q \cup {} \cup {b})
    BY <2>6, <2>7, <2>10, PrintsApart
  <2>12. Open(m, tmp, "body", e \o <<Lab(c)>> \o e2 \o j \o <<Lab(b)>>, 1 + i + n)
    BY <1>2, <1>13, <2>1, <2>2 DEF For
  <2>13. \A l \in P \cup Q : Drawn(l, tmp, 1 + i + n) /\ l[2] # tmp
    <3>1. /\ tmp <= tmp + 1 /\ tmp + 1 + i <= tmp + (1 + i + n)
          /\ tmp <= tmp + 1 + i /\ tmp + 1 + i + n <= tmp + (1 + i + n)
      BY <1>3
    <3>2. \A l \in P : Drawn(l, tmp, 1 + i + n) /\ l[2] \in Nat /\ tmp + 1 <= l[2]
      BY <1>3, <2>3, <2>4, <3>1, ExprIds
    <3>3. \A l \in Q : Drawn(l, tmp, 1 + i + n) /\ l[2] \in Nat /\ tmp + 1 + i <= l[2]
      BY <1>3, <2>3, <2>4, <3>1, ExprIds
    <3>4. \A v \in Nat : tmp + 1 <= v \/ tmp + 1 + i <= v => v # tmp
      BY <1>3
    <3> QED
      BY <3>2, <3>3, <3>4
  <2>14. tmp >= tmp /\ tmp < tmp + (1 + i + n)
    BY <1>3
  <2>15. /\ Drawn(c, tmp, 1 + i + n) /\ c[1] \in Openers
         /\ Drawn(b, tmp, 1 + i + n) /\ b[1] \in Openers
    BY <1>3, <1>6, <1>7, <2>1, <2>4, <2>14, LParts DEF Openers
  <2>16. \A l \in P \cup {c} \cup Q \cup {} \cup {b} :
            Drawn(l, tmp, 1 + i + n) /\ (l[2] # tmp \/ l[1] \in Openers)
    BY <2>13, <2>15
  <2> QED
    BY <1>1, <1>3, <1>4, <2>4, <2>11, <2>12, <2>14, <2>16, OpenPrints
<1> QED
  BY <1>8, <1>9, <1>10, <1>11, <1>12, <1>13

LEMMA CloseLabels ==
    ASSUME Inv, LabelInv,
           EndIf \/ EndPlain \/ EndWhile \/ EndDo \/ EndFor \/ EndSwitch
    PROVE  LabelInv'
<1>1. status = "emit" /\ stack # <<>>
  BY DEF EndIf, EndPlain, EndWhile, EndDo, EndFor, EndSwitch, Close
<1>2. PICK id \in Nat : id = Top.id
  BY <1>1, TopFacts
<1>3. /\ tmp \in Nat /\ ast.ex[Top.node] \in Shapes /\ ast.post[Top.node] \in Shapes
      /\ Tmps(ast.ex[Top.node]) \in Nat /\ Tmps(ast.post[Top.node]) \in Nat
      /\ Len(stack) \in DOMAIN stack /\ Top = stack[Len(stack)]
  BY <1>1, TopFacts DEF Top
<1>4. Numbered(ast, Top) => id < tmp
  BY <1>1, <1>2, <1>3 DEF LabelInv, Owing
<1>5. \A k \in LabelKinds : L(k, id) \in LabelType
  BY <1>2, LTypes
<1>6. CASE EndPlain
  <2>1. Close(<<>>, 0)
    BY <1>6 DEF EndPlain
  <2>2. L("if_end", id) \in LabelType
    BY <1>5 DEF LabelKinds
  <2>3. Prints(ast, <<>>, {})
    BY <2>2, PrintsFew
  <2> QED
    BY <2>1, <2>3, ClosePrints
<1>7. ASSUME NEW k \in {"if_end", "switch_end"}, Due(ast, Top, L(k, id)),
             Close(<<Lab(L(k, id))>>, 0)
      PROVE  LabelInv'
  <2>1. PICK l \in LabelType : l = L(k, id)
    BY <1>5 DEF LabelKinds
  <2>2. Prints(ast, <<Lab(l)>>, {l})
    BY PrintsFew
  <2> QED
    BY <1>7, <2>1, <2>2, ClosePrints
<1>8. CASE EndIf
  <2>1. Due(ast, Top, L("if_end", id)) /\ Close(<<Lab(L("if_end", id))>>, 0)
    BY <1>2, <1>8 DEF EndIf, Due, Kind
  <2> QED
    BY <1>7, <2>1
<1>9. CASE EndSwitch
  <2>1. Due(ast, Top, L("switch_end", id)) /\ Close(<<Lab(L("switch_end", id))>>, 0)
    BY <1>2, <1>9 DEF EndSwitch, Due, Kind
  <2> QED
    BY <1>7, <2>1
<1>10. CASE EndWhile
  <2>1. PICK c, x \in LabelType : c = L("while_cond", id) /\ x = L("while_end", id)
    BY <1>5 DEF LabelKinds
  <2>2. PICK j : j = IF ends_in_terminator(ast, Top.seen) THEN <<>> ELSE <<Jmp(c)>>
    OBVIOUS
  <2>3. Close(j \o <<Lab(x)>>, 0) /\ Due(ast, Top, x)
    BY <1>2, <1>10, <2>1, <2>2 DEF EndWhile, Due, Kind
  <2>4. Prints(ast, j, {}) /\ Prints(ast, <<Lab(x)>>, {x})
    BY <2>2, PrintsFew
  <2>5. Prints(ast, j \o <<Lab(x)>>, {} \cup {x})
    BY <2>4, PrintsApart
  <2> QED
    BY <2>3, <2>5, ClosePrints
<1>11. ASSUME NEW k \in {"do_cond", "for_post"}, NEW z \in {"do_end", "for_end"},
              NEW e \in Shapes, NEW j, Prints(ast, <<j, Lab(L(z, id))>>, {L(z, id)}),
              Due(ast, Top, L(k, id)), Due(ast, Top, L(z, id)), Tmps(e) \in Nat,
              Close(<<Lab(L(k, id))>> \o qbe_expr_val(e, tmp) \o <<j, Lab(L(z, id))>>, Tmps(e))
       PROVE  LabelInv'
  <2>1. PICK p, x \in LabelType : p = L(k, id) /\ x = L(z, id)
    BY <1>5 DEF LabelKinds
  <2>2. PICK n \in Nat : n = Tmps(e)
    BY <1>11
  <2>3. PICK v : v = qbe_expr_val(e, tmp)
    OBVIOUS
  <2>4. PICK P : P = ExprLabels(tmp, n)
    OBVIOUS
  <2>5. Prints(ast, v, P) /\ Prints(ast, <<Lab(p)>>, {p}) /\ Prints(ast, <<j, Lab(x)>>, {x})
    BY <1>3, <1>11, <2>1, <2>2, <2>3, <2>4, PrintsExpr, PrintsFew
  <2>6. id < tmp
    BY <1>4, <1>11, DueFacts
  <2>7. p \notin P /\ x \notin P /\ p # x
    <3>1. p[1] # x[1]
      BY <2>1, LParts
    <3> QED
      BY <1>3, <2>1, <2>4, <2>6, <3>1, ExprIds
  <2>8. Prints(ast, <<Lab(p)>> \o v, {p} \cup P)
    BY <2>5, <2>7, PrintsApart
  <2>9. Prints(ast, <<Lab(p)>> \o v \o <<j, Lab(x)>>, {p} \cup P \cup {x})
    BY <2>5, <2>7, <2>8, PrintsApart
  <2>10. \A l \in P : Drawn(l, tmp, n)
    <3>1. tmp <= tmp /\ tmp + n <= tmp + n
      BY <1>3
    <3> QED
      BY <1>3, <2>4, <3>1, ExprIds
  <2>11. Close(<<Lab(p)>> \o v \o <<j, Lab(x)>>, n)
    BY <1>11, <2>1, <2>2, <2>3
  <2>12. \A l \in {p} \cup P \cup {x} : Drawn(l, tmp, n) \/ Due(ast, Top, l)
    BY <1>11, <2>1, <2>10
  <2> QED
    BY <2>9, <2>11, <2>12, ClosePrints
<1>12. CASE EndDo
  <2>1. PICK b, x \in LabelType : b = L("do_body", id) /\ x = L("do_end", id)
    BY <1>5 DEF LabelKinds
  <2>2. Prints(ast, <<Jnz(b, x), Lab(x)>>, {x})
    BY PrintsFew
  <2>3. Due(ast, Top, L("do_cond", id)) /\ Due(ast, Top, L("do_end", id))
    BY <1>2, <1>12 DEF EndDo, Due, Kind
  <2>4. PICK e \in Shapes : e = ast.ex[Top.node]
    BY <1>3
  <2>5. Close(<<Lab(L("do_cond", id))>> \o qbe_expr_val(e, tmp) \o <<Jnz(b, x), Lab(x)>>, Tmps(e))
    BY <1>2, <1>12, <2>1, <2>4 DEF EndDo
  <2> QED
    BY <1>3, <1>11, <2>1, <2>2, <2>3, <2>4, <2>5
<1>13. CASE EndFor
  <2>1. PICK c, x \in LabelType : c = L("for_cond", id) /\ x = L("for_end", id)
    BY <1>5 DEF LabelKinds
  <2>2. Prints(ast, <<Jmp(c), Lab(x)>>, {x})
    BY PrintsFew
  <2>3. Due(ast, Top, L("for_post", id)) /\ Due(ast, Top, L("for_end", id))
    BY <1>2, <1>13 DEF EndFor, Due, Kind
  <2>4. PICK e \in Shapes : e = ast.post[Top.node]
    BY <1>3
  <2>5. Close(<<Lab(L("for_post", id))>> \o qbe_expr_val(e, tmp) \o <<Jmp(c), Lab(x)>>, Tmps(e))
    BY <1>2, <1>13, <2>1, <2>4 DEF EndFor
  <2> QED
    BY <1>3, <1>11, <2>1, <2>2, <2>3, <2>4, <2>5
<1> QED
  BY <1>6, <1>8, <1>9, <1>10, <1>12, <1>13

(* The steps between the parts of an if and of a switch.                   *)
LEMMA BetweenLabels ==
    ASSUME Inv, LabelInv, Else \/ DispatchEnd \/ \E m \in Nodes(ast) : DispatchCase(m)
    PROVE  LabelInv'
<1>1. status = "emit" /\ stack # <<>> /\ status' = "emit" /\ ast' = ast
  BY DEF Else, DispatchEnd, DispatchCase, NextCase, Dispatching
<1>2. /\ Top \in FrameType /\ Top.id \in Nat /\ Top.node \in Nodes(ast) /\ tmp \in Nat
      /\ FrameOK(ast, Top, Labels(out))
      /\ Len(stack) \in DOMAIN stack /\ Top = stack[Len(stack)] /\ stack \in Seq(FrameType)
  BY <1>1, TopFacts DEF Top, Inv, TypeInv, TypeOK
<1>3. PICK id \in Nat : id = Top.id
  BY <1>2
<1>4. Numbered(ast, Top) => id < tmp
  BY <1>1, <1>2, <1>3 DEF LabelInv, Owing
<1>5. \A k \in LabelKinds : L(k, id) \in LabelType
  BY <1>3, LTypes
<1>6. CASE Else
  <2>1. PICK x, l \in LabelType : x = L("if_end", id) /\ l = L("if_else", id)
    BY <1>5 DEF LabelKinds
  <2>2. PICK j : j = IF ends_in_terminator(ast, Top.seen) THEN <<>> ELSE <<Jmp(x)>>
    OBVIOUS
  <2>3. PICK g : g = [Top EXCEPT !.ph = "else"]
    OBVIOUS
  <2>4. g \in FrameType /\ g.node = Top.node /\ g.id = Top.id /\ g.ph = "else"
    BY <1>2, <2>3 DEF FrameType
  <2>5. Kind = "if" /\ Top.ph = "body" /\ Emit(j \o <<Lab(l)>>, 0) /\ TopIs(g)
    BY <1>3, <1>6, <2>1, <2>2, <2>3 DEF Else, TopIs, Top
  <2>6. Prints(ast, j, {}) /\ Prints(ast, <<Lab(l)>>, {l})
    BY <2>2, PrintsFew
  <2>7. Prints(ast, j \o <<Lab(l)>>, {} \cup {l})
    BY <2>6, PrintsApart
  <2>8. Due(ast, Top, l)
    BY <1>3, <2>1, <2>5 DEF Due, Kind
  <2>9. x # l
    BY <2>1, LParts
  <2>10. \A t : Due(ast, g, t) => t = x
    BY <1>3, <2>1, <2>4, <2>5 DEF Due, Kind
  <2>11. Due(ast, Top, x)
    BY <1>3, <2>1, <2>5 DEF Due, Kind
  <2>12. Keeps(g, {} \cup {l})
    BY <2>4, <2>9, <2>10, <2>11 DEF Keeps
  <2> QED
    BY <1>1, <2>4, <2>5, <2>7, <2>8, <2>12, TopPrints
<1>7. ASSUME NEW m \in Nodes(ast), DispatchCase(m) PROVE LabelInv'
  <2>1. /\ Top.ph = "dispatch" /\ m \in FlatCases(ast, Top.node) /\ m \notin Top.disp
        /\ Kind = "switch"
    BY <1>2, <1>7 DEF DispatchCase, NextCase, Dispatching, Undispatched, FrameOK, Kind
  <2>2. m \in Nat /\ ast.ex[m] \in Shapes /\ Tmps(ast.ex[m]) \in Nat
    BY <1>1, StepFacts
  <2>3. PICK n \in Nat : n = Tmps(ast.ex[m]) /\ n + 1 \in Nat
    BY <2>2
  <2>4. PICK c \in LabelType : c = CaseLabel(ast, Top.node, Top.id, m)
    BY <1>1, <1>2, CaseLabelType DEF Inv
  <2>5. PICK x \in LabelType : x = <<"switch_next", id, m>>
    BY <2>2 DEF LabelType, LabelKinds
  <2>6. PICK e : e = qbe_expr_val(ast.ex[m], tmp)
    OBVIOUS
  <2>7. PICK P : P = ExprLabels(tmp, n)
    OBVIOUS
  <2>8. PICK g : g = [Top EXCEPT !.disp = @ \cup {m}]
    OBVIOUS
  <2>9. /\ g \in FrameType /\ g.node = Top.node /\ g.id = Top.id /\ g.ph = Top.ph
        /\ g.seen = Top.seen /\ g.disp = Top.disp \cup {m}
    BY <1>2, <2>2, <2>8 DEF FrameType
  <2>10. /\ Emit(e \o <<Ins>> \o <<Jnz(c, x), Lab(x)>>, n + 1)
         /\ TopIs(g)
    BY <1>3, <1>7, <2>3, <2>4, <2>5, <2>6, <2>8 DEF DispatchCase, TopIs, Top
  <2>11. /\ Prints(ast, e, P) /\ Prints(ast, <<Ins>>, {})
         /\ Prints(ast, <<Jnz(c, x), Lab(x)>>, {x})
    BY <1>2, <2>2, <2>3, <2>6, <2>7, PrintsExpr, PrintsFew
  <2>12. Numbered(ast, Top)
    BY <2>1 DEF Numbered, Kind
  <2>13. \A l \in P : Drawn(l, tmp, n + 1) /\ l[2] \in Nat /\ tmp <= l[2]
    <3>1. tmp <= tmp /\ tmp + n <= tmp + (n + 1)
      BY <1>2
    <3> QED
      BY <1>2, <2>3, <2>7, <3>1, ExprIds
  <2>14. \A l \in P : l[2] # id
    BY <1>2, <1>4, <2>12, <2>13
  <2>15. x[2] = id /\ x[1] = "switch_next" /\ x[3] = m
    BY <2>5
  <2>16. Prints(ast, e \o <<Ins>>, P \cup {})
    BY <2>11, PrintsApart
  <2>17. Prints(ast, e \o <<Ins>> \o <<Jnz(c, x), Lab(x)>>, P \cup {} \cup {x})
    BY <2>11, <2>14, <2>15, <2>16, PrintsApart
  <2>18. Due(ast, Top, x)
    BY <1>3, <2>1, <2>5 DEF Due, Kind
  <2>19. ASSUME NEW l, Due(ast, g, l) PROVE Due(ast, Top, l) /\ l \notin P \cup {} \cup {x}
    <3>1. Due(ast, Top, l)
      BY <2>9, <2>19 DEF Due
    <3>2. l[2] = id
      BY <1>3, <3>1, DueFacts
    <3>3. l # x
      <4>1. \A k, i : L(k, i)[1] = k
        BY LParts
      <4>2. ASSUME l[1] = "switch_next"
            PROVE  \E k \in Nodes(ast) : k # m /\ l = <<"switch_next", g.id, k>>
        BY <2>9, <2>19, <4>1, <4>2 DEF Due
      <4>3. \A k : <<"switch_next", g.id, k>>[3] = k
        OBVIOUS
      <4> QED
        BY <2>15, <4>2, <4>3
    <3> QED
      BY <2>14, <3>1, <3>2, <3>3
  <2>20. Keeps(g, P \cup {} \cup {x})
    BY <2>9, <2>19 DEF Keeps
  <2>21. \A l \in P \cup {} \cup {x} : Drawn(l, tmp, n + 1) \/ Due(ast, Top, l)
    BY <2>13, <2>18
  <2> QED
    BY <1>1, <2>3, <2>9, <2>10, <2>17, <2>20, <2>21, TopPrints
<1>8. CASE DispatchEnd
  <2>1. PushCtx(Top.id, TRUE) /\ ctx \in Seq(LoopCtx)
    BY <1>8 DEF DispatchEnd, Inv, TypeInv, TypeOK
  <2>2. ctx' \in Seq(LoopCtx) /\ Len(ctx') \in Nat
    <3>1. TRUE \in BOOLEAN
      OBVIOUS
    <3> QED
      BY <1>2, <2>1, <3>1, PushFacts
  <2>3. PICK d \in Nat : d = Len(ctx')
    BY <2>2
  <2>4. PICK g : g = [Top EXCEPT !.ph = "body", !.depth = d]
    OBVIOUS
  <2>5. /\ g \in FrameType /\ g.node = Top.node /\ g.id = Top.id /\ g.seen = Top.seen
        /\ g.disp = Top.disp
    BY <1>2, <2>4 DEF FrameType
  <2>6. TopIs(g)
    BY <1>2, <1>8, <2>3, <2>4 DEF DispatchEnd, TopIs
  <2>7. Kind = "switch"
    BY <1>2, <1>8 DEF DispatchEnd, Dispatching, FrameOK, Kind
  <2>8. \A l : Due(ast, g, l) => Due(ast, Top, l)
    BY <2>5, <2>7 DEF Due, Kind
  <2>9. Keeps(g, {})
    BY <2>5, <2>8 DEF Keeps
  <2>10. ASSUME NEW l \in LabelType, Emit(<<Jmp(l)>>, 0) PROVE LabelInv'
    <3>1. Prints(ast, <<Jmp(l)>>, {})
      BY PrintsFew
    <3> QED
      BY <1>1, <2>5, <2>6, <2>9, <2>10, <3>1, TopPrints
  <2>11. CASE Emit(<<Jmp(L("switch_end", Top.id))>>, 0)
    <3>1. L("switch_end", Top.id) \in LabelType
      BY <1>3, <1>5 DEF LabelKinds
    <3> QED
      BY <2>10, <2>11, <3>1
  <2>12. CASE \E m \in Nodes(ast) : Emit(<<Jmp(CaseLabel(ast, Top.node, Top.id, m))>>, 0)
    <3>1. PICK m \in Nodes(ast) : Emit(<<Jmp(CaseLabel(ast, Top.node, Top.id, m))>>, 0)
      BY <2>12
    <3>2. CaseLabel(ast, Top.node, Top.id, m) \in LabelType
      BY <1>1, <1>2, CaseLabelType DEF Inv
    <3> QED
      BY <2>10, <3>1, <3>2
  <2> QED
    BY <1>8, <2>11, <2>12 DEF DispatchEnd
<1> QED
  BY <1>6, <1>7, <1>8

-----------------------------------------------------------------------------
LEMMA LabelsKept ==
    ASSUME Inv, LabelInv, [Next]_vars
    PROVE  LabelInv'
<1>1. ASSUME NEW a \in Asts, StartFunction(a) PROVE LabelInv'
  <2>1. PICK l \in LabelType : l = L("start", 0)
    BY LTypes DEF LabelKinds
  <2>2. PICK f : f = Frame(1, 0, "body", Len(ctx))
    OBVIOUS
  <2>3. f.node = 1
    BY <2>2 DEF Frame
  <2>4. ast' = a /\ out' = <<Lab(l)>> /\ stack' = <<f>>
    BY <1>1, <2>1, <2>2 DEF StartFunction
  <2>5. Prints(a, <<Lab(l)>>, {l}) /\ l[1] \in Unnumbered
    BY <2>1, PrintsFew, LParts DEF Unnumbered
  <2>6. ~Numbered(a, f)
    <3>1. Body(a)
      BY QbeAssumption
    <3> QED
      BY <2>3, <3>1 DEF Numbered, Body, Loops
  <2>7. \A x : ~Due(a, f, x)
    BY <2>6, DueFacts
  <2>8. DOMAIN stack' = {1} /\ stack'[1] = f
    BY <2>4
  <2>9. Owing(a, tmp', Labels(out'), stack')
    BY <2>6, <2>7, <2>8 DEF Owing
  <2>10. \A x \in Labels(out') : x[1] \in Unnumbered
    BY <2>4, <2>5 DEF Prints
  <2>11. Apart(a, out')
    BY <2>4, <2>5 DEF Prints
  <2> QED
    BY <2>4, <2>9, <2>10, <2>11 DEF LabelInv
<1>2. ASSUME NEW m \in Nodes(ast), Statement(m), status = "emit" PROVE LabelInv'
  <2>1. CASE Exit
    BY <1>2, <2>1 DEF Exit, LabelInv
  <2>2. CASE \E k \in Nodes(ast) : DispatchCase(k)
    BY <2>2, BetweenLabels
  <2> QED
    BY <1>2, <2>1, <2>2, LeafLabels, UnnumberedLabels, OpenLabels
       DEF Statement, RejectVisit, RejectCase
<1>3. ASSUME Ending PROVE LabelInv'
  <2>1. CASE EndFunction
    <3>1. L("start", 0) \in LabelType
      BY LTypes DEF LabelKinds
    <3>2. PICK r : r = IF ends_in_terminator(ast, 1) THEN <<>> ELSE <<Ret>>
      OBVIOUS
    <3>3. Prints(ast, r, {})
      BY <3>1, <3>2, PrintsFew
    <3>4. Prints(ast, out, Labels(out))
      BY DEF Prints, LabelInv, Inv, TypeInv, TypeOK
    <3>5. Prints(ast, out \o r, Labels(out) \cup {})
      BY <3>3, <3>4, PrintsApart
    <3> QED
      BY <2>1, <3>2, <3>5 DEF EndFunction, LabelInv, Prints
  <2>2. CASE RejectClose
    BY <2>2 DEF RejectClose, Exit, LabelInv
  <2> QED
    BY <1>3, <2>1, <2>2, BetweenLabels, CloseLabels DEF Ending
<1>4. CASE NextFunction
  BY <1>4 DEF NextFunction, LabelInv, Apart
<1>5. CASE UNCHANGED vars
  BY <1>5 DEF vars, LabelInv
<1> QED
  BY <1>1, <1>2, <1>3, <1>4, <1>5 DEF Next, EmitStep, Exited

(* Whatever the bodies, no label is printed twice in a function although   *)
(* their ids are drawn from the counter of the temporaries: but for goto   *)
(* labels, and cases of a switch that overflows its queue.                 *)
THEOREM LabelsAreFresh == Spec => []NoDuplicateLabels
<1>1. Init => LabelInv
  BY DEF Init, LabelInv, Apart
<1>2. Inv /\ LabelInv /\ [Next]_vars => LabelInv'
  BY LabelsKept
<1>3. LabelInv => NoDuplicateLabels
  BY DEF LabelInv, Apart, Exempt, NoDuplicateLabels
<1> QED
  BY <1>1, <1>2, <1>3, Invariance, PTL DEF Spec

-----------------------------------------------------------------------------
(* Lines in blocks: nothing but a label follows a jump or a return.        *)

Ended(s) == s # <<>> /\ s[Len(s)].op \in Terminators
Starts(s) == s # <<>> /\ s[1].op = "lab"

Clean(s) ==
    /\ s \in Seq(Line)
    /\ \A i \in DOMAIN s : i > 1 /\ s[i].op # "lab" => s[i - 1].op \notin Terminators

Straight(s) == Clean(s) /\ ~Ended(s)

LEMMA EndedConcat ==
    ASSUME NEW s \in Seq(Line), NEW t \in Seq(Line)
    PROVE  Ended(s \o t) <=> IF t = <<>> THEN Ended(s) ELSE Ended(t)
<1> PICK n \in Nat : n = Len(s)
  OBVIOUS
<1> PICK k \in Nat : k = Len(t)
  OBVIOUS
<1> PICK r : r = s \o t
  OBVIOUS
<1>1. /\ r \in Seq(Line) /\ Len(r) = n + k
      /\ \A i \in 1 .. n : r[i] = s[i]
      /\ \A i \in 1 .. k : r[n + i] = t[i]
      /\ (s = <<>> <=> n = 0) /\ (t = <<>> <=> k = 0) /\ (r = <<>> <=> n + k = 0)
  OBVIOUS
<1>2. CASE t = <<>>
  <2>1. k = 0 /\ n + k = n /\ (n # 0 => n \in 1 .. n)
    BY <1>1, <1>2
  <2> QED BY <1>1, <1>2, <2>1 DEF Ended
<1>3. CASE t # <<>>
  <2>1. k # 0 /\ k \in 1 .. k /\ n + k # 0
    BY <1>1, <1>3
  <2> QED BY <1>1, <1>3, <2>1 DEF Ended
<1> QED BY <1>2, <1>3

LEMMA CleanConcat ==
    ASSUME NEW s, NEW t, Clean(s), Clean(t), Ended(s) => t = <<>> \/ Starts(t)
    PROVE  /\ Clean(s \o t)
           /\ Ended(s \o t) <=> IF t = <<>> THEN Ended(s) ELSE Ended(t)
           /\ Starts(s) => Starts(s \o t)
           /\ s \o t = <<>> => t = <<>>
<1>1. s \in Seq(Line) /\ t \in Seq(Line)
  BY DEF Clean
<1> PICK n \in Nat : n = Len(s)
  BY <1>1
<1> PICK k \in Nat : k = Len(t)
  BY <1>1
<1> PICK r : r = s \o t
  OBVIOUS
<1>2. /\ r \in Seq(Line) /\ Len(r) = n + k /\ DOMAIN r = 1 .. (n + k)
      /\ DOMAIN s = 1 .. n /\ DOMAIN t = 1 .. k
      /\ \A i \in 1 .. n : r[i] = s[i]
      /\ \A i \in 1 .. k : r[n + i] = t[i]
      /\ (s = <<>> <=> n = 0) /\ (t = <<>> <=> k = 0) /\ (r = <<>> <=> n + k = 0)
  BY <1>1
<1>3. ASSUME NEW i \in DOMAIN r, i > 1, r[i].op # "lab" PROVE r[i - 1].op \notin Terminators
  <2>1. CASE i <= n
    <3>1. i \in DOMAIN s /\ i - 1 \in 1 .. n /\ i \in 1 .. n
      BY <1>2, <1>3, <2>1
    <3> QED BY <1>2, <1>3, <3>1 DEF Clean
  <2>2. CASE i > n
    <3>1. i \in Nat /\ i <= n + k
      BY <1>2
    <3>0. PICK j : j = i - n
      OBVIOUS
    <3>2. j \in Nat /\ j >= 1 /\ j <= k /\ i = n + j
      BY <2>2, <3>0, <3>1
    <3>3. j \in 1 .. k /\ r[i] = t[j]
      BY <1>2, <3>2
    <3>4. CASE j = 1
      <4>1. n \in 1 .. n /\ i - 1 = n /\ k # 0 /\ n # 0
        BY <1>3, <3>2, <3>4
      <4>2. t[1].op # "lab" /\ t # <<>>
        BY <1>2, <1>3, <3>3, <3>4, <4>1
      <4>3. ~Ended(s)
        BY <4>2 DEF Starts
      <4> QED BY <1>2, <4>1, <4>3 DEF Ended
    <3>5. CASE j > 1
      <4>0. PICK p : p = j - 1
        OBVIOUS
      <4>1. p \in Nat /\ p >= 1 /\ p <= k /\ i - 1 = n + p
        BY <3>1, <3>2, <3>5, <4>0
      <4>2. t[p].op \notin Terminators
        <5>1. j \in DOMAIN t /\ t[j].op # "lab"
          BY <1>2, <1>3, <3>3
        <5>2. t[j - 1].op \notin Terminators
          BY <3>5, <5>1 DEF Clean
        <5> QED BY <4>0, <5>2
      <4>3. p \in 1 .. k
        BY <4>1
      <4>4. r[n + p] = t[p]
        BY <1>2, <4>3
      <4> QED BY <4>1, <4>2, <4>4
    <3>6. j = 1 \/ j > 1
      BY <3>2
    <3> QED BY <3>4, <3>5, <3>6
  <2>3. i <= n \/ i > n
    BY <1>2
  <2> QED BY <2>1, <2>2, <2>3
<1>4. Ended(r) <=> IF t = <<>> THEN Ended(s) ELSE Ended(t)
  BY <1>1, EndedConcat
<1>5. Starts(s) => Starts(r)
  <2> SUFFICES ASSUME Starts(s) PROVE Starts(r)
    OBVIOUS
  <2>1. n # 0 /\ 1 \in 1 .. n /\ n + k # 0
    BY <1>2 DEF Starts
  <2> QED BY <1>2, <2>1 DEF Starts
<1>6. r = <<>> => t = <<>>
  BY <1>2
<1>7. Clean(r)
  BY <1>2, <1>3 DEF Clean
<1> QED BY <1>4, <1>5, <1>6, <1>7

LEMMA StraightConcat ==
    ASSUME NEW s, NEW t, Straight(s), Clean(t)
    PROVE  /\ Clean(s \o t)
           /\ Ended(s \o t) <=> Ended(t)
           /\ Starts(s) => Starts(s \o t)
           /\ s \o t = <<>> => t = <<>>
<1>1. Ended(<<>>) = FALSE
  BY DEF Ended
<1> QED BY <1>1, CleanConcat DEF Straight

(* A label after anything.                                                 *)
LEMMA LabelConcat ==
    ASSUME NEW s, NEW t, Clean(s), Straight(t), Starts(t)
    PROVE  /\ Straight(s \o t)
           /\ Starts(s) \/ s = <<>> => Starts(s \o t)
<1>1. t # <<>> /\ Clean(t)
  BY DEF Starts, Straight
<1>2. /\ Clean(s \o t)
      /\ Ended(s \o t) <=> Ended(t)
      /\ Starts(s) => Starts(s \o t)
  BY <1>1, CleanConcat
<1>3. s = <<>> => s \o t = t
  BY <1>1 DEF Clean
<1> QED BY <1>2, <1>3 DEF Straight

LEMMA FewLines ==
    ASSUME NEW l \in LabelType, NEW m \in LabelType, NEW k \in LabelType
    PROVE  /\ Straight(<<>>) /\ Straight(<<Ins>>)
           /\ Straight(<<Lab(l)>>) /\ Starts(<<Lab(l)>>)
           /\ Clean(<<Ret>>) /\ Ended(<<Ret>>)
           /\ Clean(<<Jmp(l)>>) /\ Ended(<<Jmp(l)>>)
           /\ Clean(<<Jnz(l, m)>>)
           /\ Straight(<<Jnz(l, m), Lab(k)>>) /\ Straight(<<Jmp(l), Lab(k)>>)
<1>1. /\ Ins \in Line /\ Ret \in Line /\ Lab(l) \in Line /\ Lab(k) \in Line
      /\ Jmp(l) \in Line /\ Jnz(l, m) \in Line
  BY LineTypes
<1>2. /\ Ins.op = "ins" /\ Ret.op = "ret" /\ Lab(l).op = "lab" /\ Lab(k).op = "lab"
      /\ Jmp(l).op = "jmp" /\ Jnz(l, m).op = "jmp"
  BY DEF Ins, Ret, Lab, Jmp, Jnz
<1>3. ASSUME NEW x \in Line
      PROVE  /\ Clean(<<x>>) /\ (Ended(<<x>>) <=> x.op \in Terminators)
             /\ (Starts(<<x>>) <=> x.op = "lab")
  BY DEF Clean, Ended, Starts
<1>4. Straight(<<>>)
  BY DEF Straight, Clean, Ended
<1>5. ASSUME NEW x \in Line, NEW y \in Line, y.op = "lab" PROVE Straight(<<x, y>>)
  <2> PICK s : s = <<x, y>>
    OBVIOUS
  <2>1. s \in Seq(Line) /\ Len(s) = 2 /\ DOMAIN s = {1, 2} /\ s[2].op = "lab"
    BY <1>5
  <2> QED BY <2>1 DEF Straight, Clean, Ended, Terminators
<1> QED BY <1>1, <1>2, <1>3, <1>4, <1>5 DEF Straight, Terminators

LEMMA ExprStraight ==
    ASSUME NEW e \in Shapes, NEW t \in Nat
    PROVE  Straight(qbe_expr_val(e, t))
<1> PICK s : s = qbe_expr_val(e, t)
  OBVIOUS
<1>1. s \in Seq(Line)
  BY ExprLines
<1>2. CASE e = "andor"
  <2>1. /\ DOMAIN s = 1 .. 8 /\ Len(s) = 8
        /\ s[1].op = "ins" /\ s[2].op = "ins" /\ s[3].op = "jmp" /\ s[4].op = "lab"
        /\ s[5].op = "ins" /\ s[6].op = "ins" /\ s[7].op = "ins" /\ s[8].op = "lab"
    BY <1>2 DEF qbe_expr_val, qbe_short_circuit, Ins, Jnz, Lab
  <2>2. ASSUME NEW i \in 1 .. 8, i > 1, s[i].op # "lab" PROVE s[i - 1].op \notin Terminators
    BY <2>1, <2>2 DEF Terminators
  <2> QED BY <1>1, <2>1, <2>2 DEF Straight, Clean, Ended, Terminators
<1>3. CASE e = "cond"
  <2>1. /\ DOMAIN s = 1 .. 10 /\ Len(s) = 10
        /\ s[1].op = "ins" /\ s[2].op = "jmp" /\ s[3].op = "lab" /\ s[4].op = "ins"
        /\ s[5].op = "ins" /\ s[6].op = "jmp" /\ s[7].op = "lab" /\ s[8].op = "ins"
        /\ s[9].op = "ins" /\ s[10].op = "lab"
    BY <1>3 DEF qbe_expr_val, qbe_conditional, Ins, Jnz, Jmp, Lab
  <2>2. ASSUME NEW i \in 1 .. 10, i > 1, s[i].op # "lab" PROVE s[i - 1].op \notin Terminators
    BY <2>1, <2>2 DEF Terminators
  <2> QED BY <1>1, <2>1, <2>2 DEF Straight, Clean, Ended, Terminators
<1>4. CASE e \notin {"andor", "cond"}
  <2>1. L("start", 0) \in LabelType
    BY LTypes DEF LabelKinds
  <2>2. Straight(<<>>) /\ Straight(<<Ins>>)
    BY <2>1, FewLines
  <2>3. s = <<>> \/ s = <<Ins>>
    BY <1>4 DEF qbe_expr_val
  <2> QED BY <2>2, <2>3
<1> QED BY <1>2, <1>3, <1>4

-----------------------------------------------------------------------------
(* The statements that ends_in_terminator and Closes look through to find  *)
(* a jump: from a node of one of the kinds K to its last child.            *)

Jumps == {"return", "break", "continue", "goto"}

LastKid(a, m, k) == k \in Kids(a, m) /\ \A j \in Kids(a, m) : j <= k

Down(a, K, S) == \A m \in S, k \in Nodes(a) : a.kind[m] \in K /\ LastKid(a, m, k) => k \in S

Falls(a, K, m) ==
    \E k \in Nodes(a) :
        /\ a.kind[k] \in Jumps
        /\ \A S \in SUBSET Nodes(a) : Down(a, K, S) /\ m \in S => k \in S

LEMMA KidFacts ==
    ASSUME NEW a, Body(a), NEW m \in Nodes(a)
    PROVE  /\ Nodes(a) \subseteq Nat \ {0} /\ Kids(a, m) \subseteq Nodes(a)
           /\ \A k \in Kids(a, m) : m < k /\ a.par[k] = m
           /\ \A j, k : LastKid(a, m, j) /\ LastKid(a, m, k) => j = k
           /\ Kids(a, m) # {} => \E k \in Nodes(a) : LastKid(a, m, k)
<1>1. a.n \in Nat \ {0} /\ Nodes(a) = 1 .. a.n
  BY DEF Body, Nodes
<1>2. Nodes(a) \subseteq Nat \ {0} /\ Kids(a, m) \subseteq Nodes(a)
  BY <1>1 DEF Kids
<1>3. ASSUME NEW k \in Kids(a, m) PROVE m < k /\ a.par[k] = m
  <2>1. k \in Nodes(a) /\ a.par[k] = m
    BY DEF Kids
  <2>2. k # 1
    BY <1>1, <2>1 DEF Body
  <2>3. a.par[k] \in 1 .. (k - 1)
    BY <2>1, <2>2 DEF Body
  <2> QED BY <1>2, <2>1, <2>3
<1>4. \A j, k : LastKid(a, m, j) /\ LastKid(a, m, k) => j = k
  BY <1>2 DEF LastKid
<1>5. ASSUME Kids(a, m) # {} PROVE \E k \in Nodes(a) : LastKid(a, m, k)
  <2>1. Kids(a, m) \in SUBSET (0 .. a.n) /\ a.n \in Nat
    BY <1>1, <1>2
  <2>2. PICK k \in Kids(a, m) : \A j \in Kids(a, m) : j <= k
    BY <1>5, <2>1, HasLargest
  <2> QED BY <1>2, <2>2 DEF LastKid
<1> QED BY <1>2, <1>3, <1>4, <1>5

LEMMA FallsNext ==
    ASSUME NEW a, Body(a), NEW K, NEW m \in Nodes(a)
    PROVE  Falls(a, K, m) <=>
               \/ a.kind[m] \in Jumps
               \/ a.kind[m] \in K /\ \E k \in Nodes(a) : LastKid(a, m, k) /\ Falls(a, K, k)
<1>1. ASSUME a.kind[m] \in Jumps PROVE Falls(a, K, m)
  BY <1>1 DEF Falls
<1>2. ASSUME a.kind[m] \in K, NEW l \in Nodes(a), LastKid(a, m, l), Falls(a, K, l)
      PROVE  Falls(a, K, m)
  <2>1. PICK k \in Nodes(a) :
            /\ a.kind[k] \in Jumps
            /\ \A S \in SUBSET Nodes(a) : Down(a, K, S) /\ l \in S => k \in S
    BY <1>2 DEF Falls
  <2>2. ASSUME NEW S \in SUBSET Nodes(a), Down(a, K, S), m \in S PROVE k \in S
    <3>1. l \in S
      BY <1>2, <2>2 DEF Down
    <3> QED BY <2>1, <2>2, <3>1
  <2> QED BY <2>1, <2>2 DEF Falls
<1>3. ASSUME Falls(a, K, m), a.kind[m] \notin Jumps
      PROVE  a.kind[m] \in K /\ \E l \in Nodes(a) : LastKid(a, m, l) /\ Falls(a, K, l)
  <2>1. PICK k \in Nodes(a) :
            /\ a.kind[k] \in Jumps
            /\ \A S \in SUBSET Nodes(a) : Down(a, K, S) /\ m \in S => k \in S
    BY <1>3 DEF Falls
  <2>2. k # m
    BY <1>3, <2>1
  <2>3. PICK l \in Nodes(a) : a.kind[m] \in K /\ LastKid(a, m, l)
    <3>1. SUFFICES ASSUME ~\E l \in Nodes(a) : a.kind[m] \in K /\ LastKid(a, m, l)
                   PROVE  FALSE
      OBVIOUS
    <3>2. {m} \in SUBSET Nodes(a) /\ Down(a, K, {m})
      BY <3>1 DEF Down
    <3> QED BY <2>1, <2>2, <3>2
  <2>4. ASSUME NEW S \in SUBSET Nodes(a), Down(a, K, S), l \in S PROVE k \in S
    <3> PICK T : T = S \cup {m}
      OBVIOUS
    <3>1. \A j : LastKid(a, m, j) => j = l
      BY <2>3, KidFacts
    <3>2. T \in SUBSET Nodes(a) /\ m \in T
      OBVIOUS
    <3>3. Down(a, K, T)
      BY <2>4, <3>1 DEF Down
    <3> QED BY <2>1, <2>2, <3>2, <3>3
  <2> QED BY <2>1, <2>3, <2>4 DEF Falls
<1> QED BY <1>1, <1>2, <1>3

(* One step of ends_in_terminator and of Closes.                           *)
LEMMA TerminatorNext ==
    ASSUME NEW a, Body(a), NEW n \in Nodes(a)
    PROVE  ends_in_terminator(a, n) <=>
               \/ a.kind[n] \in Jumps
               \/ /\ a.kind[n] = "compound"
                  /\ \E k \in Nodes(a) : LastKid(a, n, k) /\ ends_in_terminator(a, k)
<1> DEFINE last(m) == CHOOSE k \in Kids(a, m) : \A j \in Kids(a, m) : j <= k
           Step(f) == [m \in Nodes(a) |->
                          \/ a.kind[m] \in {"return", "break", "continue", "goto"}
                          \/ /\ a.kind[m] = "compound"
                             /\ Kids(a, m) # {}
                             /\ f[last(m)]]
           et == CHOOSE f : f = Step(f)
           g == [m \in Nodes(a) |-> Falls(a, {"compound"}, m)]
<1>1. ASSUME NEW m \in Nodes(a), Kids(a, m) # {} PROVE LastKid(a, m, last(m)) /\ last(m) \in Nodes(a)
  <2>1. PICK k \in Nodes(a) : LastKid(a, m, k)
    BY <1>1, KidFacts
  <2>2. \E i \in Kids(a, m) : \A j \in Kids(a, m) : j <= i
    BY <2>1 DEF LastKid
  <2>3. last(m) \in Kids(a, m) /\ \A j \in Kids(a, m) : j <= last(m)
    BY <2>2
  <2> QED BY <2>3, KidFacts DEF LastKid
<1>2. ASSUME NEW m \in Nodes(a), NEW k, LastKid(a, m, k) PROVE Kids(a, m) # {} /\ k = last(m)
  <2>1. Kids(a, m) # {}
    BY <1>2 DEF LastKid
  <2> HIDE DEF last
  <2> QED BY <1>1, <1>2, <2>1, KidFacts
<1> HIDE DEF last
<1>3. g = Step(g)
  <2>1. ASSUME NEW m \in Nodes(a)
        PROVE  Falls(a, {"compound"}, m)
                   = (\/ a.kind[m] \in {"return", "break", "continue", "goto"}
                      \/ /\ a.kind[m] = "compound"
                         /\ Kids(a, m) # {}
                         /\ g[last(m)])
    <3>1. g[m] <=> \/ a.kind[m] \in Jumps
                   \/ /\ a.kind[m] \in {"compound"}
                      /\ \E k \in Nodes(a) : LastKid(a, m, k) /\ Falls(a, {"compound"}, k)
      BY FallsNext
    <3>2. \A k \in Nodes(a) : g[k] <=> Falls(a, {"compound"}, k)
      OBVIOUS
    <3>3. (\E k \in Nodes(a) : LastKid(a, m, k) /\ Falls(a, {"compound"}, k))
              <=> Kids(a, m) # {} /\ g[last(m)]
      BY <1>1, <1>2, <3>2
    <3> HIDE DEF g
    <3>4. Falls(a, {"compound"}, m)
              <=> \/ a.kind[m] \in {"return", "break", "continue", "goto"}
                  \/ a.kind[m] = "compound" /\ Kids(a, m) # {} /\ g[last(m)]
      BY <3>1, <3>2, <3>3 DEF Jumps
    <3> QED BY <3>4 DEF Falls
  <2> QED BY <2>1
<1>4. et = Step(et)
  <2> HIDE DEF g, Step
  <2> QED BY <1>3
<1> HIDE DEF g
<1>5. \A m : ends_in_terminator(a, m) <=> et[m]
  BY DEF ends_in_terminator, last
<1> HIDE DEF et
<1>6. et[n] <=> \/ a.kind[n] \in Jumps
                \/ a.kind[n] = "compound" /\ Kids(a, n) # {} /\ et[last(n)]
  BY <1>4 DEF Jumps
<1>7. (\E k \in Nodes(a) : LastKid(a, n, k) /\ ends_in_terminator(a, k))
          <=> Kids(a, n) # {} /\ et[last(n)]
  BY <1>1, <1>2, <1>5
<1> QED BY <1>5, <1>6, <1>7

LEMMA ClosesNext ==
    ASSUME NEW a, Body(a), NEW n \in Nodes(a)
    PROVE  Closes(a, n) <=>
               \/ a.kind[n] \in Jumps
               \/ /\ a.kind[n] \in {"compound", "label", "case", "default"}
                  /\ \E k \in Nodes(a) : LastKid(a, n, k) /\ Closes(a, k)
<1> DEFINE K == {"compound", "label", "case", "default"}
           Step(f) == [m \in Nodes(a) |->
                          \/ a.kind[m] \in {"return", "break", "continue", "goto"}
                          \/ /\ a.kind[m] \in {"compound", "label", "case", "default"}
                             /\ \E k \in Kids(a, m) : f[k] /\ \A j \in Kids(a, m) : j <= k]
           c == CHOOSE f : f = Step(f)
           g == [m \in Nodes(a) |-> Falls(a, K, m)]
<1>1. g = Step(g)
  <2>1. ASSUME NEW m \in Nodes(a)
        PROVE  Falls(a, K, m)
                   = (\/ a.kind[m] \in {"return", "break", "continue", "goto"}
                      \/ /\ a.kind[m] \in {"compound", "label", "case", "default"}
                         /\ \E k \in Kids(a, m) : g[k] /\ \A j \in Kids(a, m) : j <= k)
    <3>1. g[m] <=> \/ a.kind[m] \in Jumps
                   \/ a.kind[m] \in K /\ \E k \in Nodes(a) : LastKid(a, m, k) /\ Falls(a, K, k)
      BY FallsNext
    <3>2. \A k \in Nodes(a) : g[k] <=> Falls(a, K, k)
      OBVIOUS
    <3>3. Kids(a, m) \subseteq Nodes(a)
      BY KidFacts
    <3>4. (\E k \in Nodes(a) : LastKid(a, m, k) /\ Falls(a, K, k))
              <=> \E k \in Kids(a, m) : g[k] /\ \A j \in Kids(a, m) : j <= k
      <4> HIDE DEF g, K
      <4> QED BY <3>2, <3>3 DEF LastKid
    <3> HIDE DEF g
    <3>5. Falls(a, K, m)
              <=> \/ a.kind[m] \in {"return", "break", "continue", "goto"}
                  \/ /\ a.kind[m] \in {"compound", "label", "case", "default"}
                     /\ \E k \in Kids(a, m) : g[k] /\ \A j \in Kids(a, m) : j <= k
      BY <3>1, <3>2, <3>4 DEF Jumps
    <3> QED BY <3>5 DEF Falls
  <2> QED BY <2>1
<1>2. c = Step(c)
  <2> HIDE DEF g, Step
  <2> QED BY <1>1
<1> HIDE DEF g
<1>3. \A m : Closes(a, m) <=> c[m]
  BY DEF Closes
<1> HIDE DEF c
<1>4. c[n] <=> \/ a.kind[n] \in Jumps
               \/ a.kind[n] \in K /\ \E k \in Kids(a, n) : c[k] /\ \A j \in Kids(a, n) : j <= k
  BY ZenonT(60), <1>2 DEF Jumps
<1>5. (\E k \in Nodes(a) : LastKid(a, n, k) /\ Closes(a, k))
          <=> \E k \in Kids(a, n) : c[k] /\ \A j \in Kids(a, n) : j <= k
  <2>1. Kids(a, n) \subseteq Nodes(a)
    BY KidFacts
  <2> QED BY <1>3, <2>1 DEF LastKid
<1> QED BY <1>3, <1>4, <1>5

(* Where no terminator is under a label or a stray case, what closes a     *)
(* block is what ends_in_terminator recognises.                            *)
LEMMA ClosesEnds ==
    ASSUME NEW a, Body(a), ~DeadCode(a), NEW n \in Nodes(a), Closes(a, n),
           ~(IsCase(a, n) /\ a.kind[a.par[n]] = "switch")
    PROVE  ends_in_terminator(a, n)
<1> PICK B : B = {m \in Nodes(a) : /\ Closes(a, m)
                                   /\ ~(IsCase(a, m) /\ a.kind[a.par[m]] = "switch")
                                   /\ ~ends_in_terminator(a, m)}
  OBVIOUS
<1>1. ASSUME B # {} PROVE FALSE
  <2>1. a.n \in Nat /\ Nodes(a) \subseteq 0 .. a.n
    BY DEF Body, Nodes
  <2>2. B \in SUBSET (0 .. a.n) /\ B \subseteq Nodes(a)
    BY <2>1
  <2>3. PICK m \in B : \A j \in B : j <= m
    BY <1>1, <2>1, <2>2, HasLargest
  <2>4. /\ m \in Nodes(a) /\ Closes(a, m) /\ ~ends_in_terminator(a, m)
        /\ ~(IsCase(a, m) /\ a.kind[a.par[m]] = "switch")
    BY <2>3
  <2>5. a.kind[m] \notin Jumps
    BY <2>4, TerminatorNext
  <2>6. PICK k \in Nodes(a) : /\ a.kind[m] \in {"compound", "label", "case", "default"}
                              /\ LastKid(a, m, k) /\ Closes(a, k)
    BY <2>4, <2>5, ClosesNext
  <2>7. ~(a.kind[m] = "label" \/ (IsCase(a, m) /\ ~Labelled(a, m)))
    BY <2>4 DEF DeadCode
  <2>8. IsCase(a, m) => ~Labelled(a, m)
    BY <2>4 DEF IsCase, Labelled
  <2>9. a.kind[m] = "compound"
    BY <2>6, <2>7, <2>8 DEF IsCase
  <2>10. ~ends_in_terminator(a, k)
    BY <2>4, <2>6, <2>9, TerminatorNext
  <2>11. m < k /\ a.par[k] = m
    BY <2>4, <2>6, KidFacts DEF LastKid
  <2>12. a.kind[a.par[k]] # "switch"
    BY <2>9, <2>11
  <2>13. k \in B
    BY <2>6, <2>10, <2>12
  <2>14. k <= m /\ m \in Nat /\ k \in Nat
    BY <2>1, <2>3, <2>4, <2>13
  <2> QED BY <2>11, <2>14
<1> QED BY <1>1

-----------------------------------------------------------------------------
(* The invariant behind BlocksWellFormed.  Where the source has no dead    *)
(* code, what is printed last is a jump or a return only after a statement *)
(* that closes its block, or after the dispatch of a switch; and after a   *)
(* statement of a compound that ends_in_terminator recognises, it is one.  *)

TopClean(a, o, f) ==
    ~DeadCode(a) /\ Ended(o) =>
        /\ f.ph # "dispatch"
        /\ IF f.seen = 0 THEN a.kind[f.node] = "switch" ELSE Closes(a, f.seen)
        /\ f.ph = "else" => \A k \in Kids(a, f.node) : k <= f.seen

TopEnded(a, o, f) ==
    a.kind[f.node] = "compound" /\ f.seen # 0 /\ ends_in_terminator(a, f.seen) => Ended(o)

(* An if in its second branch has visited its last child.                  *)
LastSeen(a, f) == f.ph = "else" => \A k \in Kids(a, f.node) : k <= f.seen

(* Each call waits for the call for the child it visited last.             *)
Linked(a, st) ==
    /\ \A i \in DOMAIN st : st[i].ph = "else" => st[i].seen # 0
    /\ \A i \in 1 .. (Len(st) - 1) :
          /\ st[i].seen = st[i + 1].node
          /\ LastSeen(a, st[i])

TopBlock(a, o, st) ==
    /\ Linked(a, st)
    /\ TopClean(a, o, st[Len(st)])
    /\ TopEnded(a, o, st[Len(st)])

BlockInv ==
    /\ DeadCode(ast) \/ Clean(out)
    /\ status = "done" => Ended(out)
    /\ status = "emit" => TopBlock(ast, out, stack)

LEMMA Inside ==
    ASSUME NEW n \in Nat, NEW i \in 1 .. (n - 1)
    PROVE  i \in 1 .. n /\ i + 1 \in 1 .. n /\ i # n
OBVIOUS

LEMMA LinkedTop ==
    ASSUME NEW a, NEW st \in Seq(FrameType), st # <<>>, Linked(a, st), NEW g \in FrameType,
           NEW r, r = [st EXCEPT ![Len(st)] = g],
           g.node = st[Len(st)].node, g.ph = "else" => g.seen # 0
    PROVE  Linked(a, r)
<1>1. /\ Len(r) = Len(st) /\ DOMAIN r = DOMAIN st
      /\ Len(st) \in DOMAIN st /\ r[Len(st)] = g
      /\ \A i \in DOMAIN st : i # Len(st) => r[i] = st[i]
  BY TopStack
<1> PICK n : n = Len(st)
  OBVIOUS
<1>2. n \in Nat /\ DOMAIN st = 1 .. n /\ n \in 1 .. n
  BY <1>1
<1>3. ASSUME NEW i \in DOMAIN r PROVE r[i].ph = "else" => r[i].seen # 0
  BY <1>1 DEF Linked
<1>4. ASSUME NEW i \in 1 .. (n - 1)
      PROVE  /\ r[i].seen = r[i + 1].node
             /\ LastSeen(a, r[i])
  <2>1. i \in 1 .. n /\ i + 1 \in 1 .. n /\ i # n
    BY <1>2, Inside
  <2>2. r[i] = st[i] /\ r[i + 1].node = st[i + 1].node
    BY <1>1, <1>2, <2>1
  <2> QED BY <2>2 DEF Linked
<1> QED BY <1>1, <1>3, <1>4 DEF Linked

LEMMA LinkedPush ==
    ASSUME NEW a, NEW st \in Seq(FrameType), st # <<>>, Linked(a, st), NEW g \in FrameType,
           NEW f, f = st[Len(st)], f.seen = g.node, g.ph # "else", LastSeen(a, f),
           NEW r, r = Append(st, g)
    PROVE  Linked(a, r) /\ r[Len(r)] = g
<1> PICK n \in Nat : n = Len(st)
  OBVIOUS
<1>1. /\ DOMAIN st = 1 .. n /\ n # 0 /\ Len(r) = n + 1 /\ DOMAIN r = 1 .. (n + 1)
      /\ r[n + 1] = g /\ \A i \in 1 .. n : r[i] = st[i]
  BY PushStack
<1>2. ASSUME NEW i \in DOMAIN r PROVE r[i].ph = "else" => r[i].seen # 0
  <2>1. i \in 1 .. n \/ i = n + 1
    BY <1>1
  <2> QED BY <1>1, <2>1 DEF Linked
<1>3. ASSUME NEW i \in 1 .. n
      PROVE  /\ r[i].seen = r[i + 1].node
             /\ LastSeen(a, r[i])
  <2>1. CASE i = n
    BY <1>1, <2>1
  <2>2. CASE i # n
    <3>1. i \in 1 .. (n - 1) /\ i + 1 \in 1 .. n
      BY <2>2
    <3> QED BY <1>1, <3>1 DEF Linked
  <2> QED BY <2>1, <2>2
<1>4. Len(r) - 1 = n
  BY <1>1
<1> QED BY <1>1, <1>2, <1>3, <1>4 DEF Linked

LEMMA EmitBlocks ==
    ASSUME Inv, BlockInv, NEW lines, Clean(lines), NEW n, Emit(lines, n),
           ~DeadCode(ast) /\ Ended(out) => lines = <<>> \/ Starts(lines)
    PROVE  /\ DeadCode(ast) \/ Clean(out')
           /\ Ended(out') <=> IF lines = <<>> THEN Ended(out) ELSE Ended(lines)
<1>1. out \in Seq(Line) /\ lines \in Seq(Line) /\ out' = out \o lines
  BY DEF Inv, TypeInv, TypeOK, Clean, Emit
<1>2. Ended(out') <=> IF lines = <<>> THEN Ended(out) ELSE Ended(lines)
  BY <1>1, EndedConcat
<1>3. ~DeadCode(ast) => Clean(out')
  BY <1>1, CleanConcat DEF BlockInv
<1> QED BY <1>2, <1>3

(* After a jump or a return, only a statement that prints a label first is *)
(* visited; the second branch of an if is its last child.                  *)
LEMMA VisitClean ==
    ASSUME Inv, BlockInv, NEW m \in Nodes(ast), Visit(m)
    PROVE  /\ ~DeadCode(ast) /\ Ended(out) => Labelled(ast, m)
           /\ Top.ph = "else" => \A k \in Kids(ast, Top.node) : k <= m
           /\ Top.ph # "dispatch" /\ m # 0 /\ ast.par[m] = Top.node
           /\ m \in Kids(ast, Top.node)
<1>1. /\ status = "emit" /\ stack # <<>> /\ m \in Kids(ast, Top.node) /\ m > Top.seen
      /\ \A k \in Kids(ast, Top.node) : k > Top.seen => m <= k
      /\ \/ Top.ph = "body" /\ (Kind = "if" => Top.seen = 0)
         \/ Top.ph = "else"
  BY DEF Visit
<1>2. /\ Body(ast) /\ Top.node \in Nodes(ast) /\ FrameOK(ast, Top, Labels(out))
      /\ Len(stack) \in DOMAIN stack /\ Top = stack[Len(stack)]
  BY <1>1, BodyFacts, TopFacts DEF Inv, Top
<1>3. /\ Nodes(ast) \subseteq Nat \ {0} /\ Kids(ast, Top.node) \subseteq Nodes(ast)
      /\ ast.par[m] = Top.node
  BY <1>1, <1>2, KidFacts
<1>4. /\ Top.seen \in {0} \cup Kids(ast, Top.node)
      /\ Top.ph = "else" => Kind = "if"
  BY <1>2 DEF FrameOK, Kind
<1>5. /\ Linked(ast, stack) /\ TopClean(ast, out, Top)
  BY <1>1, <1>2 DEF BlockInv, TopBlock
<1>6. Top.ph = "else" => Top.seen # 0
  BY <1>2, <1>5 DEF Linked
<1>7. ASSUME Top.ph = "else" PROVE \A k \in Kids(ast, Top.node) : k <= m
  <2>1. OneKid(ast, Top.node) \/ TwoKids(ast, Top.node)
    BY <1>2, <1>4, <1>7 DEF Body, Kind
  <2>2. Top.seen \in Kids(ast, Top.node) /\ Top.seen # m /\ m \in Nat /\ Top.seen \in Nat
    BY <1>1, <1>3, <1>4, <1>6, <1>7
  <2>3. Kids(ast, Top.node) = {Top.seen, m}
    BY <1>1, <2>1, <2>2 DEF OneKid, TwoKids
  <2> QED BY <1>1, <2>2, <2>3
<1>8. ASSUME ~DeadCode(ast), Ended(out) PROVE Labelled(ast, m)
  <2>1. /\ IF Top.seen = 0 THEN Kind = "switch" ELSE Closes(ast, Top.seen)
        /\ Top.ph = "else" => \A k \in Kids(ast, Top.node) : k <= Top.seen
    BY <1>5, <1>8 DEF TopClean, Kind
  <2>2. Top.ph # "else"
    BY <1>1, <1>3, <1>4, <2>1
  <2>3. m \in Nat /\ Top.seen \in Nat
    BY <1>3, <1>4
  <2>4. CASE Top.seen = 0
    <3>1. \A i \in Kids(ast, Top.node) : i <= m => i = m
      BY <1>1, <1>3, <2>3, <2>4
    <3>2. \E i \in Kids(ast, Top.node) : i <= m /\ Labelled(ast, i)
      BY <1>1, <1>2, <1>8, <2>1, <2>4 DEF DeadCode, Kind
    <3> QED BY <3>1, <3>2
  <2>5. CASE Top.seen # 0
    <3>1. Top.seen \in Kids(ast, Top.node) /\ Top.seen # m /\ Top.seen < m
      BY <1>1, <1>4, <2>3, <2>5
    <3>2. Kind \in Lists
      <4>1. Kind # "if"
        BY <1>1, <2>2, <2>5
      <4>2. ~OneKid(ast, Top.node)
        BY <1>1, <3>1 DEF OneKid
      <4>3. Kind \in Kinds
        BY <1>2 DEF Body, Kind
      <4> QED BY <1>1, <1>2, <4>1, <4>2, <4>3 DEF Body, Kind, Kinds
    <3>3. \A i \in Kids(ast, Top.node) : Top.seen < i /\ i <= m => i = m
      BY <1>1, <1>3, <2>3
    <3>4. \E i \in Kids(ast, Top.node) : Top.seen < i /\ i <= m /\ Labelled(ast, i)
      BY <1>1, <1>2, <1>8, <2>1, <2>5, <3>1, <3>2 DEF DeadCode, Kind
    <3> QED BY <3>3, <3>4
  <2> QED BY <2>4, <2>5
<1>9. Top.ph # "dispatch" /\ m # 0
  BY <1>1, <1>3
<1> QED BY <1>1, <1>3, <1>7, <1>8, <1>9

(* A statement without statements of its own.                              *)
LEMMA LeafBlocks ==
    ASSUME Inv, BlockInv, NEW m \in Nodes(ast), Visit(m), ast.kind[m] \in Leaves,
           NEW lines, Clean(lines), NEW n, Leaf(m, lines, n),
           Ended(lines) <=> ast.kind[m] \in Jumps
    PROVE  BlockInv'
<1>1. /\ status = "emit" /\ stack \in Seq(FrameType) /\ stack # <<>>
      /\ Body(ast) /\ m \in Nat
  BY BodyFacts, VisitFacts DEF Inv, TypeInv, TypeOK, Visit
<1>2. /\ ~DeadCode(ast) /\ Ended(out) => Labelled(ast, m)
      /\ Top.ph = "else" => \A k \in Kids(ast, Top.node) : k <= m
      /\ Top.ph # "dispatch" /\ m # 0
  BY VisitClean
<1>3. ~Labelled(ast, m)
  BY DEF Labelled, Leaves, IsCase
<1>4. /\ DeadCode(ast) \/ Clean(out')
      /\ Ended(out') <=> IF lines = <<>> THEN Ended(out) ELSE Ended(lines)
  BY <1>2, <1>3, EmitBlocks DEF Leaf
<1>5. lines = <<>> => ~Ended(lines)
  BY DEF Ended
<1> PICK g : g = [Top EXCEPT !.seen = m]
  OBVIOUS
<1>6. stack' = [stack EXCEPT ![Len(stack)] = g] /\ Top \in FrameType /\ g \in FrameType
  BY <1>1, SawStack DEF Leaf
<1>7. g.node = Top.node /\ g.seen = m /\ g.ph = Top.ph
  BY <1>6 DEF FrameType
<1>8. /\ Len(stack') = Len(stack) /\ DOMAIN stack' = DOMAIN stack
      /\ Len(stack) \in DOMAIN stack /\ stack'[Len(stack)] = g
      /\ \A i \in DOMAIN stack : i # Len(stack) => stack'[i] = stack[i]
  BY <1>1, <1>6, TopStack
<1>9. Closes(ast, m) <=> ast.kind[m] \in Jumps
  BY <1>1, ClosesNext DEF Leaves, Jumps
<1>10. ends_in_terminator(ast, m) <=> ast.kind[m] \in Jumps
  BY <1>1, TerminatorNext DEF Leaves, Jumps
<1>11. TopClean(ast, out', g)
  BY <1>2, <1>3, <1>4, <1>7, <1>9 DEF TopClean
<1>12. TopEnded(ast, out', g)
  BY <1>4, <1>5, <1>7, <1>10 DEF TopEnded
<1>13. Linked(ast, stack')
  <2> PICK r : r = stack'
    OBVIOUS
  <2>1. Linked(ast, stack)
    BY <1>1 DEF BlockInv, TopBlock
  <2>2. g.node = stack[Len(stack)].node /\ (g.ph = "else" => g.seen # 0)
    BY <1>2, <1>7 DEF Top
  <2>5. Linked(ast, r)
    BY <1>1, <1>6, <2>1, <2>2, LinkedTop
  <2> QED BY <2>5
<1> QED BY <1>1, <1>4, <1>8, <1>11, <1>12, <1>13 DEF BlockInv, TopBlock, Leaf

(* A statement that opens a frame.                                         *)
LEMMA OpenBlocks ==
    ASSUME Inv, BlockInv, NEW m \in Nodes(ast), Visit(m), NEW g \in FrameType,
           g.node = m, g.seen = 0, g.ph # "else", NEW lines, Straight(lines),
           NEW n, Emit(lines, n), stack' = Append(Saw(m), g),
           ast' = ast, status' = status, Labelled(ast, m) => Starts(lines)
    PROVE  BlockInv'
<1>1. /\ status = "emit" /\ stack \in Seq(FrameType) /\ stack # <<>> /\ m \in Nat
  BY VisitFacts DEF Inv, TypeInv, TypeOK, Visit
<1>2. /\ ~DeadCode(ast) /\ Ended(out) => Labelled(ast, m)
      /\ Top.ph = "else" => \A k \in Kids(ast, Top.node) : k <= m
      /\ m # 0
  BY VisitClean
<1>3. /\ DeadCode(ast) \/ Clean(out')
      /\ Ended(out') <=> IF lines = <<>> THEN Ended(out) ELSE Ended(lines)
  BY <1>2, EmitBlocks DEF Straight
<1>4. DeadCode(ast) \/ ~Ended(out')
  BY <1>2, <1>3 DEF Straight, Starts
<1>11. PICK f : f = [Top EXCEPT !.seen = m]
  OBVIOUS
<1>12. PICK st : st = Saw(m)
  OBVIOUS
<1>5. st = [stack EXCEPT ![Len(stack)] = f] /\ Top \in FrameType /\ f \in FrameType
  BY <1>1, <1>11, <1>12, SawStack
<1>6. f.node = Top.node /\ f.seen = m /\ f.ph = Top.ph
  BY <1>5, <1>11 DEF FrameType
<1>7. /\ st \in Seq(FrameType) /\ Len(st) = Len(stack) /\ DOMAIN st = DOMAIN stack
      /\ Len(stack) \in DOMAIN stack /\ st[Len(stack)] = f
      /\ \A i \in DOMAIN stack : i # Len(stack) => st[i] = stack[i]
  BY <1>1, <1>5, TopStack
<1>8. Linked(ast, st)
  <2>1. Linked(ast, stack)
    BY <1>1 DEF BlockInv, TopBlock
  <2>2. f.node = stack[Len(stack)].node /\ (f.ph = "else" => f.seen # 0)
    BY <1>2, <1>6 DEF Top
  <2> QED BY <1>1, <1>5, <2>1, <2>2, LinkedTop
<1>9. Linked(ast, stack') /\ stack'[Len(stack')] = g
  <2>1. f.seen = g.node /\ LastSeen(ast, f)
    BY <1>2, <1>6 DEF LastSeen
  <2>2. st # <<>> /\ st[Len(st)] = f /\ st \in Seq(FrameType)
    BY <1>1, <1>7
  <2> PICK r : r = Append(st, g)
    OBVIOUS
  <2>3. stack' = r
    BY <1>12
  <2>4. Linked(ast, r) /\ r[Len(r)] = g
    BY <1>8, <2>1, <2>2, LinkedPush
  <2> QED BY <2>3, <2>4
<1>10. TopClean(ast, out', g) /\ TopEnded(ast, out', g)
  BY <1>4 DEF TopClean, TopEnded
<1> QED BY <1>1, <1>3, <1>9, <1>10 DEF BlockInv, TopBlock

(* The innermost call returns: what it prints ends in a label, or it       *)
(* prints nothing and its last statement was the last of its block.        *)
LEMMA CloseBlocks ==
    ASSUME Inv, BlockInv, NEW lines, NEW n, Close(lines, n),
           \/ lines = <<>> /\ Kind \in {"compound", "case", "default", "label"}
           \/ /\ Straight(lines) /\ lines # <<>>
              /\ ~DeadCode(ast) /\ Ended(out) => Starts(lines)
              /\ Kind \notin Jumps \cup {"compound"}
    PROVE  BlockInv'
<1>1. /\ status = "emit" /\ stack \in Seq(FrameType) /\ stack # <<>> /\ Len(stack) > 1
      /\ stack' = Pop(stack) /\ Exhausted /\ Emit(lines, n)
  BY DEF Close, Inv, TypeInv, TypeOK
<1>2. /\ Body(ast) /\ Top.node \in Nodes(ast) /\ FrameOK(ast, Top, Labels(out))
  BY <1>1, BodyFacts, TopFacts DEF Inv
<1>3. Clean(lines)
  <2>1. Clean(<<>>)
    BY DEF Clean
  <2> QED BY <2>1 DEF Straight
<1>4. /\ DeadCode(ast) \/ Clean(out')
      /\ Ended(out') <=> IF lines = <<>> THEN Ended(out) ELSE Ended(lines)
  BY <1>1, <1>3, EmitBlocks
<1>5. PICK k : k = Len(stack) - 1
  OBVIOUS
<1>6. k \in Nat /\ k >= 1 /\ Len(stack) = k + 1
  BY <1>1, <1>5
<1>7. /\ stack' \in Seq(FrameType) /\ Len(stack') = k /\ DOMAIN stack' = 1 .. k
      /\ \A i \in 1 .. k : stack'[i] = stack[i]
  BY <1>1, <1>5, PopStack
<1>8. k \in 1 .. k /\ k \in DOMAIN stack /\ DOMAIN stack = 1 .. (k + 1)
  BY <1>1, <1>6
<1>9. PICK p : p = stack[k]
  OBVIOUS
<1>10. /\ Linked(ast, stack) /\ TopClean(ast, out, Top) /\ TopEnded(ast, out, Top)
  BY <1>1 DEF BlockInv, TopBlock, Top
<1>11. p.seen = Top.node /\ LastSeen(ast, p)
  <2>1. k \in 1 .. (Len(stack) - 1) /\ k + 1 = Len(stack)
    BY <1>6, <1>8
  <2> QED BY <1>9, <1>10, <2>1 DEF Linked, Top
<1>12. FrameOK(ast, p, Labels(out))
  BY <1>1, <1>8, <1>9 DEF Inv, JumpInv, Framed
<1>13. Top.node # 0
  BY <1>2, KidFacts
<1>14. stack'[Len(stack')] = p
  BY <1>7, <1>8, <1>9
<1>15. Linked(ast, stack')
  <2>1. ASSUME NEW i \in 1 .. k PROVE stack'[i].ph = "else" => stack'[i].seen # 0
    <3>1. i \in DOMAIN stack
      BY <1>6, <1>8
    <3> QED BY <1>7, <1>10, <3>1 DEF Linked
  <2>2. ASSUME NEW i \in 1 .. (k - 1)
        PROVE  stack'[i].seen = stack'[i + 1].node /\ LastSeen(ast, stack'[i])
    <3>1. i \in 1 .. k /\ i + 1 \in 1 .. k /\ i # k
      BY <1>6, Inside
    <3>2. i \in 1 .. (Len(stack) - 1)
      BY <1>5, <3>1
    <3>3. stack'[i] = stack[i] /\ stack'[i + 1] = stack[i + 1]
      BY <1>7, <3>1
    <3>4. stack[i].seen = stack[i + 1].node /\ LastSeen(ast, stack[i])
      BY <1>10, <3>2 DEF Linked
    <3> QED BY <3>3, <3>4
  <2> QED BY <1>7, <2>1, <2>2 DEF Linked
<1>16. /\ Top.seen \in {0} \cup Kids(ast, Top.node)
       /\ \A j \in Kids(ast, Top.node) : j <= Top.seen
  BY <1>1, <1>2 DEF FrameOK, Exhausted
<1>17. Kids(ast, Top.node) \subseteq Nodes(ast) /\ 0 \notin Nodes(ast)
  BY <1>2, KidFacts
<1>18. TopClean(ast, out', p)
  <2>1. SUFFICES ASSUME ~DeadCode(ast), Ended(out')
                 PROVE  /\ p.ph # "dispatch" /\ Closes(ast, p.seen) /\ p.seen # 0
                        /\ p.ph = "else" => \A j \in Kids(ast, p.node) : j <= p.seen
    BY DEF TopClean
  <2>2. /\ Ended(out) /\ Kind \in {"compound", "case", "default", "label"}
    BY <1>4, <2>1 DEF Straight
  <2>3. Top.seen # 0 /\ Closes(ast, Top.seen)
    BY <1>10, <2>1, <2>2 DEF TopClean, Kind
  <2>4. LastKid(ast, Top.node, Top.seen) /\ Top.seen \in Nodes(ast)
    BY <1>16, <1>17, <2>3 DEF LastKid
  <2>5. Closes(ast, Top.node)
    BY <1>2, <2>2, <2>3, <2>4, ClosesNext DEF Kind
  <2> QED BY <1>11, <1>12, <1>13, <2>5 DEF FrameOK, LastSeen
<1>19. TopEnded(ast, out', p)
  <2>1. SUFFICES ASSUME ends_in_terminator(ast, Top.node) PROVE Ended(out')
    BY <1>11 DEF TopEnded
  <2>2. Kind = "compound" /\ lines = <<>>
    BY <1>2, <2>1, TerminatorNext DEF Kind, Jumps
  <2>3. PICK l \in Nodes(ast) : LastKid(ast, Top.node, l) /\ ends_in_terminator(ast, l)
    BY <1>2, <2>1, <2>2, TerminatorNext DEF Kind, Jumps
  <2>4. l = Top.seen /\ Top.seen # 0
    <3>1. l \in Nat /\ l # 0 /\ l <= Top.seen /\ Top.seen \in Nat
      BY <1>2, <1>16, <1>17, <2>3, KidFacts DEF LastKid
    <3>2. LastKid(ast, Top.node, Top.seen) /\ Top.seen # 0
      BY <1>16, <3>1 DEF LastKid
    <3> QED BY <1>2, <2>3, <3>2, KidFacts
  <2>5. Ended(out)
    BY <1>10, <2>2, <2>3, <2>4 DEF TopEnded, Kind
  <2> QED BY <1>4, <2>2, <2>5
<1> QED BY <1>1, <1>4, <1>14, <1>15, <1>18, <1>19 DEF BlockInv, TopBlock, Close

(* The innermost call prints between its statements.                       *)
LEMMA TopBlocks ==
    ASSUME Inv, BlockInv, status = "emit", stack # <<>>, Kind # "compound",
           NEW g \in FrameType, TopIs(g), g.node = Top.node, g.seen = Top.seen,
           g.ph = "else" => g.seen # 0,
           NEW lines, Clean(lines), lines # <<>>, NEW n, Emit(lines, n),
           ~DeadCode(ast) /\ Ended(out) => Starts(lines),
           Ended(lines) => g.ph = "body" /\ g.seen = 0 /\ Kind = "switch",
           ast' = ast, status' = status
    PROVE  BlockInv'
<1>1. /\ DeadCode(ast) \/ Clean(out')
      /\ Ended(out') <=> Ended(lines)
  BY EmitBlocks
<1>2. stack \in Seq(FrameType) /\ stack' = [stack EXCEPT ![Len(stack)] = g]
  BY DEF Inv, TypeInv, TypeOK, TopIs
<1>3. Linked(ast, stack')
  <2>1. Linked(ast, stack) /\ g.node = stack[Len(stack)].node
    BY DEF BlockInv, TopBlock, Top
  <2> PICK r : r = stack'
    OBVIOUS
  <2>2. Linked(ast, r)
    BY <1>2, <2>1, LinkedTop
  <2> QED BY <2>2
<1>4. stack'[Len(stack')] = g
  BY <1>2, TopStack
<1>5. TopClean(ast, out', g) /\ TopEnded(ast, out', g)
  BY <1>1 DEF TopClean, TopEnded, Kind
<1> QED BY <1>1, <1>3, <1>4, <1>5 DEF BlockInv, TopBlock

LEMMA LeafCases ==
    ASSUME Inv, BlockInv, NEW m \in Nodes(ast), ~Exit,
           \/ ExprStmt(m) \/ VarDecl(m) \/ Return(m) \/ Break(m) \/ Continue(m) \/ Goto(m)
    PROVE  BlockInv'
<1>1. status = "emit" /\ Visit(m)
  BY DEF ExprStmt, VarDecl, Return, Break, Continue, Goto, Visit
<1>2. /\ m \in Nat /\ tmp \in Nat /\ tmp + 1 \in Nat /\ ast.ex[m] \in Shapes
  BY <1>1, StepFacts
<1>3. /\ Straight(qbe_expr_val(ast.ex[m], tmp)) /\ Straight(qbe_expr_val(ast.ex[m], tmp + 1))
  BY <1>2, ExprStraight
<1>4. L("start", 0) \in LabelType
  BY LTypes DEF LabelKinds
<1>5. /\ Straight(<<>>) /\ Straight(<<Ins>>) /\ Clean(<<Ret>>) /\ Ended(<<Ret>>)
  BY <1>4, FewLines
<1>6. ASSUME NEW e, Straight(e), NEW n, Leaf(m, e, n), ast.kind[m] \in Leaves \ Jumps
      PROVE  BlockInv'
  BY <1>1, <1>6, LeafBlocks DEF Straight
<1>7. ASSUME NEW l \in LabelType, Leaf(m, <<Jmp(l)>>, 0), ast.kind[m] \in Jumps PROVE BlockInv'
  <2>1. Clean(<<Jmp(l)>>) /\ Ended(<<Jmp(l)>>) /\ ast.kind[m] \in Leaves
    BY <1>7, FewLines DEF Jumps, Leaves
  <2> QED BY <1>1, <1>7, <2>1, LeafBlocks
<1>8. CASE ExprStmt(m)
  BY <1>3, <1>6, <1>8 DEF ExprStmt, Leaves, Jumps
<1>9. CASE VarDecl(m)
  <2>1. ast.kind[m] \in Leaves \ Jumps
    BY <1>9 DEF VarDecl, Leaves, Jumps
  <2>2. CASE ast.ex[m] = "none"
    BY <1>5, <1>6, <1>9, <2>1, <2>2 DEF VarDecl
  <2>3. CASE ast.ex[m] # "none"
    <3>1. PICK e : e = qbe_expr_val(ast.ex[m], tmp + 1)
      OBVIOUS
    <3>2. Straight(<<Ins>> \o e)
      BY <1>3, <1>5, <3>1, StraightConcat DEF Straight
    <3>3. Straight(<<Ins>> \o e \o <<Ins>>)
      BY <1>5, <3>2, StraightConcat DEF Straight
    <3>4. Leaf(m, <<Ins>> \o e \o <<Ins>>, 1 + Tmps(ast.ex[m]))
      BY <1>9, <2>3, <3>1 DEF VarDecl
    <3> QED BY <1>6, <2>1, <3>3, <3>4
  <2> QED BY <2>2, <2>3
<1>10. CASE Return(m)
  <2>1. PICK e : e = qbe_expr_val(ast.ex[m], tmp)
    OBVIOUS
  <2>2. Clean(e \o <<Ret>>) /\ Ended(e \o <<Ret>>)
    BY <1>3, <1>5, <2>1, StraightConcat
  <2>3. Leaf(m, e \o <<Ret>>, Tmps(ast.ex[m])) /\ ast.kind[m] \in Leaves \cap Jumps
    BY <1>10, <2>1 DEF Return, Leaves, Jumps
  <2> QED BY <1>1, <2>2, <2>3, LeafBlocks
<1>11. CASE Break(m)
  <2>1. ctx # <<>> /\ ctx \in Seq(LoopCtx) /\ ast.kind[m] \in Jumps
    BY <1>11 DEF Break, Inv, TypeInv, TypeOK, Jumps
  <2>2. PICK c : c = ctx[Len(ctx)]
    OBVIOUS
  <2>3. c.break_id \in Nat
    BY <2>1, <2>2 DEF LoopCtx
  <2>4. PICK end \in {"switch_end", "while_end"} :
            end = IF c.is_switch THEN "switch_end" ELSE "while_end"
    OBVIOUS
  <2>5. L(end, c.break_id) \in LabelType
    BY <2>3, <2>4, LTypes DEF LabelKinds
  <2>6. Leaf(m, <<Jmp(L(end, c.break_id))>>, 0)
    BY <1>11, <2>1, <2>2, <2>4 DEF Break
  <2> QED BY <1>7, <2>1, <2>5, <2>6
<1>12. CASE Continue(m)
  <2>1. PICK i \in DOMAIN ctx :
            /\ InnermostLoop(i) /\ Leaf(m, <<Jmp(L("while_cond", ctx[i].continue_id))>>, 0)
    BY <1>12 DEF Continue
  <2>2. ctx[i] \in LoopCtx /\ ~ctx[i].is_switch /\ ast.kind[m] \in Jumps
    BY <1>12, <2>1 DEF Continue, InnermostLoop, Inv, TypeInv, TypeOK, Jumps
  <2>3. ctx[i].continue_id \in Nat
    BY <2>2 DEF LoopCtx
  <2>4. L("while_cond", ctx[i].continue_id) \in LabelType
    BY <2>3, LTypes DEF LabelKinds
  <2> QED BY <1>7, <2>1, <2>2, <2>4
<1>13. CASE Goto(m)
  <2>1. PICK lid \in 0 .. Len(labels) : Leaf(m, <<Jmp(L("user_label", lid))>>, 0)
    BY <1>13 DEF Goto
  <2>2. lid \in Nat /\ ast.kind[m] \in Jumps
    <3>1. Len(labels) \in Nat
      BY DEF Inv, TypeInv, TypeOK
    <3> QED BY <1>13, <3>1 DEF Goto, Jumps
  <2>3. L("user_label", lid) \in LabelType
    BY <2>2, LTypes DEF LabelKinds
  <2> QED BY <1>7, <2>1, <2>2, <2>3
<1> QED BY <1>8, <1>9, <1>10, <1>11, <1>12, <1>13

LEMMA OpenCases ==
    ASSUME Inv, BlockInv, NEW m \in Nodes(ast), ~Exit,
           \/ Compound(m) \/ If(m) \/ While(m) \/ Do(m) \/ For(m) \/ Switch(m)
           \/ SwitchCase(m) \/ StandaloneCase(m) \/ Label(m)
    PROVE  BlockInv'
<1>1. status = "emit" /\ Visit(m)
  BY DEF Compound, If, While, Do, For, Switch, SwitchCase, StandaloneCase, Label, Visit
<1>2. /\ m \in Nat /\ tmp \in Nat /\ tmp + 1 \in Nat
      /\ ast.ex[m] \in Shapes /\ ast.init[m] \in Shapes
      /\ Tmps(ast.ex[m]) \in Nat /\ Tmps(ast.init[m]) \in Nat /\ ctx \in Seq(LoopCtx)
  BY <1>1, StepFacts
<1>3. /\ Top.node \in Nodes(ast) /\ Top.id \in Nat /\ ast.par[m] = Top.node
      /\ stack # <<>>
  BY <1>1, TopFacts, VisitClean DEF Visit
<1>4. ASSUME NEW id \in Nat, NEW ph \in {"body", "dispatch"}, NEW e, Straight(e), NEW n,
             Open(m, id, ph, e, n), ctx' \in Seq(LoopCtx), Labelled(ast, m) => Starts(e)
      PROVE  BlockInv'
  <2> PICK g : g = Frame(m, id, ph, Len(ctx'))
    OBVIOUS
  <2>1. g \in FrameType /\ g.node = m /\ g.seen = 0 /\ g.ph # "else"
    <3>1. PICK d \in Nat : d = Len(ctx')
      BY <1>4
    <3>2. g = Frame(m, id, ph, d) /\ ph # "else"
      BY <3>1
    <3>3. g \in FrameType /\ g.node = m /\ g.seen = 0 /\ g.ph = ph
      BY <1>2, <3>1, <3>2 DEF Frame, FrameType
    <3> QED BY <3>2, <3>3
  <2>2. /\ Emit(e, n) /\ stack' = Append(Saw(m), g)
        /\ ast' = ast /\ status' = status
    BY <1>4 DEF Open
  <2> QED BY <1>1, <1>4, <2>1, <2>2, OpenBlocks
<1>5. L("start", 0) \in LabelType
  BY LTypes DEF LabelKinds
<1>6. Straight(<<>>) /\ Straight(<<Ins>>)
  BY <1>5, FewLines
<1>7. ASSUME NEW l \in LabelType PROVE Straight(<<Lab(l)>>) /\ Starts(<<Lab(l)>>)
  BY <1>7, FewLines
<1>8. ASSUME NEW s, Straight(s), NEW t, Straight(t)
      PROVE  Straight(s \o t) /\ (Starts(s) => Starts(s \o t))
  BY <1>8, StraightConcat DEF Straight
<1>9. \A k \in LabelKinds : L(k, tmp) \in LabelType
  BY <1>2, LTypes
<1>10. ASSUME ast.kind[m] \in {"compound", "if", "for", "switch"} PROVE ~Labelled(ast, m)
  BY <1>10 DEF Labelled, IsCase
<1>11. CASE Compound(m)
  BY <1>2, <1>4, <1>6, <1>10, <1>11 DEF Compound
<1>12. CASE If(m)
  <2>1. PICK id \in Nat : id = tmp + Tmps(ast.ex[m])
    BY <1>2
  <2>2. PICK other \in {"if_end", "if_else"} :
            other = IF OneKid(ast, m) THEN "if_end" ELSE "if_else"
    OBVIOUS
  <2>3. PICK e : e = qbe_expr_val(ast.ex[m], tmp)
    OBVIOUS
  <2>4. L("if_then", id) \in LabelType /\ L(other, id) \in LabelType
    BY LTypes DEF LabelKinds
  <2>5. PICK j : j = <<Jnz(L("if_then", id), L(other, id)), Lab(L("if_then", id))>>
    OBVIOUS
  <2>6. Straight(e) /\ Straight(j)
    BY <1>2, <2>3, <2>4, <2>5, ExprStraight, FewLines
  <2>7. Straight(e \o j)
    BY <1>8, <2>6
  <2>8. Open(m, id, "body", e \o j, Tmps(ast.ex[m]) + 1) /\ ctx' = ctx /\ ast.kind[m] = "if"
    BY <1>12, <2>1, <2>2, <2>3, <2>5 DEF If
  <2> QED BY <1>2, <1>4, <1>10, <2>7, <2>8
<1>13. ASSUME PushCtx(tmp, FALSE) PROVE ctx' \in Seq(LoopCtx)
  <2>1. FALSE \in BOOLEAN
    OBVIOUS
  <2> QED BY <1>2, <1>13, <2>1, PushFacts
<1>14. CASE While(m)
  <2>1. PICK e : e = qbe_expr_val(ast.ex[m], tmp + 1)
    OBVIOUS
  <2>2. PICK c, b, x \in LabelType :
            c = L("while_cond", tmp) /\ b = L("while_body", tmp) /\ x = L("while_end", tmp)
    BY <1>9 DEF LabelKinds
  <2>3. PICK j : j = <<Jnz(b, x), Lab(b)>>
    OBVIOUS
  <2>4. Straight(e) /\ Straight(j)
    BY <1>2, <2>1, <2>2, <2>3, ExprStraight, FewLines
  <2>5. Straight(<<Lab(c)>> \o e) /\ Starts(<<Lab(c)>> \o e)
    BY <1>7, <1>8, <2>4
  <2>6. Straight(<<Lab(c)>> \o e \o j) /\ Starts(<<Lab(c)>> \o e \o j)
    BY <1>8, <2>4, <2>5
  <2>7. Open(m, tmp, "body", <<Lab(c)>> \o e \o j, 1 + Tmps(ast.ex[m])) /\ PushCtx(tmp, FALSE)
    BY <1>14, <2>1, <2>2, <2>3 DEF While
  <2> QED BY <1>2, <1>4, <1>13, <2>6, <2>7
<1>15. CASE Do(m)
  <2>1. PICK b \in LabelType : b = L("do_body", tmp)
    BY <1>9 DEF LabelKinds
  <2>2. Open(m, tmp, "body", <<Lab(b)>>, 1) /\ PushCtx(tmp, FALSE)
    BY <1>15, <2>1 DEF Do
  <2> QED BY <1>2, <1>4, <1>7, <1>13, <2>2
<1>16. CASE For(m)
  <2>1. PICK v : v = qbe_expr_val(ast.init[m], tmp + 1)
    OBVIOUS
  <2>2. PICK e : e = qbe_expr_val(ast.ex[m], tmp + 1 + Tmps(ast.init[m]))
    OBVIOUS
  <2>3. PICK c, b, x \in LabelType :
            c = L("for_cond", tmp) /\ b = L("for_body", tmp) /\ x = L("for_end", tmp)
    BY <1>9 DEF LabelKinds
  <2>4. PICK j : j = IF ast.ex[m] = "none" THEN <<>> ELSE <<Jnz(b, x)>>
    OBVIOUS
  <2>5. Straight(v)
    BY <1>2, <2>1, ExprStraight
  <2>6. Straight(e)
    <3>1. PICK t \in Nat : t = tmp + 1 + Tmps(ast.init[m])
      BY <1>2
    <3> QED BY <1>2, <2>2, <3>1, ExprStraight
  <2>7. Straight(v \o <<Lab(c)>>)
    BY <1>7, <1>8, <2>5
  <2>8. Straight(v \o <<Lab(c)>> \o e)
    BY <1>8, <2>6, <2>7
  <2>9. Clean(j)
    BY <1>6, <2>4, FewLines DEF Straight
  <2>10. Clean(v \o <<Lab(c)>> \o e \o j)
    BY <2>8, <2>9, StraightConcat
  <2>11. Straight(v \o <<Lab(c)>> \o e \o j \o <<Lab(b)>>)
    BY <1>7, <2>10, LabelConcat
  <2>12. /\ Open(m, tmp, "body", v \o <<Lab(c)>> \o e \o j \o <<Lab(b)>>,
                 1 + Tmps(ast.init[m]) + Tmps(ast.ex[m]))
         /\ PushCtx(tmp, FALSE) /\ ast.kind[m] = "for"
    BY <1>16, <2>1, <2>2, <2>3, <2>4 DEF For
  <2> QED BY <1>2, <1>4, <1>10, <1>13, <2>11, <2>12
<1>17. CASE Switch(m)
  <2>1. Straight(qbe_expr_val(ast.ex[m], tmp + 1))
    BY <1>2, ExprStraight
  <2> QED BY <1>2, <1>4, <1>10, <1>17, <2>1 DEF Switch
<1>18. CASE SwitchCase(m)
  <2>1. PICK l \in LabelType : l = CaseLabel(ast, Top.node, Top.id, m)
    BY <1>1, <1>3, CaseLabelType DEF Inv
  <2>2. Open(m, 0, "body", <<Lab(l)>>, 0) /\ ctx' = ctx
    BY <1>18, <2>1 DEF SwitchCase
  <2> QED BY <1>2, <1>4, <1>7, <2>2
<1>19. CASE StandaloneCase(m)
  <2>1. ~Labelled(ast, m)
    BY <1>3, <1>19 DEF StandaloneCase, Labelled, IsCase, Kind
  <2> QED BY <1>2, <1>4, <1>6, <1>19, <2>1 DEF StandaloneCase
<1>20. CASE Label(m)
  <2>1. PICK lid \in 0 .. Len(labels) :
            /\ Emit(<<Lab(L("user_label", lid))>>, 0)
            /\ stack' = Append(Saw(m), Frame(m, 0, "body", Len(ctx)))
            /\ UNCHANGED <<status, ast, ctx>>
    BY <1>20 DEF Label
  <2>2. lid \in Nat
    <3>1. Len(labels) \in Nat
      BY DEF Inv, TypeInv, TypeOK
    <3> QED BY <3>1
  <2>3. PICK l \in LabelType : l = L("user_label", lid)
    BY <2>2, LTypes DEF LabelKinds
  <2> PICK g : g = Frame(m, 0, "body", Len(ctx))
    OBVIOUS
  <2>4. g \in FrameType /\ g.node = m /\ g.seen = 0 /\ g.ph # "else"
    <3>1. PICK d \in Nat : d = Len(ctx)
      BY <1>2
    <3>2. g = Frame(m, 0, "body", d)
      BY <3>1
    <3>4. g \in FrameType /\ g.node = m /\ g.seen = 0 /\ g.ph = "body"
      BY <1>2, <3>1, <3>2 DEF Frame, FrameType
    <3> QED BY <3>4
  <2>5. Straight(<<Lab(l)>>) /\ Starts(<<Lab(l)>>)
    BY <1>7
  <2>6. Emit(<<Lab(l)>>, 0) /\ stack' = Append(Saw(m), g) /\ ast' = ast /\ status' = status
    BY <2>1, <2>3
  <2> QED BY <1>1, <2>4, <2>5, <2>6, OpenBlocks
<1> QED BY <1>11, <1>12, <1>14, <1>15, <1>16, <1>17, <1>18, <1>19, <1>20

(* A branch or a loop body that ends in a jump is one that                 *)
(* ends_in_terminator recognises.                                          *)
LEMMA SeenEnds ==
    ASSUME Inv, BlockInv, status = "emit", stack # <<>>, Kind # "switch",
           ~DeadCode(ast), Ended(out)
    PROVE  ends_in_terminator(ast, Top.seen)
<1>1. Body(ast) /\ Top.node \in Nodes(ast) /\ FrameOK(ast, Top, Labels(out))
  BY TopFacts, BodyFacts DEF Inv
<1>2. Top.seen # 0 /\ Closes(ast, Top.seen)
  BY DEF BlockInv, TopBlock, TopClean, Top, Kind
<1>3. Top.seen \in Kids(ast, Top.node)
  BY <1>1, <1>2 DEF FrameOK
<1>4. Top.seen \in Nodes(ast) /\ ast.par[Top.seen] = Top.node
  BY <1>1, <1>3, KidFacts
<1>5. ast.kind[ast.par[Top.seen]] # "switch"
  BY <1>4 DEF Kind
<1> QED BY <1>1, <1>2, <1>4, <1>5, ClosesEnds

LEMMA CloseCases ==
    ASSUME Inv, BlockInv, EndIf \/ EndWhile \/ EndDo \/ EndFor \/ EndSwitch \/ EndPlain
    PROVE  BlockInv'
<1>1. status = "emit" /\ stack # <<>>
  BY DEF EndIf, EndWhile, EndDo, EndFor, EndSwitch, EndPlain, Close
<1>2. /\ Top.node \in Nodes(ast) /\ Top.id \in Nat /\ tmp \in Nat
      /\ ast.ex[Top.node] \in Shapes /\ ast.post[Top.node] \in Shapes
      /\ Body(ast) /\ FrameOK(ast, Top, Labels(out))
      /\ Len(stack) \in DOMAIN stack /\ Top = stack[Len(stack)]
  BY <1>1, TopFacts, BodyFacts DEF Inv, Top
<1>3. \A k \in LabelKinds : L(k, Top.id) \in LabelType
  BY <1>2, LTypes
<1>4. ASSUME NEW l \in LabelType PROVE Straight(<<Lab(l)>>) /\ Starts(<<Lab(l)>>)
  BY <1>4, FewLines
<1>5. ASSUME NEW s, Straight(s), NEW t, Straight(t), Starts(s)
      PROVE  Straight(s \o t) /\ Starts(s \o t)
  BY <1>5, StraightConcat DEF Straight
<1>6. ASSUME NEW s, Straight(s), Starts(s), NEW n, Close(s, n),
             Kind \notin Jumps \cup {"compound"}
      PROVE  BlockInv'
  BY <1>6, CloseBlocks DEF Starts
<1>7. CASE EndIf
  BY <1>3, <1>4, <1>6, <1>7 DEF EndIf, LabelKinds, Jumps
<1>8. CASE EndSwitch
  BY <1>3, <1>4, <1>6, <1>8 DEF EndSwitch, LabelKinds, Jumps
<1>9. CASE EndPlain
  BY <1>9, CloseBlocks DEF EndPlain
<1>10. CASE EndWhile
  <2>1. PICK c, x \in LabelType : c = L("while_cond", Top.id) /\ x = L("while_end", Top.id)
    BY <1>3 DEF LabelKinds
  <2>2. PICK j : j = IF ends_in_terminator(ast, Top.seen) THEN <<>> ELSE <<Jmp(c)>>
    OBVIOUS
  <2>3. Kind = "while" /\ Close(j \o <<Lab(x)>>, 0)
    BY <1>10, <2>1, <2>2 DEF EndWhile
  <2>4. Clean(j) /\ Straight(<<Lab(x)>>) /\ Starts(<<Lab(x)>>)
    <3>1. Clean(<<>>) /\ Clean(<<Jmp(c)>>)
      BY FewLines DEF Straight
    <3> QED BY <1>4, <2>2, <3>1
  <2>5. Straight(j \o <<Lab(x)>>) /\ (j = <<>> => Starts(j \o <<Lab(x)>>))
    BY <2>4, LabelConcat
  <2>6. ~DeadCode(ast) /\ Ended(out) => j = <<>>
    BY <1>1, <1>2, <2>2, <2>3, SeenEnds DEF Kind
  <2>7. j \o <<Lab(x)>> # <<>>
    <3>1. <<Lab(x)>> # <<>>
      OBVIOUS
    <3> QED BY <2>4, <3>1 DEF Clean, Straight
  <2> QED BY <2>3, <2>5, <2>6, <2>7, CloseBlocks DEF Jumps
<1>11. CASE EndDo
  <2>1. PICK c, b, x \in LabelType : /\ c = L("do_cond", Top.id) /\ b = L("do_body", Top.id)
                                     /\ x = L("do_end", Top.id)
    BY <1>3 DEF LabelKinds
  <2>2. PICK e : e = qbe_expr_val(ast.ex[Top.node], tmp)
    OBVIOUS
  <2>3. PICK j : j = <<Jnz(b, x), Lab(x)>>
    OBVIOUS
  <2>4. Straight(e) /\ Straight(j)
    BY <1>2, <2>2, <2>3, ExprStraight, FewLines
  <2>5. Straight(<<Lab(c)>> \o e) /\ Starts(<<Lab(c)>> \o e)
    BY <1>4, <1>5, <2>4
  <2>6. Straight(<<Lab(c)>> \o e \o j) /\ Starts(<<Lab(c)>> \o e \o j)
    BY <1>5, <2>4, <2>5
  <2>7. Kind = "do" /\ Close(<<Lab(c)>> \o e \o j, Tmps(ast.ex[Top.node]))
    BY <1>11, <2>1, <2>2, <2>3 DEF EndDo
  <2> QED BY <1>6, <2>6, <2>7 DEF Jumps
<1>12. CASE EndFor
  <2>1. PICK p, c, x \in LabelType : /\ p = L("for_post", Top.id) /\ c = L("for_cond", Top.id)
                                     /\ x = L("for_end", Top.id)
    BY <1>3 DEF LabelKinds
  <2>2. PICK e : e = qbe_expr_val(ast.post[Top.node], tmp)
    OBVIOUS
  <2>3. PICK j : j = <<Jmp(c), Lab(x)>>
    OBVIOUS
  <2>4. Straight(e) /\ Straight(j)
    BY <1>2, <2>2, <2>3, ExprStraight, FewLines
  <2>5. Straight(<<Lab(p)>> \o e) /\ Starts(<<Lab(p)>> \o e)
    BY <1>4, <1>5, <2>4
  <2>6. Straight(<<Lab(p)>> \o e \o j) /\ Starts(<<Lab(p)>> \o e \o j)
    BY <1>5, <2>4, <2>5
  <2>7. Kind = "for" /\ Close(<<Lab(p)>> \o e \o j, Tmps(ast.post[Top.node]))
    BY <1>12, <2>1, <2>2, <2>3 DEF EndFor
  <2> QED BY <1>6, <2>6, <2>7 DEF Jumps
<1> QED BY <1>7, <1>8, <1>9, <1>10, <1>11, <1>12

LEMMA BetweenCases ==
    ASSUME Inv, BlockInv, Else \/ DispatchEnd \/ \E m \in Nodes(ast) : DispatchCase(m)
    PROVE  BlockInv'
<1>1. status = "emit" /\ stack # <<>> /\ status' = "emit" /\ ast' = ast
  BY DEF Else, DispatchEnd, DispatchCase, NextCase, Dispatching
<1>2. /\ Top \in FrameType /\ Top.id \in Nat /\ Top.node \in Nodes(ast) /\ tmp \in Nat
      /\ Body(ast) /\ FrameOK(ast, Top, Labels(out))
      /\ Len(stack) \in DOMAIN stack /\ Top = stack[Len(stack)]
  BY <1>1, TopFacts, BodyFacts DEF Top, Inv
<1>3. Top.ph = "dispatch" => Kind = "switch" /\ Top.seen = 0
  BY <1>2 DEF FrameOK, Kind
<1>4. Top.ph = "dispatch" => DeadCode(ast) \/ ~Ended(out)
  BY <1>1, <1>2 DEF BlockInv, TopBlock, TopClean
<1>5. CASE Else
  <2>1. PICK x, l \in LabelType : x = L("if_end", Top.id) /\ l = L("if_else", Top.id)
    BY <1>2, LTypes DEF LabelKinds
  <2>2. PICK j : j = IF ends_in_terminator(ast, Top.seen) THEN <<>> ELSE <<Jmp(x)>>
    OBVIOUS
  <2>3. PICK g : g = [Top EXCEPT !.ph = "else"]
    OBVIOUS
  <2>4. g \in FrameType /\ g.node = Top.node /\ g.seen = Top.seen
    BY <1>2, <2>3 DEF FrameType
  <2>5. /\ Kind = "if" /\ Top.seen # 0 /\ TopIs(g) /\ Emit(j \o <<Lab(l)>>, 0)
    BY <1>5, <2>1, <2>2, <2>3 DEF Else, TopIs, Top
  <2>6. Clean(j) /\ Straight(<<Lab(l)>>) /\ Starts(<<Lab(l)>>)
    <3>1. Clean(<<>>) /\ Clean(<<Jmp(x)>>)
      BY FewLines DEF Straight
    <3> QED BY <2>2, <3>1, FewLines
  <2>7. Straight(j \o <<Lab(l)>>) /\ (j = <<>> => Starts(j \o <<Lab(l)>>))
    BY <2>6, LabelConcat
  <2>8. ~DeadCode(ast) /\ Ended(out) => j = <<>>
    BY <1>1, <1>2, <2>2, <2>5, SeenEnds DEF Kind
  <2>9. j \o <<Lab(l)>> # <<>>
    <3>1. <<Lab(l)>> # <<>>
      OBVIOUS
    <3> QED BY <2>6, <3>1 DEF Clean, Straight
  <2> QED BY <1>1, <2>4, <2>5, <2>7, <2>8, <2>9, TopBlocks DEF Straight
<1>6. ASSUME NEW m \in Nodes(ast), DispatchCase(m) PROVE BlockInv'
  <2>1. Top.ph = "dispatch"
    BY <1>6 DEF DispatchCase, NextCase, Dispatching
  <2>2. m \in Nat /\ ast.ex[m] \in Shapes
    BY <1>1, StepFacts
  <2>3. PICK c \in LabelType : c = CaseLabel(ast, Top.node, Top.id, m)
    BY <1>1, <1>2, CaseLabelType DEF Inv
  <2>4. PICK x \in LabelType : x = <<"switch_next", Top.id, m>>
    BY <1>2, <2>2 DEF LabelType, LabelKinds
  <2>5. PICK e : e = qbe_expr_val(ast.ex[m], tmp)
    OBVIOUS
  <2>6. PICK j : j = <<Jnz(c, x), Lab(x)>>
    OBVIOUS
  <2>7. PICK g : g = [Top EXCEPT !.disp = @ \cup {m}]
    OBVIOUS
  <2>8. g \in FrameType /\ g.node = Top.node /\ g.seen = Top.seen /\ g.ph = Top.ph
    BY <1>2, <2>2, <2>7 DEF FrameType
  <2>9. Emit(e \o <<Ins>> \o j, Tmps(ast.ex[m]) + 1) /\ TopIs(g)
    BY <1>6, <2>3, <2>4, <2>5, <2>6, <2>7 DEF DispatchCase, TopIs, Top
  <2>10. Straight(e) /\ Straight(<<Ins>>) /\ Straight(j)
    BY <1>2, <2>2, <2>5, <2>6, ExprStraight, FewLines
  <2>11. Straight(e \o <<Ins>>)
    BY <2>10, StraightConcat DEF Straight
  <2>12. Straight(e \o <<Ins>> \o j) /\ e \o <<Ins>> \o j # <<>>
    <3>1. j # <<>>
      BY <2>6
    <3> QED BY <2>10, <2>11, <3>1, StraightConcat DEF Straight
  <2> QED BY <1>1, <1>3, <1>4, <2>1, <2>8, <2>9, <2>12, TopBlocks DEF Straight
<1>7. CASE DispatchEnd
  <2>1. Top.ph = "dispatch" /\ PushCtx(Top.id, TRUE)
    BY <1>7 DEF DispatchEnd, Dispatching
  <2>2. ctx' \in Seq(LoopCtx)
    <3>1. TRUE \in BOOLEAN /\ ctx \in Seq(LoopCtx)
      BY DEF Inv, TypeInv, TypeOK
    <3> QED BY <1>2, <2>1, <3>1, PushFacts
  <2>3. PICK d \in Nat : d = Len(ctx')
    BY <2>2
  <2>4. PICK g : g = [Top EXCEPT !.ph = "body", !.depth = d]
    OBVIOUS
  <2>5. g \in FrameType /\ g.node = Top.node /\ g.seen = Top.seen /\ g.ph = "body"
    BY <1>2, <2>4 DEF FrameType
  <2>6. TopIs(g)
    BY <1>2, <1>7, <2>3, <2>4 DEF DispatchEnd, TopIs
  <2>7. ASSUME NEW l \in LabelType, Emit(<<Jmp(l)>>, 0) PROVE BlockInv'
    <3>1. Clean(<<Jmp(l)>>) /\ <<Jmp(l)>> # <<>>
      BY FewLines
    <3> QED BY <1>1, <1>3, <1>4, <2>1, <2>5, <2>6, <2>7, <3>1, TopBlocks
  <2>8. CASE Emit(<<Jmp(L("switch_end", Top.id))>>, 0)
    <3>1. L("switch_end", Top.id) \in LabelType
      BY <1>2, LTypes DEF LabelKinds
    <3> QED BY <2>7, <2>8, <3>1
  <2>9. CASE \E m \in Nodes(ast) : Emit(<<Jmp(CaseLabel(ast, Top.node, Top.id, m))>>, 0)
    <3>1. PICK m \in Nodes(ast) : Emit(<<Jmp(CaseLabel(ast, Top.node, Top.id, m))>>, 0)
      BY <2>9
    <3>2. CaseLabel(ast, Top.node, Top.id, m) \in LabelType
      BY <1>1, <1>2, CaseLabelType DEF Inv
    <3> QED BY <2>7, <3>1, <3>2
  <2> QED BY <1>7, <2>8, <2>9 DEF DispatchEnd
<1> QED BY <1>5, <1>6, <1>7

LEMMA BlocksKept ==
    ASSUME Inv, BlockInv, [Next]_vars
    PROVE  BlockInv'
<1>1. ASSUME NEW a \in Asts, StartFunction(a) PROVE BlockInv'
  <2>1. PICK l \in LabelType : l = L("start", 0)
    BY LTypes DEF LabelKinds
  <2>2. PICK f : f = Frame(1, 0, "body", Len(ctx))
    OBVIOUS
  <2>3. f.seen = 0 /\ f.ph = "body"
    BY <2>2 DEF Frame
  <2>4. ast' = a /\ out' = <<Lab(l)>> /\ stack' = <<f>> /\ status' = "emit"
    BY <1>1, <2>1, <2>2 DEF StartFunction
  <2>5. Clean(out') /\ ~Ended(out')
    BY <2>4, FewLines DEF Straight
  <2>6. DOMAIN stack' = {1} /\ stack'[1] = f /\ Len(stack') = 1
    BY <2>4
  <2>7. Linked(a, stack')
    BY <2>3, <2>6 DEF Linked
  <2>8. TopClean(a, out', f) /\ TopEnded(a, out', f)
    BY <2>3, <2>5 DEF TopClean, TopEnded
  <2> QED BY <2>4, <2>5, <2>6, <2>7, <2>8 DEF BlockInv, TopBlock
<1>2. ASSUME status = "emit", Exit PROVE BlockInv'
  BY <1>2 DEF Exit, BlockInv
<1>3. ASSUME NEW m \in Nodes(ast), Statement(m), status = "emit" PROVE BlockInv'
  <2>1. CASE Exit
    BY <1>2, <1>3, <2>1
  <2>2. CASE \E k \in Nodes(ast) : DispatchCase(k)
    BY <2>2, BetweenCases
  <2> QED BY <1>3, <2>1, <2>2, LeafCases, OpenCases DEF Statement, RejectVisit, RejectCase
<1>4. ASSUME Ending, status = "emit" PROVE BlockInv'
  <2>1. CASE EndFunction
    <3>1. /\ status' = "done" /\ ast' = ast /\ stack # <<>> /\ Len(stack) = 1 /\ Exhausted
      <4>1. stack \in Seq(FrameType)
        BY DEF Inv, TypeInv, TypeOK
      <4>2. status' = "done" /\ ast' = ast /\ Len(stack) = 1 /\ Exhausted
        BY <2>1 DEF EndFunction
      <4> QED BY <4>1, <4>2
    <3>2. PICK r : r = IF ends_in_terminator(ast, 1) THEN <<>> ELSE <<Ret>>
      OBVIOUS
    <3>3. out' = out \o r /\ out \in Seq(Line)
      BY <2>1, <3>2 DEF EndFunction, Inv, TypeInv, TypeOK
    <3>4. /\ Body(ast) /\ Top.node \in Nodes(ast) /\ FrameOK(ast, Top, Labels(out))
          /\ Top = stack[1] /\ 1 \in Nodes(ast)
      BY <1>4, <3>1, TopFacts, BodyFacts DEF Top, Inv
    <3>5. Top.node = 1 /\ ast.kind[1] = "compound"
      BY <1>4, <3>4 DEF Inv, JumpInv, Nested, Body
    <3>6. TopClean(ast, out, Top) /\ TopEnded(ast, out, Top)
      BY <1>4, <3>1 DEF BlockInv, TopBlock, Top
    <3>7. /\ Top.seen \in {0} \cup Kids(ast, 1)
          /\ \A j \in Kids(ast, 1) : j <= Top.seen
          /\ Kids(ast, 1) \subseteq Nodes(ast) /\ Nodes(ast) \subseteq Nat \ {0}
      BY <3>1, <3>4, <3>5, KidFacts DEF FrameOK, Exhausted
    <3>8. L("start", 0) \in LabelType
      BY LTypes DEF LabelKinds
    <3>9. Clean(<<Ret>>) /\ Ended(<<Ret>>) /\ Clean(<<>>) /\ <<Ret>> \in Seq(Line)
      BY <3>8, FewLines DEF Clean, Straight
    <3>10. CASE ends_in_terminator(ast, 1)
      <4>1. out' = out
        BY <3>2, <3>3, <3>10
      <4>2. PICK l \in Nodes(ast) : LastKid(ast, 1, l) /\ ends_in_terminator(ast, l)
        BY <3>4, <3>5, <3>10, TerminatorNext DEF Jumps
      <4>3. l = Top.seen /\ Top.seen # 0
        <5>1. l \in Nat /\ l # 0 /\ l <= Top.seen /\ Top.seen \in Nat
          BY <3>7, <4>2 DEF LastKid
        <5>2. LastKid(ast, 1, Top.seen) /\ Top.seen # 0
          BY <3>7, <5>1 DEF LastKid
        <5> QED BY <3>4, <4>2, <5>2, KidFacts
      <4>4. Ended(out)
        BY <3>5, <3>6, <4>2, <4>3 DEF TopEnded
      <4> QED BY <3>1, <4>1, <4>4 DEF BlockInv
    <3>11. CASE ~ends_in_terminator(ast, 1)
      <4>1. out' = out \o <<Ret>>
        BY <3>2, <3>3, <3>11
      <4>2. ~DeadCode(ast) => ~Ended(out)
        <5>1. SUFFICES ASSUME ~DeadCode(ast), Ended(out) PROVE FALSE
          OBVIOUS
        <5>2. Top.seen # 0 /\ Closes(ast, Top.seen)
          BY <3>5, <3>6, <5>1 DEF TopClean
        <5>3. LastKid(ast, 1, Top.seen) /\ Top.seen \in Nodes(ast)
          BY <3>7, <5>2 DEF LastKid
        <5>4. Closes(ast, 1)
          BY <3>4, <3>5, <5>2, <5>3, ClosesNext
        <5>5. ~IsCase(ast, 1)
          BY <3>5 DEF IsCase
        <5> QED BY <3>4, <3>11, <5>1, <5>4, <5>5, ClosesEnds
      <4>3. Ended(out')
        <5>1. <<Ret>> # <<>>
          OBVIOUS
        <5>2. Ended(out \o <<Ret>>)
          BY <3>3, <3>9, <5>1, EndedConcat
        <5> QED BY <4>1, <5>2
      <4>4. ~DeadCode(ast) => Clean(out')
        BY <3>9, <4>1, <4>2, CleanConcat DEF BlockInv
      <4> QED BY <3>1, <4>3, <4>4 DEF BlockInv
    <3> QED BY <3>10, <3>11
  <2>2. CASE RejectClose
    BY <1>2, <1>4, <2>2 DEF RejectClose
  <2> QED BY <1>4, <2>1, <2>2, BetweenCases, CloseCases DEF Ending
<1>5. CASE NextFunction
  <2>1. out' = <<>> /\ status' = "idle"
    BY <1>5 DEF NextFunction
  <2>2. Clean(<<>>)
    BY DEF Clean
  <2> QED BY <2>1, <2>2 DEF BlockInv
<1>6. CASE UNCHANGED vars
  BY <1>6 DEF vars, BlockInv
<1> QED BY <1>1, <1>3, <1>4, <1>5, <1>6 DEF Next, EmitStep, Exited

(* Whatever the bodies, what is printed for a function is a list of        *)
(* blocks: nothing but a label follows a jump or a return, unless the      *)
(* source has dead code, and a function ends in a jump or a return.        *)
THEOREM BlocksAreWellFormed == Spec => []BlocksWellFormed
<1>1. Init => BlockInv
  <2>1. Clean(<<>>)
    BY DEF Clean
  <2> QED BY <2>1 DEF Init, BlockInv
<1>2. Inv /\ BlockInv /\ [Next]_vars => BlockInv'
  BY BlocksKept
<1>3. BlockInv => BlocksWellFormed
  BY DEF BlockInv, Clean, Ended, BlocksWellFormed, Stray
<1> QED BY <1>1, <1>2, <1>3, Invariance, PTL DEF Spec

=============================================================================
