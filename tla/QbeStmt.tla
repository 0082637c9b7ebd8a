------------------------------ MODULE QbeStmt ------------------------------
(***************************************************************************)
(* The statement emitter of the QBE-based compiler                         *)
(* (qbebasedcompiler/src/qbe.c, qbe_stmt and the function loop of          *)
(* qbe_emit): the walk over a function body that prints labels, jumps and  *)
(* straight-line instructions, with the state it threads through the       *)
(* recursion: the counter qbe_tmp, the break/continue stack qbe_ctx and    *)
(* the goto label table qbe_labels.                                        *)
(*                                                                         *)
(* The C recursion is an explicit stack of frames, one per call of         *)
(* qbe_stmt that is still waiting for the call it made for a child.  An    *)
(* action is the code between two such calls.                              *)
(*                                                                         *)
(* A body is a tree whose nodes are numbered in source order (preorder),   *)
(* so that the children of a node, in order of their numbers, are its      *)
(* statements in order of their "next" pointers.  The compound that is     *)
(* the body of a switch is elided: the children of a switch are the        *)
(* statements of its body (qbe.c treats a body that is not a compound as   *)
(* a list of one).  An expression is abstracted to its effect on labels    *)
(* and on qbe_tmp, its shape.                                              *)
(***************************************************************************)
EXTENDS Integers, Sequences, FiniteSets

CONSTANTS
    Asts,      \* the function bodies that may be compiled
    LabelCap,  \* entries of qbe_labels (256 in the code)
    QueueCap   \* entries of the switch prepass queue (128 in the code)

Loops == {"while", "do", "for"}
Leaves == {"expr", "var", "return", "break", "continue", "goto"}
Single == Loops \cup {"case", "default", "label"}   \* exactly one child
Lists  == {"compound", "switch"}                    \* a statement list
Kinds  == Leaves \cup Single \cup Lists \cup {"if"}

(* none: no expression.  plain: straight-line code, one instruction        *)
(* standing for the run.  unary: the operators -, +, !, ~, ++ and --, for  *)
(* which qbe_expr_val leaves its switch without printing anything.  andor: *)
(* && or ||.  cond: ?: .  reject: an expression kind for which the emitter *)
(* exits (sizeof, a member access, an assignment to a non-lvalue).         *)
Shapes == {"none", "plain", "unary", "andor", "cond", "reject"}

Nodes(a) == 1 .. a.n
Kids(a, n) == {m \in Nodes(a) : a.par[m] = n}

OneKid(a, n) == \E k \in Nodes(a) : Kids(a, n) = {k}
TwoKids(a, n) == \E j, k \in Nodes(a) : j # k /\ Kids(a, n) = {j, k}

Body(a) ==
    /\ a.n \in Nat \ {0}
    /\ a.kind \in [Nodes(a) -> Kinds]
    /\ a.par \in [Nodes(a) -> 0 .. a.n]
    /\ {a.init, a.ex, a.post} \subseteq [Nodes(a) -> Shapes]
    /\ a.name \in [Nodes(a) -> STRING]     \* of a goto or label
    /\ a.len \in [Nodes(a) -> 1 .. 4]      \* and its length: see LabelKey
    /\ a.kind[1] = "compound"
    /\ \A m \in Nodes(a) :
          /\ IF m = 1 THEN a.par[m] = 0 ELSE a.par[m] \in 1 .. (m - 1)
          /\ a.kind[m] \in Leaves => Kids(a, m) = {}
          /\ a.kind[m] \in Single => OneKid(a, m)
          /\ a.kind[m] = "if" => OneKid(a, m) \/ TwoKids(a, m)
          /\ a.kind[m] \in {"if", "while", "do", "switch", "case"}
                => a.ex[m] # "none"
          /\ a.kind[m] \in {"compound", "default", "label", "break", "continue", "goto"}
                => a.ex[m] = "none"
          /\ a.kind[m] # "for" => a.init[m] = "none" /\ a.post[m] = "none"

ASSUME QbeAssumption ==
    /\ \A a \in Asts : Body(a)
    /\ LabelCap \in Nat \ {0}
    /\ QueueCap \in Nat \ {0}

VARIABLES
    status,  \* "idle" between functions, "emit", "done", "exit"
    ast,     \* the function body being compiled
    out,     \* the lines printed for this function
    tmp,     \* qbe_tmp
    ctx,     \* qbe_ctx[0 .. qbe_ctx_depth - 1]
    labels,  \* qbe_labels[0 .. qbe_label_count - 1]
    stack    \* the pending calls of qbe_stmt, the innermost last

vars == <<status, ast, out, tmp, ctx, labels, stack>>

-----------------------------------------------------------------------------
(* Lines of QBE IL.  "@kind_i_j" is the label <<kind, i, j>>.              *)

L(kind, id) == <<kind, id, 0>>

Ins == [op |-> "ins", ls |-> {}]
Ret == [op |-> "ret", ls |-> {}]
Lab(l) == [op |-> "lab", ls |-> {l}]
Jmp(l) == [op |-> "jmp", ls |-> {l}]
Jnz(l1, l2) == [op |-> "jmp", ls |-> {l1, l2}]

Labels(s) == UNION {s[i].ls : i \in {j \in DOMAIN s : s[j].op = "lab"}}
Targets(s) == UNION {s[i].ls : i \in {j \in DOMAIN s : s[j].op = "jmp"}}

(* Faulty: the id is read again after the left operand.                    *)
ShortCircuitLateId(t) ==
    LET rhs == L("sc_rhs", t)
    IN <<Ins, Ins, Jnz(rhs, L("sc_end", t + 1)), Lab(rhs), Ins, Ins, Ins, Lab(L("sc_end", t))>>

(* qbe_short_circuit takes its label id before evaluating the left         *)
(* operand, ?: after evaluating its condition.                             *)
qbe_short_circuit(t) ==
    LET rhs == L("sc_rhs", t)
        end == L("sc_end", t)
    IN <<Ins, Ins, Jnz(rhs, end), Lab(rhs), Ins, Ins, Ins, Lab(end)>>

qbe_conditional(t) ==
    LET then == L("cond_then", t + 1)
        els  == L("cond_else", t + 1)
        end  == L("cond_end", t + 1)
    IN <<Ins, Jnz(then, els), Lab(then), Ins, Ins, Jmp(end),
         Lab(els), Ins, Ins, Lab(end)>>

qbe_expr_val(e, t) ==
    CASE e = "plain" -> <<Ins>>
      [] e = "andor" -> qbe_short_circuit(t)
      [] e = "cond"  -> qbe_conditional(t)
      [] OTHER       -> <<>>

(* Faulty: the ids of labels are not taken from the counter.               *)
TmpsWithoutIds(e) == IF e = "plain" THEN 1 ELSE 0

(* How far an expression advances qbe_tmp.                                 *)
Tmps(e) == CASE e = "plain" -> 1 [] e \in {"andor", "cond"} -> 5 [] OTHER -> 0

(* Faulty: a compound never ends in a terminator.                          *)
EndsFlat(a, n) == a.kind[n] \in {"return", "break", "continue", "goto"}

(* ends_in_terminator looks through compounds at their last statement.     *)
ends_in_terminator(a, n) ==
    LET last(m) == CHOOSE k \in Kids(a, m) : \A j \in Kids(a, m) : j <= k
        et[m \in Nodes(a)] ==
            \/ a.kind[m] \in {"return", "break", "continue", "goto"}
            \/ /\ a.kind[m] = "compound"
               /\ Kids(a, m) # {}
               /\ et[last(m)]
    IN et[n]

(* The prepass of a switch: a breadth-first walk over its body that        *)
(* descends into compounds, through a queue of QueueCap entries.  Cases    *)
(* that are in the queue are numbered and dispatched; a case that is not   *)
(* keeps the number 0 it was created with, which is also the first         *)
(* number given out.  A node stands for the number it is given.            *)
Level(a, n) ==
    LET up[m \in 0 .. a.n] == IF m = 0 THEN 0 ELSE 1 + up[a.par[m]]
    IN up[n]

Containers(a, n) ==
    LET in[m \in 0 .. a.n] ==
            m > n /\ a.kind[m] = "compound" /\ (a.par[m] = n \/ in[a.par[m]])
    IN {n} \cup {m \in Nodes(a) : a.kind[m] = "compound" /\ in[m]}

Walked(a, n) == {m \in Nodes(a) : a.par[m] \in Containers(a, n)}

Before(a, j, k) ==
    \/ Level(a, j) < Level(a, k)
    \/ Level(a, j) = Level(a, k) /\ j < k

Queued(a, n) ==
    {m \in Walked(a, n) :
        Cardinality({k \in Walked(a, n) : Before(a, k, m)}) < QueueCap}

IsCase(a, m) == a.kind[m] \in {"case", "default"}

FlatCases(a, n) == {m \in Queued(a, n) : IsCase(a, m)}

FirstCase(a, n) ==
    {m \in FlatCases(a, n) : \A k \in FlatCases(a, n) : k = m \/ Before(a, m, k)}

CaseUid(a, n, m) ==
    CASE m \in FlatCases(a, n) -> m
      [] m \notin FlatCases(a, n) /\ FirstCase(a, n) = {} -> 0
      [] OTHER -> CHOOSE k \in FirstCase(a, n) : TRUE

CaseLabel(a, n, id, m) == <<"case", id, CaseUid(a, n, m)>>

-----------------------------------------------------------------------------
(* A frame: the node whose statement is being printed, the label id it     *)
(* took, the last child visited, the phase, the cases already dispatched   *)
(* (switch) and, for the proofs, qbe_ctx_depth while its children are      *)
(* printed.                                                                *)
Frame(n, id, ph, depth) ==
    [node |-> n, id |-> id, seen |-> 0, ph |-> ph, disp |-> {}, depth |-> depth]

Top == stack[Len(stack)]
Pop(s) == SubSeq(s, 1, Len(s) - 1)
Kind == ast.kind[Top.node]
Saw(m) == [stack EXCEPT ![Len(stack)].seen = m]

Exhausted == \A k \in Kids(ast, Top.node) : k <= Top.seen

(* The statement m is the next one the innermost pending call visits.      *)
Visit(m) ==
    /\ status = "emit"
    /\ stack # <<>>
    /\ m \in Kids(ast, Top.node)
    /\ m > Top.seen
    /\ \A k \in Kids(ast, Top.node) : k > Top.seen => m <= k
    /\ \/ Top.ph = "body" /\ (Kind = "if" => Top.seen = 0)
       \/ Top.ph = "else"

Emit(lines, n) ==
    /\ out' = out \o lines
    /\ tmp' = tmp + n

(* m has no statements of its own: it is printed and returns.              *)
Leaf(m, lines, n) ==
    /\ Emit(lines, n)
    /\ stack' = Saw(m)
    /\ UNCHANGED <<status, ast>>

(* m is printed up to the call for its first statement.                    *)
Open(m, id, ph, lines, n) ==
    /\ Emit(lines, n)
    /\ stack' = Append(Saw(m), Frame(m, id, ph, Len(ctx')))
    /\ UNCHANGED <<status, ast, labels>>

(* The innermost call prints its last lines and returns.                   *)
Close(lines, n) ==
    /\ status = "emit"
    /\ Len(stack) > 1
    /\ Exhausted
    /\ Emit(lines, n)
    /\ stack' = Pop(stack)
    /\ UNCHANGED <<status, ast, labels>>

Exit ==
    /\ status' = "exit"
    /\ UNCHANGED <<ast, out, tmp, ctx, labels, stack>>

(* fprintf(stderr, ...); exit(1) for an expression the emitter cannot      *)
(* print; what was printed before it is abandoned.                         *)
RejectVisit(m) ==
    /\ Visit(m)
    /\ \/ ast.ex[m] = "reject" /\ ast.kind[m] \notin {"do", "case"}
       \/ ast.init[m] = "reject" /\ ast.kind[m] = "for"
    /\ Exit

-----------------------------------------------------------------------------
(* One action per statement kind.                                          *)

Printable(m) == "reject" \notin {ast.ex[m], ast.init[m]}

Compound(m) ==
    /\ Visit(m) /\ ast.kind[m] = "compound"
    /\ UNCHANGED ctx
    /\ Open(m, 0, "body", <<>>, 0)

ExprStmt(m) ==
    /\ Visit(m) /\ ast.kind[m] = "expr" /\ Printable(m)
    /\ Leaf(m, qbe_expr_val(ast.ex[m], tmp), Tmps(ast.ex[m]))
    /\ UNCHANGED <<ctx, labels>>

(* Faulty: in the list of a switch, whose loop has no step of its own, a   *)
(* declaration that prints nothing is passed over by a continue.           *)
VarDeclStays(m) ==
    /\ Visit(m) /\ ast.kind[m] = "var" /\ Printable(m)
    /\ IF Kind = "switch" /\ ast.ex[m] = "none" THEN UNCHANGED <<status, ast, out, tmp, stack>>
       ELSE IF ast.ex[m] = "none" THEN Leaf(m, <<>>, 0)
       ELSE Leaf(m, <<Ins>> \o qbe_expr_val(ast.ex[m], tmp + 1) \o <<Ins>>,
                 1 + Tmps(ast.ex[m]))
    /\ UNCHANGED <<ctx, labels>>

VarDecl(m) ==
    /\ Visit(m) /\ ast.kind[m] = "var" /\ Printable(m)
    /\ IF ast.ex[m] = "none" THEN Leaf(m, <<>>, 0)
       ELSE Leaf(m, <<Ins>> \o qbe_expr_val(ast.ex[m], tmp + 1) \o <<Ins>>,
                 1 + Tmps(ast.ex[m]))
    /\ UNCHANGED <<ctx, labels>>

Return(m) ==
    /\ Visit(m) /\ ast.kind[m] = "return" /\ Printable(m)
    /\ Leaf(m, qbe_expr_val(ast.ex[m], tmp) \o <<Ret>>, Tmps(ast.ex[m]))
    /\ UNCHANGED <<ctx, labels>>

If(m) ==
    /\ Visit(m) /\ ast.kind[m] = "if" /\ Printable(m)
    /\ UNCHANGED ctx
    /\ LET id == tmp + Tmps(ast.ex[m])
           other == IF OneKid(ast, m) THEN "if_end" ELSE "if_else"
       IN Open(m, id, "body",
               qbe_expr_val(ast.ex[m], tmp)
                 \o <<Jnz(L("if_then", id), L(other, id)), Lab(L("if_then", id))>>,
               Tmps(ast.ex[m]) + 1)

(* The then branch of an if with an else is printed.                       *)
Else ==
    /\ status = "emit" /\ stack # <<>>
    /\ Kind = "if" /\ Top.ph = "body" /\ Top.seen # 0 /\ ~Exhausted
    /\ Emit((IF ends_in_terminator(ast, Top.seen) THEN <<>>
             ELSE <<Jmp(L("if_end", Top.id))>>) \o <<Lab(L("if_else", Top.id))>>, 0)
    /\ stack' = [stack EXCEPT ![Len(stack)].ph = "else"]
    /\ UNCHANGED <<status, ast, ctx, labels>>

EndIf ==
    /\ stack # <<>> /\ Kind = "if"
    /\ Close(<<Lab(L("if_end", Top.id))>>, 0)
    /\ UNCHANGED ctx

PushCtx(id, is_switch) ==
    ctx' = Append(ctx, [break_id |-> id,
                        continue_id |-> IF is_switch THEN -1 ELSE id,
                        is_switch |-> is_switch])

PopCtx == ctx' = Pop(ctx)

While(m) ==
    /\ Visit(m) /\ ast.kind[m] = "while" /\ Printable(m)
    /\ PushCtx(tmp, FALSE)
    /\ Open(m, tmp, "body",
            <<Lab(L("while_cond", tmp))>> \o qbe_expr_val(ast.ex[m], tmp + 1)
              \o <<Jnz(L("while_body", tmp), L("while_end", tmp)),
                   Lab(L("while_body", tmp))>>,
            1 + Tmps(ast.ex[m]))

EndWhile ==
    /\ stack # <<>> /\ Kind = "while"
    /\ Close((IF ends_in_terminator(ast, Top.seen) THEN <<>>
              ELSE <<Jmp(L("while_cond", Top.id))>>)
               \o <<Lab(L("while_end", Top.id))>>, 0)
    /\ PopCtx

Do(m) ==
    /\ Visit(m) /\ ast.kind[m] = "do"
    /\ PushCtx(tmp, FALSE)
    /\ Open(m, tmp, "body", <<Lab(L("do_body", tmp))>>, 1)

EndDo ==
    /\ stack # <<>> /\ Kind = "do" /\ ast.ex[Top.node] # "reject"
    /\ LET id == Top.id
           e  == ast.ex[Top.node]
       IN Close(<<Lab(L("do_cond", id))>> \o qbe_expr_val(e, tmp)
                  \o <<Jnz(L("do_body", id), L("do_end", id)), Lab(L("do_end", id))>>,
                Tmps(e))
    /\ PopCtx

For(m) ==
    /\ Visit(m) /\ ast.kind[m] = "for" /\ Printable(m)
    /\ PushCtx(tmp, FALSE)
    /\ LET init == Tmps(ast.init[m])
           cond == Tmps(ast.ex[m])
       IN Open(m, tmp, "body",
               qbe_expr_val(ast.init[m], tmp + 1)
                 \o <<Lab(L("for_cond", tmp))>>
                 \o qbe_expr_val(ast.ex[m], tmp + 1 + init)
                 \o (IF ast.ex[m] = "none" THEN <<>>
                     ELSE <<Jnz(L("for_body", tmp), L("for_end", tmp))>>)
                 \o <<Lab(L("for_body", tmp))>>,
               1 + init + cond)

EndFor ==
    /\ stack # <<>> /\ Kind = "for" /\ ast.post[Top.node] # "reject"
    /\ LET id == Top.id
           e  == ast.post[Top.node]
       IN Close(<<Lab(L("for_post", id))>> \o qbe_expr_val(e, tmp)
                  \o <<Jmp(L("for_cond", id)), Lab(L("for_end", id))>>,
                Tmps(e))
    /\ PopCtx

(* The expressions a loop evaluates after its body.                        *)
RejectClose ==
    /\ status = "emit" /\ Len(stack) > 1 /\ Exhausted
    /\ \/ Kind = "do" /\ ast.ex[Top.node] = "reject"
       \/ Kind = "for" /\ ast.post[Top.node] = "reject"
    /\ Exit

-----------------------------------------------------------------------------
(* switch: the chain of comparisons, then the body with break going to     *)
(* switch_end.                                                             *)

Switch(m) ==
    /\ Visit(m) /\ ast.kind[m] = "switch" /\ Printable(m)
    /\ UNCHANGED ctx
    /\ Open(m, tmp, "dispatch", qbe_expr_val(ast.ex[m], tmp + 1),
            1 + Tmps(ast.ex[m]))

Dispatching == status = "emit" /\ stack # <<>> /\ Top.ph = "dispatch"

Undispatched ==
    {m \in FlatCases(ast, Top.node) \ Top.disp : ast.kind[m] = "case"}

NextCase(m) ==
    /\ Dispatching
    /\ m \in Undispatched
    /\ \A k \in Undispatched : k = m \/ Before(ast, m, k)

DispatchCase(m) ==
    /\ NextCase(m) /\ ast.ex[m] # "reject"
    /\ LET next == <<"switch_next", Top.id, m>>
       IN Emit(qbe_expr_val(ast.ex[m], tmp)
                 \o <<Ins>>
                 \o <<Jnz(CaseLabel(ast, Top.node, Top.id, m), next), Lab(next)>>,
               Tmps(ast.ex[m]) + 1)
    /\ stack' = [stack EXCEPT ![Len(stack)].disp = @ \cup {m}]
    /\ UNCHANGED <<status, ast, ctx, labels>>

RejectCase(m) == NextCase(m) /\ ast.ex[m] = "reject" /\ Exit

(* The last default of the flattened list wins.                            *)
LastDefault(m) ==
    LET defaults == {k \in FlatCases(ast, Top.node) : ast.kind[k] = "default"}
    IN m \in defaults /\ \A k \in defaults : k = m \/ Before(ast, k, m)

DispatchEnd ==
    /\ Dispatching /\ Undispatched = {}
    /\ \/ \E m \in Nodes(ast) :
             LastDefault(m) /\ Emit(<<Jmp(CaseLabel(ast, Top.node, Top.id, m))>>, 0)
       \/ /\ \A m \in Nodes(ast) : ~LastDefault(m)
          /\ Emit(<<Jmp(L("switch_end", Top.id))>>, 0)
    /\ PushCtx(Top.id, TRUE)
    /\ stack' = [stack EXCEPT ![Len(stack)].ph = "body",
                              ![Len(stack)].depth = Len(ctx')]
    /\ UNCHANGED <<status, ast, labels>>

(* A case among the statements of a switch prints its label ...            *)
SwitchCase(m) ==
    /\ Visit(m) /\ IsCase(ast, m) /\ Kind = "switch"
    /\ UNCHANGED ctx
    /\ Open(m, 0, "body", <<Lab(CaseLabel(ast, Top.node, Top.id, m))>>, 0)

(* ... anywhere else it prints nothing of its own.                         *)
StandaloneCase(m) ==
    /\ Visit(m) /\ IsCase(ast, m) /\ Kind # "switch"
    /\ UNCHANGED ctx
    /\ Open(m, 0, "body", <<>>, 0)

(* Faulty: the entry pushed for break is left there.                       *)
EndSwitchKeepsCtx ==
    /\ stack # <<>> /\ Kind = "switch" /\ Top.ph = "body"
    /\ Close(<<Lab(L("switch_end", Top.id))>>, 0)
    /\ UNCHANGED ctx

EndSwitch ==
    /\ stack # <<>> /\ Kind = "switch" /\ Top.ph = "body"
    /\ Close(<<Lab(L("switch_end", Top.id))>>, 0)
    /\ PopCtx

-----------------------------------------------------------------------------
(* Jumps.  qbe_ctx does not record the kind of a loop: break and continue  *)
(* always name the labels of a while.                                      *)

Break(m) ==
    /\ Visit(m) /\ ast.kind[m] = "break"
    /\ IF ctx = <<>> THEN Exit
       ELSE LET c == ctx[Len(ctx)]
                end == IF c.is_switch THEN "switch_end" ELSE "while_end"
            IN /\ Leaf(m, <<Jmp(L(end, c.break_id))>>, 0)
               /\ UNCHANGED <<ctx, labels>>

InnermostLoop(i) ==
    /\ i \in DOMAIN ctx
    /\ ~ctx[i].is_switch
    /\ \A j \in DOMAIN ctx : j > i => ctx[j].is_switch

Continue(m) ==
    /\ Visit(m) /\ ast.kind[m] = "continue"
    /\ \/ (\A i \in DOMAIN ctx : ctx[i].is_switch) /\ Exit
       \/ \E i \in DOMAIN ctx :
             /\ InnermostLoop(i)
             /\ Leaf(m, <<Jmp(L("while_cond", ctx[i].continue_id))>>, 0)
             /\ UNCHANGED <<ctx, labels>>

(* A label node keeps its name in a union with its statement, and the      *)
(* statement is stored last (parser.c:421-423): what qbe_label_id compares *)
(* for a label are the first bytes of its statement's node, its kind, for  *)
(* names of up to four characters, which are the ones modelled: a longer   *)
(* name is compared with more of the node.  A goto is looked up by its     *)
(* name.                                                                   *)
LabelKey(a, m) ==
    IF a.kind[m] = "goto" THEN <<"name", a.name[m], a.len[m]>>
    ELSE <<"node", a.kind[CHOOSE k \in Nodes(a) : Kids(a, m) = {k}], a.len[m]>>

(* qbe_label_id: the index of the key, or the next free one.               *)
LabelId(key, lid) ==
    \/ lid < Len(labels) /\ labels[lid + 1] = key
    \/ lid = Len(labels) /\ \A i \in DOMAIN labels : labels[i] # key

(* Faulty: a name that was found is entered again.                         *)
TableTwice(key, lid) == Append(labels, key)

Table(key, lid) == IF lid = Len(labels) THEN Append(labels, key) ELSE labels

Goto(m) ==
    /\ Visit(m) /\ ast.kind[m] = "goto"
    /\ \E lid \in 0 .. Len(labels) :
          /\ LabelId(LabelKey(ast, m), lid)
          /\ IF lid >= LabelCap THEN Exit
             ELSE /\ Leaf(m, <<Jmp(L("user_label", lid))>>, 0)
                  /\ labels' = Table(LabelKey(ast, m), lid)
                  /\ UNCHANGED ctx

Label(m) ==
    /\ Visit(m) /\ ast.kind[m] = "label"
    /\ \E lid \in 0 .. Len(labels) :
          /\ LabelId(LabelKey(ast, m), lid)
          /\ IF lid >= LabelCap THEN Exit
             ELSE /\ Emit(<<Lab(L("user_label", lid))>>, 0)
                  /\ stack' = Append(Saw(m), Frame(m, 0, "body", Len(ctx)))
                  /\ labels' = Table(LabelKey(ast, m), lid)
                  /\ UNCHANGED <<status, ast, ctx>>

(* A compound, case, default or label returns without printing.            *)
EndPlain ==
    /\ stack # <<>> /\ Kind \in {"compound", "case", "default", "label"}
    /\ Close(<<>>, 0)
    /\ UNCHANGED ctx

-----------------------------------------------------------------------------
(* qbe_emit: one function after the other.  The label table and qbe_tmp    *)
(* are reset for each, here on the way from one to the next, between which *)
(* nothing reads them; qbe_ctx_depth only before the first.                *)

StartFunction(a) ==
    /\ status = "idle"
    /\ status' = "emit"
    /\ ast' = a
    /\ out' = <<Lab(L("start", 0))>>
    /\ stack' = <<Frame(1, 0, "body", Len(ctx))>>
    /\ UNCHANGED <<tmp, ctx, labels>>

EndFunction ==
    /\ status = "emit" /\ Len(stack) = 1 /\ Exhausted
    /\ status' = "done"
    /\ out' = out \o (IF ends_in_terminator(ast, 1) THEN <<>> ELSE <<Ret>>)
    /\ stack' = <<>>
    /\ UNCHANGED <<ast, tmp, ctx, labels>>

NoBody == [n |-> 0]

NextFunction ==
    /\ status = "done"
    /\ status' = "idle"
    /\ ast' = NoBody
    /\ out' = <<>>
    /\ tmp' = 0
    /\ labels' = <<>>
    /\ UNCHANGED <<ctx, stack>>

(* exit(1) ends the process.                                               *)
Exited == status = "exit" /\ UNCHANGED vars

Init ==
    /\ status = "idle"
    /\ ast = NoBody
    /\ out = <<>>
    /\ tmp = 0
    /\ ctx = <<>>
    /\ labels = <<>>
    /\ stack = <<>>

Statement(m) ==
    \/ Compound(m) \/ ExprStmt(m) \/ VarDecl(m) \/ Return(m) \/ If(m)
    \/ While(m) \/ Do(m) \/ For(m) \/ Switch(m) \/ SwitchCase(m)
    \/ StandaloneCase(m) \/ Break(m) \/ Continue(m) \/ Goto(m) \/ Label(m)
    \/ RejectVisit(m) \/ DispatchCase(m) \/ RejectCase(m)

Ending ==
    \/ DispatchEnd \/ Else \/ EndIf \/ EndWhile \/ EndDo \/ EndFor \/ EndSwitch
    \/ EndPlain \/ RejectClose \/ EndFunction

EmitStep == status = "emit" /\ (Ending \/ \E m \in Nodes(ast) : Statement(m))

Next ==
    \/ \E a \in Asts : StartFunction(a)
    \/ EmitStep
    \/ NextFunction
    \/ Exited

(* A single thread: once a function is begun, its printing goes on.        *)
Spec == Init /\ [][Next]_vars /\ WF_vars(EmitStep)

-----------------------------------------------------------------------------
(* Properties.                                                             *)

LabelKinds ==
    {"start", "sc_rhs", "sc_end", "cond_then", "cond_else", "cond_end",
     "if_then", "if_else", "if_end", "while_cond", "while_body", "while_end",
     "do_body", "do_cond", "do_end", "for_cond", "for_body", "for_post", "for_end",
     "case", "switch_next", "switch_end", "user_label"}
LabelType == LabelKinds \X Nat \X Nat
Line == [op : {"ins", "lab", "jmp", "ret"}, ls : SUBSET LabelType]
LoopCtx == {c \in [break_id : Nat, continue_id : Nat \cup {-1}, is_switch : BOOLEAN] :
               ~c.is_switch => c.continue_id = c.break_id}
KeyType == ({"name"} \X STRING \X (1 .. 4)) \cup ({"node"} \X Kinds \X (1 .. 4))
FrameType == [node : Nat, id : Nat, seen : Nat, ph : {"dispatch", "body", "else"},
              disp : SUBSET Nat, depth : Nat]

(* The types of the emitter's variables: what is printed is IL, every      *)
(* pending call is for a node of the body being compiled.                  *)
TypeOK ==
    /\ status \in {"idle", "emit", "done", "exit"}
    /\ status = "idle" <=> ast = NoBody
    /\ out \in Seq(Line)
    /\ tmp \in Nat
    /\ ctx \in Seq(LoopCtx)
    /\ labels \in Seq(KeyType) /\ Len(labels) <= LabelCap
    /\ stack \in Seq(FrameType)
    /\ \A i \in DOMAIN stack : stack[i].node \in Nodes(ast)

Terminators == {"jmp", "ret"}

(* A jump that the emitter is known to leave without a target: a break or  *)
(* continue of a for or do loop (qbe_ctx does not record the loop's kind), *)
(* a goto (its label is looked up under another key), a case inside a      *)
(* nested compound (dispatched, but its label is not printed).             *)
KnownGap(t) ==
    \/ t[1] \in {"while_end", "while_cond"}
          /\ {L("for_cond", t[2]), L("do_body", t[2])} \cap Labels(out) # {}
    \/ t[1] = "user_label"
    \/ t[1] = "case" /\ \E m \in Nodes(ast) :
          m = t[3] /\ ast.kind[ast.par[m]] # "switch"

(* When a function is closed, every label its jumps name has been printed  *)
(* in it, but for the known gaps: no branch of if, while, do, for, switch, *)
(* &&, || or ?:, no break out of a while or switch and no continue of a    *)
(* while is left dangling, whatever the nesting.                           *)
JumpsResolve ==
    status = "done" =>
        \A t \in Targets(out) : t \in Labels(out) \/ KnownGap(t)

(* A switch whose body has more statements than the prepass queue.         *)
Overflowing(a) ==
    \E n \in Nodes(a) : a.kind[n] = "switch" /\ Queued(a, n) # Walked(a, n)

(* No label is printed twice in a function, although the ids of labels are *)
(* drawn from the counter of the temporaries: except goto labels, which    *)
(* may share a key, and the cases of a switch that overflows its queue.    *)
NoDuplicateLabels ==
    \A i, j \in DOMAIN out :
        i < j /\ out[i].op = "lab" /\ out[j].op = "lab" /\ out[i].ls = out[j].ls
            => \A l \in out[i].ls :
                  l[1] = "user_label" \/ (l[1] = "case" /\ Overflowing(ast))

HasCtx(f) == ast.kind[f.node] \in Loops \cup {"switch"} /\ f.ph # "dispatch"

(* The pending calls, down to the i-th, whose bodies break can leave.      *)
Entered(i) == {k \in 1 .. i : HasCtx(stack[k])}

(* qbe_ctx is, entry by entry, the loops and switches whose bodies are     *)
(* being printed, outermost first, and it is empty between functions,      *)
(* where nothing resets it: break and continue see the statement that      *)
(* encloses them in the source.                                            *)
CtxMatchesNesting ==
    status # "exit" =>
        /\ Len(ctx) = Cardinality(Entered(Len(stack)))
        /\ \A i \in Entered(Len(stack)) :
              LET c == ctx[Cardinality(Entered(i))]
              IN /\ c.break_id = stack[i].id
                 /\ c.is_switch <=> ast.kind[stack[i].node] = "switch"

(* A statement list in which something that is no label follows a          *)
(* statement that ends in a jump, or a label or a case outside a switch's  *)
(* own list whose statement ends in one, or a switch whose first statement *)
(* is no case: the emitter does not look before it prints the first and    *)
(* the last, and ends_in_terminator answers false for the others.          *)
Closes(a, n) ==
    LET c[m \in Nodes(a)] ==
            \/ a.kind[m] \in {"return", "break", "continue", "goto"}
            \/ /\ a.kind[m] \in {"compound", "label", "case", "default"}
               /\ \E k \in Kids(a, m) : c[k] /\ \A j \in Kids(a, m) : j <= k
    IN c[n]

Labelled(a, m) ==
    \/ a.kind[m] \in {"while", "do", "label"}
    \/ IsCase(a, m) /\ a.kind[a.par[m]] = "switch"

DeadCode(a) ==
    \/ \E n \in Nodes(a) : a.kind[n] \in Lists /\ \E j, k \in Kids(a, n) :
          /\ j < k /\ Closes(a, j)
          /\ \A i \in Kids(a, n) : j < i /\ i <= k => ~Labelled(a, i)
    \/ \E n \in Nodes(a) : a.kind[n] = "switch" /\ \E k \in Kids(a, n) :
          \A i \in Kids(a, n) : i <= k => ~Labelled(a, i)
    \/ \E m \in Nodes(a) :
          /\ a.kind[m] = "label" \/ (IsCase(a, m) /\ ~Labelled(a, m))
          /\ Closes(a, m)

Stray(i) ==
    i > 1 /\ out[i].op # "lab" /\ out[i - 1].op \in Terminators

(* QBE takes only a label after a jump or a return, and a function must    *)
(* end in one: the printed function has that form unless the source has    *)
(* unreachable statements, or a terminator under a label or case.          *)
BlocksWellFormed ==
    /\ \A i \in DOMAIN out : Stray(i) => DeadCode(ast)
    /\ status = "done" => out[Len(out)].op \in Terminators

(* Printing a function always ends: it is closed or the compiler exits.    *)
(* Every walk over a list passes each of its statements, that of a switch  *)
(* too, which steps on in the branches of its body (qbe.c:800-813).        *)
FunctionCloses == status = "emit" ~> status \in {"done", "exit"}

-----------------------------------------------------------------------------
(* What the comments of qbe.c say of the emitter, and its code does not do.*)

(* qbe.c:3-4: "switch, do-while, goto/labels, break/continue (including    *)
(* break inside switch)": a break or continue goes to a label that exists. *)
BreakResolves ==
    status = "done" =>
        \A t \in Targets(out) :
            t[1] \in {"while_end", "while_cond", "switch_end"} => t \in Labels(out)

(* qbe.c:215: "Find or create a QBE label id for a C goto target name":    *)
(* the goto of a name and the label of that name agree on the id.          *)
GotoResolves ==
    status = "done"
      /\ (\A m \in Nodes(ast) : ast.kind[m] = "goto" =>
             \E k \in Nodes(ast) : ast.kind[k] = "label" /\ ast.name[k] = ast.name[m])
    => \A t \in Targets(out) : t[1] = "user_label" => t \in Labels(out)

=============================================================================
