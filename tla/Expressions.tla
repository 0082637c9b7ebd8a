---------------------------- MODULE Expressions ----------------------------
(* An expression on its way through the compiler: SemaExpr gives it types,  *)
(* QbeExpr prints it, QBE (Il) takes what was printed or refuses it, and    *)
(* the program runs. What it then did is compared with CMeaning.            *)
EXTENDS QbeExpr, CMeaning

CONSTANTS Sources,   \* the expressions as the parser makes them
          Memories   \* what memory holds before

VARIABLES source, before, status, tree,
          out, strings,            \* what was printed, and the data before it
          pc, regs, mem, calls     \* the program that runs

vars == <<source, before, status, tree, out, strings, pc, regs, mem, calls>>
machine == <<pc, regs, mem, calls>>

Init ==
    /\ source \in Sources /\ before \in Memories
    /\ status = "source" /\ tree = source
    /\ out = NewOutput /\ strings = NoStrings
    /\ pc = 1 /\ regs = <<>> /\ mem = before /\ calls = <<>>

Analyse ==
    /\ status = "source"
    /\ tree' = sema_expr(source)
    /\ status' = IF Rejected(tree') THEN "rejected" ELSE "typed"
    /\ UNCHANGED <<source, before, out, strings, machine>>

qbe_emit ==
    /\ status = "typed"
    /\ LET collected == qbe_collect_strings(NoStrings, tree)
       IN /\ strings' = collected.s
          /\ out' = qbe_expr_val(NewOutput, collected.done)
    /\ status' = IF out'.ok THEN "printed" ELSE "rejected"
    /\ UNCHANGED <<source, before, tree, machine>>

(* QBE has given space to every variable that is not a function.            *)
Spaced == {v \in DOMAIN Variables : Variables[v].kind # "func"}
Whole == \A j \in DOMAIN out.il : {out.il[j].c, out.il[j].s} \cap {"s", "d"} = {}

Take ==
    /\ status = "printed"
    /\ status' = IF ~Accepted(out.il, Spaced) THEN "refused"
                 ELSE IF Whole THEN "running" ELSE "accepted"
    /\ UNCHANGED <<source, before, tree, out, strings, machine>>

Data(id) == {strings.kept[j].text : j \in {k \in DOMAIN strings.kept : strings.kept[k].id = id}}
Arg(k) == Fit(Wants(out.il[pc])[k], regs[out.il[pc].x[k]])
Defined == \A k \in DOMAIN out.il[pc].x : out.il[pc].x[k] \in DOMAIN regs

(* An instruction has no meaning where an operand was never computed, where *)
(* memory is touched outside an object, or where the text is not there.     *)
Meaningless(i) ==
    \/ ~Defined
    \/ i.op = "load" /\ ~Within(Arg(1), Width(i.s))
    \/ i.op = "store" /\ ~Within(Arg(2), Width(i.s))
    \/ i.op \in Arithmetic \cup WholeOnly /\ Traps(i.op, Arg(2))
    \/ i.op = "str" /\ Data(i.n) = {}

Computed(i) ==
    CASE i.op = "const" -> Fit(i.c, i.n)
      [] i.op = "var" -> Places[i.n]
      [] i.op = "str" -> TextPlaces[CHOOSE x \in Data(i.n) : TRUE]
      [] i.op \in {"copy", "extsw"} -> Arg(1)
      [] i.op = "extuw" -> Unsigned(Arg(1), Bits(4))
      [] i.op = "cnez" -> IF Arg(1) # 0 THEN 1 ELSE 0
      [] i.op = "load" -> Fit(i.c, Read(mem, Arg(1), Width(i.s)))
      [] i.op \in Compares -> IF Holds(i.op, Arg(1), Arg(2)) THEN 1 ELSE 0
      [] i.op = "call" -> Fit(i.c, Result)
      [] OTHER -> Apply(i.op, Bits(Width(i.c)), Arg(1), Arg(2))

Target(l, id) == CHOOSE j \in DOMAIN out.il :
    out.il[j].op = "label" /\ out.il[j].y = <<l>> /\ out.il[j].n = id
Successor(i) ==
    CASE i.op = "jmp" -> Target(i.y[1], i.n)
      [] i.op = "jnz" -> Target(IF Arg(1) # 0 THEN i.y[1] ELSE i.y[2], i.n)
      [] OTHER -> pc + 1

Execute ==
    /\ status = "running" /\ pc <= Len(out.il)
    /\ LET i == out.il[pc]
       IN /\ ~Meaningless(i)
          /\ pc' = Successor(i)
          /\ regs' = IF Makes(i) THEN [t \in DOMAIN regs \cup {i.d} |->
                                          IF t = i.d THEN Computed(i) ELSE regs[t]]
                     ELSE regs
          /\ mem' = IF i.op = "store" THEN Write(mem, Arg(2), Width(i.s), Arg(1)) ELSE mem
          /\ calls' = IF i.op = "call"
                      THEN Append(calls, <<Arg(1), [k \in 1..Len(i.x) - 1 |-> Arg(k + 1)]>>)
                      ELSE calls
    /\ UNCHANGED <<source, before, status, tree, out, strings>>

Stop ==
    /\ status = "running"
    /\ \/ pc <= Len(out.il) /\ Meaningless(out.il[pc]) /\ status' = "stuck"
       \/ pc > Len(out.il) /\ status' = "done"
    /\ UNCHANGED <<source, before, tree, out, strings, machine>>

Next == Analyse \/ qbe_emit \/ Take \/ Execute \/ Stop
Spec == Init /\ [][Next]_vars

-----------------------------------------------------------------------------
(* What the emitter is known to get wrong, node by node, in terms of C's    *)
(* types: T is the type of an operand's value, raw that of the operand.     *)
RECURSIVE Nodes(_)
Nodes(n) == {n} \cup UNION {Nodes(n.kids[j]) : j \in DOMAIN n.kids}
Somewhere(P(_)) == \E n \in Nodes(source) : P(n)

raw(n, j) == CType(n.kids[j])
T(n, j) == Value(CType(n.kids[j]))
Narrow(t) == t.kind \in {"bool", "char", "short"}
Pointer(t) == t.kind = "ptr"
Word(t) == ~Pointer(t) /\ ~is_floating(t) /\ t.kind # "long"
Arithmetical(n) == n.k = "Binary" /\ ~Pointer(T(n, 1)) /\ ~Pointer(T(n, 2))
Mixed(n) == n.k = "Binary" /\ Pointer(T(n, 1)) # Pointer(T(n, 2))
(* c ? 0 : p has the type of the 0.                                         *)
PointerElse(n) == n.k = "Conditional" /\ ~Pointer(T(n, 2)) /\ Pointer(T(n, 3))
Conversions(n) ==
    CASE n.k = "Cast" -> {<<T(n, 1), n.to>>}
      [] n.k = "Assign" -> {<<T(n, 2), T(n, 1)>>}
      [] n.k = "Conditional" /\ ~PointerElse(n) -> {<<T(n, j), CType(n)>> : j \in {2, 3}}
      [] Arithmetical(n) /\ n.op \notin {"<<", ">>"} ->
           {<<T(n, j), Common(T(n, 1), T(n, 2))>> : j \in {1, 2}}
      [] OTHER -> {}

(* QBE does not take it: a number of the wrong class where an address or a  *)
(* pointer is wanted; numbers with a fraction; functions by name.           *)
WordStep(n) ==
    \/ n.k = "Index" /\ \E j \in {1, 2} : Word(T(n, j))
    \/ Mixed(n) /\ n.op \notin {"&&", "||"} /\ Word(T(n, 2))
    \/ Mixed(n) /\ n.op = "+" /\ Word(T(n, 1)) /\ raw(n, 2).kind = "ptr"
WordToPointer(n) == \E c \in Conversions(n) : Pointer(c[2]) /\ Word(c[1])
Fraction(n) ==
    \/ n.k = "Float"
    \/ \E c \in Conversions(n) : is_floating(c[1]) # is_floating(c[2]) /\ c[1].kind # "double"
FunctionByName(n) ==
    \/ n.k = "Ident" /\ CType(n).kind = "func"
    \/ n.k = "Call" /\ n.kids[1].k = "Unary"
(* The compiler ends: an operator it has no case for, an index written      *)
(* first, the address of a literal.                                         *)
NoCase(n) ==
    \/ n.k = "Sizeof"
    \/ n.k = "Index" /\ ~Pointer(T(n, 1))
    \/ n.k = "Unary" /\ n.op = "&" /\ n.kids[1].k = "Str"
(* Nothing is printed: what follows takes temporary 0 for the operand.      *)
Unprinted(n) == n.k = "Unary" /\ n.op \notin {"&", "*"}

(* It is compiled, and wrong: pointers that step by the wrong size.         *)
StepsWrong(n) ==
    \/ n.k = "Index" /\ raw(n, 1).kind = "ptr" /\ Size(CType(n)) # 8
    \/ n.k = "Binary" /\ n.op \in {"+", "-"} /\ \E j \in {1, 2} : raw(n, j).kind = "array"
    \/ Mixed(n) /\ (n.op = "-" \/ (n.op \in Comparisons /\ Word(T(n, 1))))
    \/ n.k \in {"Assign", "Postfix"} /\ n.op # "" /\ Pointer(T(n, 1))
(* A narrow object is read and written as a word, a narrow value not cut.   *)
NarrowAsWord(n) ==
    \/ n.k \in {"Ident", "Index", "Unary"} /\ Narrow(CType(n))
    \/ \E c \in Conversions(n) : Narrow(c[2])
(* Every operation is a signed one, but for the shift, which never is.      *)
SignLost(n) ==
    LET t == Common(T(n, 1), T(n, 2))
        signed == n.op \in {"/", "%", "<", ">", "<=", ">="} /\ t.unsigned
        shifted == n.op = ">>" /\ ~Promoted(T(n, 1)).unsigned
    IN (Arithmetical(n) \/ (n.k = "Assign" /\ ~Pointer(T(n, 1)))) /\ (signed \/ shifted)
(* The right side of i /= l is cut before the division and not after it.    *)
CutTooSoon(n) ==
    n.k = "Assign" /\ n.op \in {"/", "%"} /\ Common(T(n, 1), T(n, 2)) # T(n, 1)
(* Only the low word of a condition is looked at.                           *)
LongTested(n) ==
    \/ n.k = "Conditional" /\ ~Word(T(n, 1))
    \/ n.k = "Binary" /\ n.op \in {"&&", "||"} /\ \E j \in {1, 2} : ~Word(T(n, j))
(* An array in an array is loaded as if it were a pointer.                  *)
ArrayInArray(n) == n.k \in {"Index", "Unary"} /\ n.op # "&" /\ CType(n).kind = "array"
(* A call whose arguments need converting: none is converted.               *)
Unconverted(n) ==
    /\ n.k = "Call"
    /\ LET params == Tail(T(n, 1).base[1].base)
       IN \E j \in DOMAIN params : T(n, j + 1) # params[j]
(* Literals under a label are not collected, and those past the table's end *)
(* not emitted.                                                             *)
NotCollected(n) == n.k = "Label" \/ (n = source /\ strings.total > MaxStrings)

(* Two types are not C's: that of unsigned int with long, and that of a     *)
(* comparison of a pointer with a number.                                   *)
TypedOtherwise(n) ==
    \/ Arithmetical(n) /\ {T(n, 1), T(n, 2)} = {ty_uint, ty_long}
    \/ n.k = "Conditional" /\ {T(n, 2), T(n, 3)} = {ty_uint, ty_long}
    \/ Mixed(n) /\ n.op \in Comparisons \cup {"&&", "||"}
    \/ PointerElse(n)

NotTaken(n) == WordStep(n) \/ WordToPointer(n) \/ Fraction(n) \/ FunctionByName(n) \/ NoCase(n)
Wrong(n) == \/ Unprinted(n) \/ StepsWrong(n) \/ NarrowAsWord(n) \/ SignLost(n) \/ CutTooSoon(n)
            \/ LongTested(n) \/ PointerElse(n) \/ ArrayInArray(n) \/ Unconverted(n)
            \/ NotCollected(n)

(* The type of an expression is the one C gives it, but for TypedOtherwise  *)
(* (sema.c:71-91, 120-311): the casts that are put in depend on it.         *)
TypesAsC ==
    status = "typed" /\ ~Somewhere(TypedOtherwise) /\ source.k \notin {"Compound", "Label"}
    => Value(tree.type) = CType(source) \/ Value(tree.type) = Value(CType(source))

(* What C allows is compiled to IL that QBE takes, every operand of a class *)
(* that fits, but for NotTaken, which never is (qbe.c:118-212, 356-596).    *)
Compiles ==
    /\ status \in {"rejected", "refused"} =>
        Somewhere(NotTaken) \/ Somewhere(Unprinted)
    /\ status \in {"done", "stuck", "accepted"} => ~Somewhere(NotTaken)

(* What was compiled does what C says: the same value, the same memory and  *)
(* the same calls, each side effect once, but for Wrong (qbe.c:356-596).    *)
Meant == Eval([mem |-> before, calls |-> <<>>, ok |-> TRUE, v |-> 0], source)
Computes ==
    status \in {"done", "stuck"} /\ ~Somewhere(Wrong) =>
        \A meant \in {Meant} : meant.ok =>
            /\ status = "done"
            /\ mem = meant.mem /\ calls = meant.calls
            /\ out.v \in DOMAIN regs
            /\ LET c == qbe_type(Value(CType(source))) IN Fit(c, regs[out.v]) = Fit(c, meant.v)
=============================================================================
