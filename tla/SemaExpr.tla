----------------------------- MODULE SemaExpr -----------------------------
(* Types of expressions (qbebasedcompiler/src/sema.c, sema_expr): the type  *)
(* every node gets and the casts that are put in. Names are resolved in     *)
(* SemaScopes; here an identifier is the number of its variable. Enums,     *)
(* structs and void are left out.                                           *)
EXTENDS Integers, Sequences

CONSTANT Variables  \* the types of the variables, by number, from 0

(* base holds what a type is made of: the pointee or element; the result    *)
(* and the parameters of a function. The code compares bases by address,    *)
(* which differs from comparing them only in casts that copy.               *)
Type(kind, unsigned, base, len) ==
    [kind |-> kind, unsigned |-> unsigned, base |-> base, len |-> len]
Plain(kind) == Type(kind, FALSE, <<>>, 0)
NoType == Plain("none")
Error == Plain("error")
ty_char == Plain("char")
ty_int == Plain("int")
ty_uint == Type("int", TRUE, <<>>, 0)
ty_long == Plain("long")
ty_ulong == Type("long", TRUE, <<>>, 0)
ty_double == Plain("double")
Ptr(t) == Type("ptr", FALSE, <<t>>, 0)
Array(t, len) == Type("array", FALSE, <<t>>, len)
Func(ret, params) == Type("func", FALSE, <<ret>> \o params, 0)

(* A node as the parser makes it: no type but that of a numeric literal, no *)
(* number but 0. "v" is the literal, or the variable or text meant.         *)
Node(k, op, v, kids) ==
    [k |-> k, op |-> op, v |-> v, kids |-> kids, to |-> NoType, type |-> NoType, id |-> 0]
Typed(n, t) == [n EXCEPT !.type = t]

is_integer(t) == t.kind \in {"bool", "char", "short", "int", "long"}
is_floating(t) == t.kind \in {"float", "double"}
is_pointer(t) == t.kind = "ptr"
Comparisons == {"<", ">", "<=", ">=", "==", "!="}

promote_integer(t) == IF t.kind \in {"bool", "char", "short"} THEN ty_int ELSE t

(* Faulty: the operands are brought to the type of the left one.            *)
CommonOfLeft(a, b) == promote_integer(a)

usual_arith(a, b) ==
    LET p == promote_integer(a)
        q == promote_integer(b)
        unsigned == p.unsigned \/ q.unsigned
    IN IF "double" \in {a.kind, b.kind} THEN ty_double
       ELSE IF "float" \in {a.kind, b.kind} THEN Plain("float")
       ELSE Type(IF "long" \in {p.kind, q.kind} THEN "long" ELSE "int", unsigned, <<>>, 0)

decay(t) == IF t.kind = "array" THEN Ptr(t.base[1]) ELSE t

make_cast(n, to) ==
    IF n.type.kind = to.kind /\ n.type.unsigned = to.unsigned /\ n.type.base = to.base THEN n
    ELSE Typed([Node("Cast", "", 0, <<n>>) EXCEPT !.to = to], to)

TypeOfUnary(op, t) ==
    CASE op = "&" -> Ptr(t)
      [] op = "*" -> IF is_pointer(decay(t)) THEN decay(t).base[1] ELSE Error
      [] op = "!" -> ty_int
      [] op \in {"-", "+", "~"} -> promote_integer(t)
      [] OTHER -> t

(* The type of a binary node, and the type its operands are cast to.        *)
TypeOfBinary(op, l, r) ==
    IF is_pointer(l) /\ is_integer(r) THEN l
    ELSE IF is_integer(l) /\ is_pointer(r) THEN r
    ELSE IF is_pointer(l) /\ is_pointer(r) THEN IF op = "-" THEN ty_long ELSE ty_int
    ELSE IF op \in Comparisons \cup {"&&", "||"} THEN ty_int
    ELSE IF op \in {"<<", ">>"} THEN promote_integer(l)
    ELSE usual_arith(l, r)
CastOperands(op, e, l, r) ==
    IF is_pointer(l) \/ is_pointer(r) THEN e
    ELSE IF op \in {"<<", ">>"} THEN <<make_cast(e[1], promote_integer(l)), e[2]>>
    ELSE <<make_cast(e[1], usual_arith(l, r)), make_cast(e[2], usual_arith(l, r))>>

(* Arguments up to the first that a parameter would convert are analysed.   *)
(* That one keeps its type: the cast is not put into the list, and the loop *)
(* goes on from the cast, which has no next. The rest stay as parsed.       *)
Callee(t) == IF t.kind = "ptr" THEN t.base[1] ELSE t
ConvertsArg(t, j, e) ==
    j < Len(t.base) /\ make_cast(e, t.base[j + 1]) # e
AnalysedArgs(t, raw, e) ==
    [j \in DOMAIN e |-> IF \E i \in 1..j - 1 : ConvertsArg(t, i, e[i]) THEN raw[j] ELSE e[j]]

RECURSIVE sema_expr(_)
sema_expr(n) ==
    LET e == [j \in DOMAIN n.kids |-> sema_expr(n.kids[j])]
        T(j) == e[j].type
        As(kids, t) == [n EXCEPT !.kids = kids, !.type = t]
    IN CASE n.k \in {"Int", "Float"} -> n
         [] n.k = "Chr" -> Typed(n, ty_int)
         [] n.k = "Str" -> Typed(n, Array(ty_char, 1))
         [] n.k = "Ident" -> [n EXCEPT !.type = Variables[n.v], !.id = n.v]
         [] n.k = "Cast" -> As(e, n.to)
         [] n.k = "Index" ->
              As(e, IF is_pointer(decay(T(1))) THEN decay(T(1)).base[1] ELSE Error)
         [] n.k = "Call" ->
              IF Callee(T(1)).kind # "func" THEN As(e, Error)
              ELSE As(<<e[1]>> \o AnalysedArgs(Callee(T(1)), Tail(n.kids), Tail(e)),
                      Callee(T(1)).base[1])
         [] n.k = "Unary" ->
              As(IF n.op \in {"-", "+", "~"} THEN <<make_cast(e[1], promote_integer(T(1)))>>
                 ELSE e,
                 TypeOfUnary(n.op, T(1)))
         [] n.k = "Postfix" -> As(e, T(1))
         [] n.k = "Binary" ->
              As(CastOperands(n.op, e, decay(T(1)), decay(T(2))),
                 TypeOfBinary(n.op, decay(T(1)), decay(T(2))))
         [] n.k = "Assign" -> As(<<e[1], make_cast(e[2], T(1))>>, T(1))
         [] n.k = "Conditional" ->
              LET a == decay(T(2))
                  common == IF is_pointer(a) \/ is_pointer(decay(T(3))) THEN a
                            ELSE usual_arith(a, decay(T(3)))
              IN As(<<e[1], make_cast(e[2], common), make_cast(e[3], common)>>, common)
         [] n.k = "Comma" -> As(e, T(2))
         [] n.k = "Sizeof" -> As(e, ty_ulong)
         [] n.k = "Compound" -> As(e, NoType)
         [] n.k = "Label" -> n

(* An error ends the compiler.                                              *)
RECURSIVE Rejected(_)
Rejected(n) == n.type = Error \/ \E j \in DOMAIN n.kids : Rejected(n.kids[j])
=============================================================================
