----------------------------- MODULE CMeaning -----------------------------
(* What C says of the expressions of SemaExpr: the type of each, and what   *)
(* it evaluates to, with what effect on memory. Where C leaves an order     *)
(* open, operands go from left to right. This is the yardstick the emitter  *)
(* is held against, written without regard to its code.                     *)
EXTENDS SemaExpr, Il

CONSTANT Result  \* what a call gives

RECURSIVE Size(_)
Size(t) ==
    CASE t.kind = "array" -> t.len * Size(t.base[1])
      [] t.kind \in {"char", "bool"} -> 1
      [] t.kind = "short" -> 2
      [] t.kind \in {"int", "float"} -> 4
      [] OTHER -> 8

(* An array or a function, where its value is wanted.                       *)
Value(t) == IF t.kind = "array" THEN Ptr(t.base[1]) ELSE IF t.kind = "func" THEN Ptr(t) ELSE t
Promoted(t) == IF t.kind \in {"bool", "char", "short"} THEN ty_int ELSE t
Rank(t) == IF t.kind = "long" THEN 2 ELSE 1

(* The usual arithmetic conversions: the higher rank; of one rank, the      *)
(* unsigned type. A long holds every unsigned int.                          *)
Common(a, b) ==
    LET p == Promoted(a)
        q == Promoted(b)
    IN CASE "double" \in {p.kind, q.kind} -> ty_double
         [] "double" \notin {p.kind, q.kind} /\ "float" \in {p.kind, q.kind} -> Plain("float")
         [] OTHER -> IF Rank(p) > Rank(q) \/ (Rank(p) = Rank(q) /\ p.unsigned) THEN p ELSE q

RECURSIVE CType(_)
CType(n) ==
    LET T(j) == Value(CType(n.kids[j]))
    IN CASE n.k \in {"Int", "Float"} -> n.type
         [] n.k = "Chr" -> ty_int
         [] n.k = "Str" -> Array(ty_char, 1)
         [] n.k = "Ident" -> Variables[n.v]
         [] n.k = "Cast" -> n.to
         [] n.k = "Index" -> IF T(1).kind = "ptr" THEN T(1).base[1] ELSE T(2).base[1]
         [] n.k = "Call" -> T(1).base[1].base[1]
         [] n.k = "Unary" ->
              CASE n.op = "&" -> Ptr(CType(n.kids[1]))
                [] n.op = "*" -> T(1).base[1]
                [] n.op = "!" -> ty_int
                [] n.op \in {"-", "+", "~"} -> Promoted(T(1))
                [] OTHER -> T(1)
         [] n.k = "Postfix" -> T(1)
         [] n.k = "Binary" ->
              IF n.op \in Comparisons \cup {"&&", "||"} THEN ty_int
              ELSE IF n.op \in {"<<", ">>"} THEN Promoted(T(1))
              ELSE IF T(1).kind = "ptr" THEN IF T(2).kind = "ptr" THEN ty_long ELSE T(1)
              ELSE IF T(2).kind = "ptr" THEN T(2) ELSE Common(T(1), T(2))
         [] n.k = "Assign" -> CType(n.kids[1])
         [] n.k = "Conditional" ->
              IF T(2).kind = "ptr" THEN T(2) ELSE IF T(3).kind = "ptr" THEN T(3)
              ELSE Common(T(2), T(3))
         [] n.k \in {"Comma", "Compound"} -> T(2)
         [] n.k = "Sizeof" -> ty_ulong
         [] n.k = "Label" -> T(1)

Convert(v, t) ==
    IF t.unsigned THEN Unsigned(v, Bits(Size(t))) ELSE Signed(v, Bits(Size(t)))

(* The state of an evaluation: memory, the calls made, whether C still says *)
(* what happens, and the value.                                             *)
Says(s, v) == [s EXCEPT !.v = v]
Silent(s) == [s EXCEPT !.ok = FALSE]
Load(s, t) ==
    IF t.kind \in {"array", "func"} THEN s
    ELSE IF ~Within(s.v, Size(t)) THEN Silent(s)
    ELSE Says(s, Convert(Read(s.mem, s.v, Size(t)), t))
Store(s, a, t) ==
    IF ~Within(a, Size(t)) THEN Silent(s)
    ELSE [s EXCEPT !.mem = Write(@, a, Size(t), s.v), !.v = Convert(s.v, t)]

Truth(op, a, b) ==
    IF CASE op = "<" -> a < b [] op = ">" -> a > b [] op = "<=" -> a <= b
         [] op = ">=" -> a >= b [] op = "==" -> a = b [] op = "!=" -> a # b THEN 1 ELSE 0

OfPointers(op, a, ta, b, tb) ==
    CASE op \in Comparisons -> Truth(op, a, b)
      [] op = "+" /\ ta.kind = "ptr" -> a + b * Size(ta.base[1])
      [] op = "+" /\ tb.kind = "ptr" -> b + a * Size(tb.base[1])
      [] op = "-" /\ tb.kind = "ptr" -> Quotient(a - b, Size(ta.base[1]))
      [] op = "-" /\ tb.kind # "ptr" -> a - b * Size(ta.base[1])

(* An operator on the values a and b of types ta and tb.                    *)
Binary(op, s, a, ta, b, tb) ==
    LET t == IF op \in {"<<", ">>"} THEN Promoted(ta) ELSE Common(ta, tb)
        bits == Bits(Size(t))
        x == Convert(a, t)
        y == Convert(b, t)
    IN IF "ptr" \in {ta.kind, tb.kind} THEN Says(s, OfPointers(op, a, ta, b, tb))
       ELSE IF op \in Comparisons THEN Says(s, Truth(op, x, y))
       ELSE IF (op \in {"<<", ">>"} /\ b \notin 0..bits - 1) \/ (op \in {"/", "%"} /\ y = 0)
       THEN Silent(s)
       ELSE Says(s, Convert(CASE op = "<<" -> (Unsigned(x, bits) * 2^b) % 2^bits
                              [] op = ">>" -> x \div 2^b
                              [] op = "/" -> Quotient(x, y)
                              [] op = "%" -> x - y * Quotient(x, y)
                              [] op = "+" -> x + y
                              [] op = "-" -> x - y
                              [] op = "*" -> Signed(x, bits) * Signed(y, bits)
                              [] op = "&" -> Unsigned(x, bits) & Unsigned(y, bits)
                              [] op = "|" -> Unsigned(x, bits) | Unsigned(y, bits)
                              [] op = "^" -> Unsigned(x, bits) ^^ Unsigned(y, bits), t))

RECURSIVE Eval(_, _)

(* Where the object of an lvalue is.                                        *)
Place(s, n) ==
    CASE n.k = "Ident" -> Says(s, Places[n.v])
      [] n.k = "Str" -> Says(s, TextPlaces[n.v])
      [] n.k = "Index" ->
           LET a == Eval(s, n.kids[1])
               b == Eval(a, n.kids[2])
           IN Binary("+", b, a.v, Value(CType(n.kids[1])), b.v, Value(CType(n.kids[2])))
      [] n.k = "Unary" -> Eval(s, n.kids[1])

(* The object at a gets the value it holds, "op" v; v alone if there is no  *)
(* operator.                                                                *)
Changed(s, a, cur, op, v, tv, t) ==
    LET r == IF op = "" THEN Says(s, v) ELSE Binary(op, s, cur, t, v, tv)
    IN Store(Says(r, Convert(r.v, t)), a, t)

Eval(s, n) ==
    LET t == CType(n)
        T(j) == Value(CType(n.kids[j]))
        E(from, j) == Eval(from, n.kids[j])
    IN CASE n.k \in {"Int", "Chr"} -> Says(s, n.v)
         [] n.k \in {"Ident", "Str", "Index"} -> Load(Place(s, n), t)
         [] n.k = "Unary" /\ n.op = "*" -> Load(Place(s, n), t)
         [] n.k = "Unary" /\ n.op = "&" -> Place(s, n.kids[1])
         [] n.k = "Unary" /\ n.op \in {"-", "+", "~", "!"} ->
              LET a == E(s, 1)
              IN Says(a, CASE n.op = "-" -> Convert(-a.v, t) [] n.op = "+" -> Convert(a.v, t)
                           [] n.op = "~" -> Convert(-a.v - 1, t)
                           [] n.op = "!" -> IF a.v = 0 THEN 1 ELSE 0)
         [] n.k = "Unary" /\ n.op \in {"++", "--"} ->
              LET a == Place(s, n.kids[1])
                  cur == Load(a, t)
              IN Changed(cur, a.v, cur.v, IF n.op = "++" THEN "+" ELSE "-", 1, ty_int, t)
         [] n.k = "Cast" -> LET a == E(s, 1) IN Says(a, Convert(a.v, t))
         [] n.k = "Binary" /\ n.op \in {"&&", "||"} ->
              LET a == E(s, 1)
                  b == E(a, 2)
              IN IF (a.v = 0) = (n.op = "&&") THEN Says(a, IF a.v = 0 THEN 0 ELSE 1)
                 ELSE Says(b, IF b.v = 0 THEN 0 ELSE 1)
         [] n.k = "Binary" /\ n.op \notin {"&&", "||"} ->
              LET a == E(s, 1)
                  b == E(a, 2)
              IN Binary(n.op, b, a.v, T(1), b.v, T(2))
         [] n.k = "Assign" ->
              LET a == Place(s, n.kids[1])
                  v == E(a, 2)
                  cur == Load(Says(v, a.v), T(1))
              IN Changed(IF n.op = "" THEN v ELSE cur, a.v, cur.v, n.op, v.v, T(2), T(1))
         [] n.k = "Postfix" ->
              LET a == Place(s, n.kids[1])
                  cur == Load(a, T(1))
                  op == IF n.op = "++" THEN "+" ELSE "-"
              IN Says(Changed(cur, a.v, cur.v, op, 1, ty_int, T(1)), cur.v)
         [] n.k = "Conditional" ->
              LET c == E(s, 1)
                  r == IF c.v # 0 THEN E(c, 2) ELSE E(c, 3)
              IN Says(r, Convert(r.v, t))
         [] n.k \in {"Comma", "Compound"} -> E(E(s, 1), 2)
         [] n.k = "Label" -> E(s, 1)
         [] n.k = "Call" ->
              LET m == Len(n.kids) - 1
                  params == Tail(T(1).base[1].base)
                  arg[j \in 0..m] == IF j = 0 THEN E(s, 1) ELSE E(arg[j - 1], j + 1)
                  given == [j \in 1..m |-> Convert(arg[j].v, params[j])]
              IN [arg[m] EXCEPT !.calls = Append(@, <<arg[0].v, given>>),
                                !.v = Convert(Result, t)]
         [] OTHER -> Silent(s)
=============================================================================
