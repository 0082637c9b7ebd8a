----------------------------- MODULE QbeExpr -----------------------------
(* The expression emitter (qbebasedcompiler/src/qbe.c): from the typed tree *)
(* of SemaExpr to QBE's IL, and the pass before it that numbers the string  *)
(* literals. Statements, labels of the program and the layout of functions  *)
(* are in QbeStmt; here "Compound" and "Label" are the least around an      *)
(* expression that decides whether its literals are collected.              *)
EXTENDS SemaExpr

CONSTANT MaxStrings  \* the size of qbe_strings, 1024 in the code

RECURSIVE type_size(_)
type_size(t) ==
    CASE t.kind \in {"bool", "char"} -> 1
      [] t.kind = "short" -> 2
      [] t.kind \in {"int", "float"} -> 4
      [] t.kind = "array" -> t.len * type_size(t.base[1])
      [] OTHER -> 8

(* load_op gives the same letter, store_op another for an array.            *)
qbe_type(t) ==
    CASE t.kind \in {"long", "ptr", "array"} -> "l"
      [] t.kind = "float" -> "s"
      [] t.kind = "double" -> "d"
      [] OTHER -> "w"
store_op(t) == IF t.kind = "array" THEN "w" ELSE qbe_type(t)
Known(t) == IF t = NoType THEN ty_int ELSE t

(* An instruction: what it does, the class of its result, the class its     *)
(* name ends in, the result, the temporaries it reads, a number, and the    *)
(* names of labels or the classes of arguments.                             *)
Op(op, c, x) == [op |-> op, c |-> c, s |-> c, d |-> 0, x |-> x, n |-> 0, y |-> <<>>]
Const(c, k) == [Op("const", c, <<>>) EXCEPT !.n = k]
At(l, id) == [Op("label", "", <<>>) EXCEPT !.n = id, !.y = <<l>>]
Jump(op, x, ls, id) == [Op(op, "", x) EXCEPT !.n = id, !.y = ls]

(* What was printed, the counter qbe_tmp, the value returned, and whether   *)
(* the compiler still runs. Into prints an instruction, Put one whose       *)
(* result is a new temporary.                                               *)
NewOutput == [il |-> <<>>, tmp |-> 0, v |-> 0, ok |-> TRUE]
Into(o, i) == [o EXCEPT !.il = Append(@, i)]
Put(o, i) == [o EXCEPT !.il = Append(@, [i EXCEPT !.d = o.tmp]), !.tmp = @ + 1, !.v = o.tmp]
Gives(o, v) == [o EXCEPT !.v = v]
Fails(o) == [o EXCEPT !.ok = FALSE]

(* Faulty: a number is never widened.                                       *)
ConvertByCopy(to, src, from) == Op("copy", qbe_type(to), <<src>>)

qbe_convert(to, src, from) ==
    LET small == {"int", "char", "short", "bool"}
    IN CASE to.kind = from.kind -> Op("copy", qbe_type(to), <<src>>)
         [] to.kind = "long" /\ from.kind \in small ->
              Op(IF from.unsigned THEN "extuw" ELSE "extsw", "l", <<src>>)
         [] to.kind \in small \ {"bool"} /\ from.kind = "long" -> Op("copy", "w", <<src>>)
         [] is_floating(to) /\ is_integer(from) -> Op("stosi", qbe_type(to), <<src>>)
         [] is_integer(to) /\ is_floating(from) -> Op("dtosi", "w", <<src>>)
         [] to.kind = "double" /\ from.kind = "float" -> Op("exts", "d", <<src>>)
         [] to.kind = "float" /\ from.kind = "double" -> Op("truncd", "s", <<src>>)
         [] OTHER -> Op("copy", qbe_type(to), <<src>>)

qbe_load_from_addr(o, addr, t) ==
    Put(o, [Op("load", qbe_type(Known(t)), <<addr>>) EXCEPT !.s = qbe_type(Known(t))])
qbe_store_to_addr(o, addr, src, t) ==
    Into(o, [Op("store", "", <<src, addr>>) EXCEPT !.s = store_op(Known(t))])

Times(o, v, size) ==
    LET c == Put(o, Const("l", size)) IN Put(c, Op("mul", "l", <<v, c.v>>))
qbe_scale(o, v, pointee) ==
    IF type_size(pointee) <= 1 THEN Gives(o, v) ELSE Times(o, v, type_size(pointee))

Instruction == [op \in {"+", "-", "*", "/", "%", "&", "|", "^", "<<", ">>"} |->
    CASE op = "+" -> "add" [] op = "-" -> "sub" [] op = "*" -> "mul" [] op = "/" -> "div"
      [] op = "%" -> "rem" [] op = "&" -> "and" [] op = "|" -> "or" [] op = "^" -> "xor"
      [] op = "<<" -> "shl" [] op = ">>" -> "shr"]
Compare == [op \in Comparisons |->
    CASE op = "<" -> "lt" [] op = ">" -> "gt" [] op = "<=" -> "le" [] op = ">=" -> "ge"
      [] op = "==" -> "eq" [] op = "!=" -> "ne"]

(* The class of the comparison is that of the left operand; of integers it  *)
(* is a signed one.                                                         *)
Arith(op, t, l, r) ==
    IF op \in Comparisons THEN [Op(Compare[op], "w", <<l, r>>) EXCEPT !.s = qbe_type(t)]
    ELSE Op(Instruction[op], qbe_type(t), <<l, r>>)

RECURSIVE qbe_expr_val(_, _)

qbe_lvalue_addr(o, n) ==
    CASE n.k = "Ident" -> Put(o, [Op("var", "l", <<>>) EXCEPT !.n = n.id])
      [] n.k = "Index" ->
           LET b == qbe_expr_val(o, n.kids[1])
               i == qbe_expr_val(b, n.kids[2])
               bt == n.kids[1].type
               elem == IF bt = NoType THEN 1
                       ELSE type_size(IF bt.kind = "array" THEN bt.base[1] ELSE bt)
               s == IF elem > 1 THEN Times(i, i.v, elem) ELSE i
           IN Put(s, Op("add", "l", <<b.v, s.v>>))
      [] n.k = "Unary" /\ n.op = "*" -> qbe_expr_val(o, n.kids[1])
      [] OTHER -> Fails(o)

qbe_short_circuit(o, n, is_and) ==
    LET id == o.tmp
        t == o.tmp + 1
        l == qbe_expr_val([o EXCEPT !.tmp = @ + 2], n.kids[1])
        to == IF is_and THEN <<"sc_rhs", "sc_end">> ELSE <<"sc_end", "sc_rhs">>
        s == Into(Into(Into(l, [Const("w", IF is_and THEN 0 ELSE 1) EXCEPT !.d = t]),
                       Jump("jnz", <<l.v>>, to, id)), At("sc_rhs", id))
        r == qbe_expr_val(s, n.kids[2])
        c == Put(r, Op("cnez", "w", <<r.v>>))
    IN Gives(Into(Into(c, [Op("copy", "w", <<c.v>>) EXCEPT !.d = t]), At("sc_end", id)), t)

(* At most 32 arguments fit the arrays of the code.                         *)
qbe_call(o, n) ==
    LET ft == n.kids[1].type
        ret == IF ft # NoType /\ Callee(ft).kind = "func" THEN Callee(ft).base[1] ELSE ty_int
        m == Len(n.kids) - 1
        arg[j \in 0..m] ==
            IF j = 0 THEN o ELSE qbe_expr_val(arg[j - 1], n.kids[j + 1])
        f == qbe_expr_val(arg[m], n.kids[1])
    IN Put(f, [Op("call", qbe_type(ret), <<f.v>> \o [j \in 1..m |-> arg[j].v])
               EXCEPT !.y = [j \in 1..m |-> qbe_type(Known(n.kids[j + 1].type))]])

qbe_binary(o, n) ==
    LET lt == n.kids[1].type
        rt == n.kids[2].type
        l == qbe_expr_val(o, n.kids[1])
        r == qbe_expr_val(l, n.kids[2])
    IN IF n.op = "+" /\ is_pointer(lt) /\ is_integer(rt)
       THEN LET s == qbe_scale(r, r.v, lt.base[1]) IN Put(s, Op("add", "l", <<l.v, s.v>>))
       ELSE IF n.op = "+" /\ is_pointer(rt) /\ is_integer(lt)
       THEN LET s == qbe_scale(r, l.v, rt.base[1]) IN Put(s, Op("add", "l", <<r.v, s.v>>))
       ELSE IF n.op = "-" /\ is_pointer(lt) /\ is_pointer(rt)
       THEN LET t == Put(r, Op("sub", "l", <<l.v, r.v>>))
                c == Put(t, Const("l", type_size(lt.base[1])))
            IN IF type_size(lt.base[1]) > 1 THEN Put(c, Op("div", "l", <<t.v, c.v>>)) ELSE t
       ELSE Put(r, Arith(n.op, Known(lt), l.v, r.v))

qbe_assign(o, n) ==
    LET lt == n.kids[1].type
        a == qbe_lvalue_addr(o, n.kids[1])
        v == qbe_expr_val(a, n.kids[2])
        cur == qbe_load_from_addr(v, a.v, lt)
        t == IF n.op = "" THEN v
             ELSE Put(cur, Op(Instruction[n.op], qbe_type(lt), <<cur.v, v.v>>))
    IN qbe_store_to_addr(t, a.v, t.v, lt)

(* Faulty: the value is the one after the change.                           *)
PostfixAsPrefix(o, n) ==
    LET ty == Known(n.kids[1].type)
        a == qbe_lvalue_addr(o, n.kids[1])
        v == qbe_load_from_addr(a, a.v, ty)
        one == Put(v, Const(qbe_type(ty), 1))
        t == Put(one, Op(IF n.op = "++" THEN "add" ELSE "sub", qbe_type(ty), <<v.v, one.v>>))
    IN qbe_store_to_addr(t, a.v, t.v, ty)

qbe_postfix(o, n) ==
    LET ty == Known(n.kids[1].type)
        a == qbe_lvalue_addr(o, n.kids[1])
        v == qbe_load_from_addr(a, a.v, ty)
        one == Put(v, Const(qbe_type(ty), 1))
        t == Put(one, Op(IF n.op = "++" THEN "add" ELSE "sub", qbe_type(ty), <<v.v, one.v>>))
    IN Gives(qbe_store_to_addr(t, a.v, t.v, ty), v.v)

qbe_conditional(o, n) ==
    LET c == qbe_expr_val(o, n.kids[1])
        id == c.tmp
        t == c.tmp + 1
        cl == qbe_type(Known(n.type))
        j == Into(Into([c EXCEPT !.tmp = @ + 2],
                       Jump("jnz", <<c.v>>, <<"cond_then", "cond_else">>, id)),
                  At("cond_then", id))
        a == qbe_expr_val(j, n.kids[2])
        e == Into(Into(Into(a, [Op("copy", cl, <<a.v>>) EXCEPT !.d = t]),
                       Jump("jmp", <<>>, <<"cond_end">>, id)), At("cond_else", id))
        b == qbe_expr_val(e, n.kids[3])
    IN Gives(Into(Into(b, [Op("copy", cl, <<b.v>>) EXCEPT !.d = t]), At("cond_end", id)), t)

(* The unary operators but & and * leave the switch: nothing is printed and *)
(* the result is 0.                                                         *)
qbe_unary(o, n) ==
    CASE n.op = "&" -> qbe_lvalue_addr(o, n.kids[1])
      [] n.op = "*" -> LET a == qbe_expr_val(o, n.kids[1])
                       IN IF n.type = NoType THEN a ELSE qbe_load_from_addr(a, a.v, n.type)
      [] OTHER -> Gives(o, 0)

qbe_expr_val(o, n) ==
    CASE n.k = "Int" -> Put(o, Const(qbe_type(Known(n.type)), n.v))
      [] n.k = "Float" -> Put(o, Op("float", qbe_type(n.type), <<>>))
      [] n.k = "Chr" -> Put(o, Const("w", n.v))
      [] n.k = "Str" -> Put(o, [Op("str", "l", <<>>) EXCEPT !.n = n.id])
      [] n.k = "Ident" ->
           LET a == qbe_lvalue_addr(o, n)
           IN IF n.type.kind \in {"func", "array"} THEN a
              ELSE qbe_load_from_addr(a, a.v, n.type)
      [] n.k = "Cast" ->
           LET s == qbe_expr_val(o, n.kids[1])
           IN Put(s, qbe_convert(Known(n.to), s.v, Known(n.kids[1].type)))
      [] n.k = "Index" ->
           LET a == qbe_lvalue_addr(o, n) IN qbe_load_from_addr(a, a.v, n.type)
      [] n.k = "Unary" -> qbe_unary(o, n)
      [] n.k = "Call" -> qbe_call(o, n)
      [] n.k = "Binary" /\ n.op \in {"&&", "||"} -> qbe_short_circuit(o, n, n.op = "&&")
      [] n.k = "Binary" /\ n.op \notin {"&&", "||"} -> qbe_binary(o, n)
      [] n.k = "Assign" -> qbe_assign(o, n)
      [] n.k = "Postfix" -> qbe_postfix(o, n)
      [] n.k = "Conditional" -> qbe_conditional(o, n)
      [] n.k \in {"Comma", "Compound"} ->
           LET l == qbe_expr_val(o, n.kids[1]) IN qbe_expr_val(l, n.kids[2])
      [] n.k = "Label" -> qbe_expr_val(o, n.kids[1])
      [] OTHER -> Fails(o)

-----------------------------------------------------------------------------
(* qbe_collect_strings: each literal it reaches gets the number of an equal *)
(* one already kept, or a new one; those past the end of the table are      *)
(* numbered and not kept. "done" is the tree, numbered.                     *)
NoStrings == [kept |-> <<>>, total |-> 0]

Number(s, n) ==
    LET same == {j \in DOMAIN s.kept : s.kept[j].text = n.v}
        kept == IF Len(s.kept) < MaxStrings
                THEN Append(s.kept, [text |-> n.v, id |-> s.total]) ELSE s.kept
    IN IF same # {}
       THEN [s |-> s, done |-> [n EXCEPT !.id = s.kept[CHOOSE j \in same : TRUE].id]]
       ELSE [s |-> [kept |-> kept, total |-> s.total + 1],
             done |-> [n EXCEPT !.id = s.total]]

RECURSIVE qbe_collect_strings(_, _)
qbe_collect_strings(s, n) ==
    LET m == Len(n.kids)
        walk[j \in 0..m] ==
            IF j = 0 THEN [s |-> s, done |-> n]
            ELSE LET c == qbe_collect_strings(walk[j - 1].s, n.kids[j])
                 IN [s |-> c.s, done |-> [walk[j - 1].done EXCEPT !.kids[j] = c.done]]
    IN IF n.k = "Str" THEN Number(s, n)
       ELSE IF n.k \in {"Label", "Sizeof"} THEN [s |-> s, done |-> n]
       ELSE walk[m]
=============================================================================
