--------------------------- MODULE MCExpressions ---------------------------
(* Expressions of up to three operators over variables of every kind.      *)
EXTENDS Expressions, TLC

IntFunc == Func(ty_int, <<ty_int>>)
TwoFunc == Func(ty_long, <<ty_long, ty_int>>)
MCVariables ==
    0 :> ty_int @@ 1 :> ty_uint @@ 2 :> ty_long @@ 3 :> Ptr(ty_int) @@ 4 :> Ptr(ty_long)
    @@ 5 :> Array(ty_int, 2) @@ 6 :> Array(ty_long, 2) @@ 7 :> ty_char @@ 8 :> ty_double
    @@ 9 :> Ptr(IntFunc) @@ 10 :> Ptr(TwoFunc) @@ 11 :> IntFunc
    @@ 12 :> Array(Array(ty_int, 1), 2)
MCPlaces == [v \in 0..12 |-> 8 * v + (IF v > 6 THEN 16 ELSE 8)]
MCTextPlaces == <<160, 168>>
MCObjects == {[at |-> MCPlaces[v], size |-> type_size(MCVariables[v])] : v \in 0..12 \ {8, 11}}
             \cup {[at |-> MCTextPlaces[x], size |-> 1] : x \in {1, 2}}

(* Memory with these values in it, by variable.                             *)
Blank == [x \in UNION {o.at..o.at + o.size - 1 : o \in MCObjects} |-> 0]
With(i, u, l, p, q, a, b) ==
    LET at(v) == MCPlaces[v]
        m1 == Write(Write(Write(Blank, at(0), 4, i), at(1), 4, u), at(2), 8, l)
        m2 == Write(Write(m1, at(3), 8, at(5) + p), at(4), 8, at(6) + q)
        m3 == Write(Write(m2, at(5), 4, a), at(5) + 4, 4, a - 3)
        m4 == Write(Write(m3, at(6), 8, b), at(6) + 8, 8, b + 9)
    IN Write(Write(Write(m4, at(7), 1, 1), at(9), 8, 100), at(10), 8, 110)
MCMemories == {With(3, 250, 256, 0, 8, 2, -7), With(-2, 2, 5, 4, 0, 0, 300)}

Id(v) == Node("Ident", "", v, <<>>)
I == Id(0)
U == Id(1)
L == Id(2)
P == Id(3)
Q == Id(4)
A == Id(5)
B == Id(6)
C == Id(7)
Lit(v, t) == Typed(Node("Int", "", v, <<>>), t)
Two == Lit(2, ty_int)
OneL == Lit(1, ty_long)
Half == Typed(Node("Float", "", 0, <<>>), ty_double)
Text(x) == Node("Str", "", x, <<>>)
Bin(op, x, y) == Node("Binary", op, 0, <<x, y>>)
Un(op, x) == Node("Unary", op, 0, <<x>>)
Post(op, x) == Node("Postfix", op, 0, <<x>>)
Idx(x, y) == Node("Index", "", 0, <<x, y>>)
Set(op, x, y) == Node("Assign", op, 0, <<x, y>>)
Cond(x, y, z) == Node("Conditional", "", 0, <<x, y, z>>)
Comma(x, y) == Node("Comma", "", 0, <<x, y>>)
CastTo(t, x) == [Node("Cast", "", 0, <<x>>) EXCEPT !.to = t]
Call(f, args) == Node("Call", "", 0, <<f>> \o args)

IntegerOps == {"+", "-", "*", "/", "%", "&", "|", "^", "<<", ">>"}
Numbers == {I, U, L, C, Two, OneL}
Pointers == {P, Q, A, B}
Objs == {I, U, L, C, P, Un("*", P), Un("*", Q), Idx(A, OneL), Idx(B, OneL), Idx(Q, OneL)}
NumObjs == Objs \ {P}

One ==
    {Bin(op, x, y) : op \in IntegerOps \cup Comparisons \cup {"&&", "||"}, x \in Numbers, y \in Numbers}
    \cup {Bin(op, x, y) : op \in {"+", "-"}, x \in Pointers, y \in {I, L, OneL}}
    \cup {Bin("+", y, x) : x \in Pointers, y \in {I, OneL}}
    \cup {Bin(op, x, y) : op \in Comparisons \cup {"-"}, x \in {P, A}, y \in {P, A}}
    \cup {Bin(op, x, y) : op \in Comparisons \cup {"-"}, x \in {Q, B}, y \in {Q, B}}
    \cup {Bin(op, P, y) : op \in {"==", "!=", "&&"}, y \in {Two, OneL}}
    \cup {Bin("==", Lit(0, ty_int), P)}
    \cup {Un(op, x) : op \in {"-", "+", "!", "~", "++", "--"}, x \in {I, U, L}}
    \cup {Bin(op, Un("-", I), I) : op \in {"+", "*"}} \cup {Set("", x, Un("!", I)) : x \in {I, L}}
    \cup {Un("*", x) : x \in Pointers \cup {Text(1)}}
    \cup {Un("&", x) : x \in Objs \cup {A, Text(1), Id(11)}}
    \cup {Idx(x, y) : x \in Pointers \cup {Id(12)}, y \in {I, OneL}} \cup {Idx(OneL, A)}
    \cup {Set(op, x, y) : op \in IntegerOps \cup {""}, x \in NumObjs, y \in {I, U, L, Two}}
    \cup {Set(op, P, y) : op \in {"+", "-"}, y \in {I, OneL}}
    \cup {Set("", P, x) : x \in {P, A, Lit(0, ty_int), Un("&", I)}}
    \cup {Post(op, x) : op \in {"++", "--"}, x \in Objs}
    \cup {Cond(x, y, z) : x \in {I, L}, y \in {I, U, L}, z \in {I, U, L}}
    \cup {Cond(I, x, y) : x \in {P, A, Lit(0, ty_int)}, y \in {P, A, Two}}
    \cup {CastTo(t, x) : t \in {ty_int, ty_uint, ty_long, ty_ulong, ty_char, ty_double}, x \in {I, U, L, Id(8)}}
    \cup {CastTo(t, x) : t \in {ty_int, ty_long, Ptr(ty_int)}, x \in {I, L, P}}
    \cup {Call(Id(9), <<x>>) : x \in {I, L, Two}} \cup {Call(Id(11), <<I>>), Call(Un("*", Id(9)), <<I>>)}
    \cup {Call(Id(10), <<x, y>>) : x \in {I, L}, y \in {I, U, Text(1)}}
    \cup {Bin("+", Id(8), y) : y \in {Id(8), I, Half}} \cup {Half, Text(1), Node("Sizeof", "", 0, <<I>>)}

Some == {Bin("+", I, L), Bin("*", I, U), Bin("<", L, I), Bin("-", Two, I), Bin("==", I, Two),
         Set("", I, Two), Set("+", L, I), Post("++", I), Post("--", L), Un("*", Q), Idx(B, OneL),
         Cond(Bin("<", I, Two), L, I), Comma(Post("++", I), I), Call(Id(9), <<I>>), Call(Id(10), <<L, I>>),
         CastTo(ty_int, L), CastTo(ty_long, U), Bin("&&", I, Post("++", I)), Bin("-", Q, Q)}

Deeper ==
    {Bin(op, x, y) : op \in {"+", "-", "*", "/", "<", "==", "<<", "&&", "||"}, x \in Some, y \in Some}
    \cup {Comma(x, y) : x \in Some, y \in Some}
    \cup {Cond(x, y, z) : x \in Some, y \in Some, z \in {I, L, Post("++", I)}}
    \cup {Set(op, x, y) : op \in {"", "+", "*"}, x \in {I, L, Idx(B, OneL), Idx(B, Bin("-", L, L))}, y \in Some}
    \cup {Un("*", Bin("+", x, y)) : x \in {Q, P}, y \in Some}

Strings ==
    {Comma(Text(x), Comma(Text(y), Text(z))) : x \in {1, 2}, y \in {1, 2}, z \in {1, 2}}
    \cup {Node("Compound", "", 0, <<Text(x), Node("Label", "", 0, <<Text(y)>>)>>) : x \in {1, 2}, y \in {1, 2}}

MCSources == One \cup Deeper \cup Strings
=============================================================================
