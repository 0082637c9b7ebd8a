-------------------------------- MODULE Il --------------------------------
(* QBE, as far as the emitter of expressions relies on it: which IL it      *)
(* takes, and what an instruction does. QBE is a program of its own; the    *)
(* driver runs it on what was printed. Bytes have ByteBits bits, so that a  *)
(* word of 4 bytes and a long of 8 stay small. Floating point is only       *)
(* checked, never executed.                                                 *)
EXTENDS Integers, Sequences, FiniteSets, Bitwise

CONSTANTS ByteBits,
          Places,      \* where each variable is, by its number
          TextPlaces,  \* where each text is, once the data of it is emitted
          Objects      \* the extents of memory, [at, size]

Bits(bytes) == bytes * ByteBits
Unsigned(v, bits) == v % 2^bits
Signed(v, bits) == IF Unsigned(v, bits) >= 2^(bits - 1) THEN Unsigned(v, bits) - 2^bits
                   ELSE Unsigned(v, bits)
Width(c) == IF c = "l" THEN 8 ELSE 4
Fit(c, v) == Signed(v, Bits(Width(c)))

(* Memory is a function from addresses to bytes.                            *)
Within(a, bytes) == \E b \in Objects : b.at <= a /\ a + bytes <= b.at + b.size
Read(mem, a, bytes) ==
    LET r[k \in 0..bytes] == IF k = 0 THEN 0 ELSE r[k - 1] + mem[a + k - 1] * 2^Bits(k - 1)
    IN r[bytes]
Write(mem, a, bytes, v) ==
    [x \in DOMAIN mem |->
        IF x \in a..a + bytes - 1 THEN (Unsigned(v, Bits(bytes)) \div 2^Bits(x - a)) % 2^ByteBits
        ELSE mem[x]]

(* Whole-number division towards zero.                                      *)
Magnitude(v) == IF v < 0 THEN -v ELSE v
Quotient(a, b) ==
    LET q == Magnitude(a) \div Magnitude(b) IN IF (a < 0) # (b < 0) THEN -q ELSE q

(* What an operation gives on values of a width; division by zero traps.    *)
Traps(op, b) == op \in {"div", "rem"} /\ b = 0
Apply(op, bits, a, b) ==
    LET ua == Unsigned(a, bits)
        ub == Unsigned(b, bits)
        k == b % bits
    IN Signed(CASE op = "add" -> a + b
                [] op = "sub" -> a - b
                [] op = "mul" -> Signed(a, bits) * Signed(b, bits)
                [] op = "div" -> Quotient(a, b)
                [] op = "rem" -> a - b * Quotient(a, b)
                [] op = "and" -> ua & ub
                [] op = "or" -> ua | ub
                [] op = "xor" -> ua ^^ ub
                [] op = "shl" -> (ua * 2^k) % 2^bits
                [] op = "shr" -> ua \div 2^k, bits)
Holds(op, a, b) ==
    CASE op = "lt" -> a < b [] op = "gt" -> a > b [] op = "le" -> a <= b
      [] op = "ge" -> a >= b [] op = "eq" -> a = b [] op = "ne" -> a # b

Arithmetic == {"add", "sub", "mul", "div"}
WholeOnly == {"rem", "and", "or", "xor"}
Shifts == {"shl", "shr"}
Compares == {"lt", "gt", "le", "ge", "eq", "ne"}

(* The classes an instruction wants of the temporaries it reads.            *)
Wants(i) ==
    CASE i.op \in Arithmetic \cup WholeOnly -> <<i.c, i.c>>
      [] i.op \in Shifts -> <<i.c, "w">>
      [] i.op \in Compares -> <<i.s, i.s>>
      [] i.op = "copy" -> <<i.c>>
      [] i.op = "load" -> <<"l">>
      [] i.op = "store" -> <<i.s, "l">>
      [] i.op \in {"extsw", "extuw", "jnz", "cnez"} -> <<"w">>
      [] i.op \in {"stosi", "exts"} -> <<"s">>
      [] i.op \in {"dtosi", "truncd"} -> <<"d">>
      [] i.op = "call" -> <<"l">> \o i.y
      [] OTHER -> <<>>

Makes(i) == i.op \notin {"store", "label", "jnz", "jmp"}
Has(code, t) == {code[j].c : j \in {k \in DOMAIN code : Makes(code[k]) /\ code[k].d = t}}
Suits(have, want) == have = want \/ (have = "l" /\ want = "w")

(* Each operand is of a class that fits, none is left without a definition, *)
(* and no operation is asked of a class it does not have: a number with a   *)
(* fraction, written as %g writes it, is none QBE reads. A variable must    *)
(* have been given space, which a function is not.                          *)
Accepted(code, spaced) ==
    \A j \in DOMAIN code :
        /\ \A k \in DOMAIN code[j].x :
              /\ Cardinality(Has(code, code[j].x[k])) = 1
              /\ \A h \in Has(code, code[j].x[k]) : Suits(h, Wants(code[j])[k])
        /\ code[j].op \in WholeOnly \cup Shifts \cup {"stosi", "dtosi"} => code[j].c \in {"w", "l"}
        /\ code[j].op # "float"
        /\ code[j].op = "var" => code[j].n \in spaced
=============================================================================
