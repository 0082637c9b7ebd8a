-------------------------------- MODULE Trees --------------------------------
(***************************************************************************)
(* Every small tree of statements over given forms, for the instances that *)
(* TLC checks.  F is a record of sets of forms: of statements with nothing *)
(* below them (F.leaf), with one statement (F.one), with one or two        *)
(* (F.branch) and with a list of statements (F.list).                      *)
(*                                                                         *)
(* Trees and forests are sequences in preorder; p is the parent's place, 0 *)
(* for the roots of the sequence.                                          *)
(***************************************************************************)
EXTENDS Integers, Sequences

LOCAL Shift(s, d, root) ==
    [i \in DOMAIN s |-> [s[i] EXCEPT !.p = IF @ = 0 THEN root ELSE @ + d]]
LOCAL At(f) == [form |-> f, p |-> 0]
Over(f, s) == <<At(f)>> \o Shift(s, 1, 1)
LOCAL Beside(s, t) == s \o Shift(t, Len(s), 0)

(* Levels(n, F)[k] holds the trees and the forests of k nodes over F.      *)
LOCAL Grow(lv, F) ==
    LET n == Len(lv) + 1
        trees(k) == lv[k].trees
        forests(k) == IF k = 0 THEN {<<>>} ELSE lv[k].forests
        new == {<<At(f)>> : f \in {g \in F.leaf : n = 1}}
            \cup (IF n = 1 THEN {} ELSE
                  {Over(f, t) : f \in F.one \cup F.branch, t \in trees(n - 1)})
            \cup {Over(f, s) : f \in F.list, s \in forests(n - 1)}
            \cup UNION {{Over(f, Beside(s, t)) : f \in F.branch,
                            s \in trees(i), t \in trees(n - 1 - i)} : i \in 1 .. (n - 2)}
        more == UNION {{Beside(s, t) : s \in trees(i), t \in forests(n - i)}
                          : i \in 1 .. (n - 1)}
    IN Append(lv, [trees |-> new, forests |-> new \cup more])

RECURSIVE Levels(_, _)
Levels(n, F) == IF n = 0 THEN <<>> ELSE Grow(Levels(n - 1, F), F)

Forests(n, F) ==
    LET lv == Levels(n, F) IN {<<>>} \cup UNION {lv[k].forests : k \in 1 .. n}

=============================================================================
