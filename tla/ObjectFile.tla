----------------------------- MODULE ObjectFile -----------------------------
(* What mini-cc promises of the object it writes: the functions of the      *)
(* program, all of them and in order, each returning what its one return    *)
(* statement says; or, if one of them is more than a return of a literal or *)
(* a parameter, no object (the comment of codegen.c, lines 6 to 15). How    *)
(* a function is built is left out; Codegen implements this specification.  *)
(* That comment also wants parameters and results to be I32: the program    *)
(* has no types, the bridge having left them behind, so this is not said    *)
(* here, and the code does not see to it (TypesLost of MiniCc).             *)
EXTENDS Naturals, Sequences

VARIABLES prog,      \* the program: a sequence of functions
          compiled,  \* its functions compiled so far
          object,    \* the functions in the object that is written
          status     \* "idle", "running", "written" or "failed"

vars == <<prog, compiled, object, status>>

Returns(g) == Len(g.body) = 1 /\ g.body[1].k = "Return"
Value(g) == g.body[1].kids[1]

(* The values a function may return: its literal, or a parameter of the     *)
(* name it returns.                                                         *)
Results(g) ==
    IF ~Returns(g) THEN {}
    ELSE IF Value(g).k = "Int" THEN {[arg |-> 0, imm |-> Value(g).v]}
    ELSE IF Value(g).k = "Var"
    THEN {[arg |-> k, imm |-> ""] : k \in {j \in 1..Len(g.params) : g.params[j] = Value(g).v}}
    ELSE {}

Init == compiled = <<>> /\ object = <<>> /\ status = "idle"

Load == status = "idle" /\ UNCHANGED <<compiled, object, status>>

Begin == status = "idle" /\ status' = "running" /\ UNCHANGED <<prog, compiled, object>>

Current == prog[Len(compiled) + 1]

Compile ==
    /\ status = "running" /\ Len(compiled) < Len(prog)
    /\ \E r \in Results(Current) :
           compiled' = Append(compiled, [name |-> Current.name,
                                         params |-> Len(Current.params), result |-> r])
    /\ UNCHANGED <<prog, object, status>>

Refuse ==
    /\ status = "running" /\ Len(compiled) < Len(prog) /\ Results(Current) = {}
    /\ status' = "failed"
    /\ UNCHANGED <<prog, compiled, object>>

Write ==
    /\ status = "running" /\ Len(compiled) = Len(prog)
    /\ \/ status' = "written" /\ object' = compiled
       \/ status' = "failed" /\ UNCHANGED object
    /\ UNCHANGED <<prog, compiled>>

Next == Load \/ Begin \/ Compile \/ Refuse \/ Write

Spec == Init /\ [][Next]_vars
=============================================================================
