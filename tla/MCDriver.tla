------------------------------ MODULE MCDriver ------------------------------
(* Command lines for Driver: two sources of the same name in different     *)
(* directories, one whose name is that of an intermediate, and a header    *)
(* source of another name.                                                 *)
EXTENDS Driver, TLC

Cmd(i, m, o) == [input |-> i, mode |-> m, output |-> o]

A  == <<".", "a", ".c">>
LA == <<"lib", "a", ".c">>
BI == <<".", "b", ".i">>

OneJob ==
    {Cmd(A, "link", NoPath), Cmd(A, "S", NoPath), Cmd(A, "c", <<"out", "x", ".o">>),
     Cmd(LA, "S", <<"out", "x", ".s">>), Cmd(BI, "E", NoPath), Cmd(A, "qbe", NoPath)}

TwoJobs ==
    {Cmd(A, "link", <<"out", "x", "">>), Cmd(LA, "link", <<"out", "y", "">>),
     Cmd(BI, "link", <<"out", "z", "">>)}

Linked == {Cmd(A, "link", <<"out", "x", "">>)}

All == {{"ld.exe", "msys-2.0.dll"}}
Some == All \cup {{"ld.exe"}, {}}

CONSTANTS j, k

(* One compiler run twice, with every fault and an edit; two compilers at   *)
(* once; one whose link is looked at.                                       *)
Plan(cs, ps, fs0, rs, es) ==
    [commands |-> cs, present |-> ps, faults |-> fs0, runs |-> rs, edits |-> es]
Alone == Plan(OneJob, Some, {"kill", "rename", "read", "write", "open"}, j :> 2 @@ k :> 0, 1)
Together == Plan(TwoJobs, All, {"kill", "write"}, j :> 1 @@ k :> 1, 0)
MCPlans == {Alone, Together}
LinkPlans == {Plan(Linked, All, {}, j :> 2 @@ k :> 0, 0)}

=============================================================================
