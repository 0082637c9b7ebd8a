------------------------------- MODULE Driver -------------------------------
(***************************************************************************)
(* The pipeline of the QBE-based compiler (qbebasedcompiler/src/driver.c,  *)
(* driver_main after its argument loop): preprocessor, frontend and        *)
(* emitter, qbe, as, ld and the copy of the runtime DLL, which hand each   *)
(* other files in the current directory that are named after the input.    *)
(*                                                                         *)
(* Several compilers may run at once on one file system; a source may be   *)
(* edited between runs; a run may be killed at any moment; each tool may   *)
(* fail.  A file is its place in the pipeline and the version of the       *)
(* source it was made from; "whole" is false for one cut short.            *)
(***************************************************************************)
EXTENDS Integers, Sequences, FiniteSets

CONSTANTS
    Jobs,   \* the compilers
    Plans   \* what may happen, [commands, present, faults, runs, edits]: the
            \* command lines [input, mode, output]; the files that may be found
            \* beside the compiler; faults the code does not look at ("rename",
            \* "read", "write", "open") and "kill"; how often each compiler is
            \* run and a source edited, at most

(* A path: directory, name up to the last dot, the rest.                   *)
NoPath == <<>>
Derive(p, ext) == <<".", p[2], ext>>
Beside(p, name, ext) == <<p[1], name, ext>>

Intermediates(c) == {Derive(c.input, e) : e \in {".i", ".qbe", ".s", ".o"}}
Exe(c) == IF c.output = NoPath THEN <<".", "a", ".out">> ELSE c.output
Dll(c) == Beside(Exe(c), "msys-2.0", ".dll")

(* The file a command is asked for.                                        *)
Artifact(c) ==
    CASE c.output # NoPath -> c.output
      [] c.output = NoPath /\ c.mode = "S" -> Derive(c.input, ".s")
      [] c.output = NoPath /\ c.mode = "c" -> Derive(c.input, ".o")
      [] OTHER -> Exe(c)

Commands == UNION {p.commands : p \in Plans}
Inputs == {c.input : c \in Commands}
Files == Inputs \cup UNION {Intermediates(c) \cup {Artifact(c), Exe(c), Dll(c)} : c \in Commands}

Modes == {"E", "qbe", "S", "c", "link"}

ASSUME DriverAssumption ==
    /\ \A c \in Commands : c.mode \in Modes
    /\ \A p \in Plans :
          /\ p.commands # {}
          /\ p.runs \in [Jobs -> Nat] /\ p.edits \in Nat

VARIABLES
    plan,
    fs,        \* the files
    present,   \* what is found beside the compiler
    edits,     \* how often each source was edited
    pc, cmd,
    src,       \* the preprocessed text in memory
    rc,        \* the exit status of the run, "none" while it runs
    printed,   \* what went to stdout
    linked,    \* the startup objects on the command line of ld
    runs,
    seen,      \* the input as the preprocessor read it
    unseen,    \* a fault happened that the code does not look at
    clash,     \* someone else wrote the files of this run while it ran
    torn       \* the copy of a DLL was cut short, or two found none

vars == <<plan, fs, present, edits, pc, cmd, src, rc, printed, linked, runs, seen,
          unseen, clash, torn>>
fixed == <<plan, present, edits, cmd, runs, clash>>  \* during a run

NoVersion == <<NoPath, 0>>
File(stage, from, whole) == [stage |-> stage, from |-> from, whole |-> whole]
NoFile == File("none", NoVersion, FALSE)
Part == File("part", NoVersion, FALSE)
Made(stage, f) == File(stage, f.from, f.whole)
Cut(f) == File(f.stage, f.from, FALSE)

(* What may be at a path whose writing failed half way.                    *)
Spoiled(p) ==
    {fs} \cup {[fs EXCEPT ![p] = f] : f \in {NoFile, Part}}

Goto(j, l) == pc' = [pc EXCEPT ![j] = l]
Return(j, code) == Goto(j, "exit") /\ rc' = [rc EXCEPT ![j] = code]

At(j, l) == pc[j] = l
Running(j) == pc[j] \notin {"idle", "exit"}
in(j) == cmd[j].input
mode(j) == cmd[j].mode

(* One of two commands writes what the other uses.  The DLL beside an       *)
(* executable is the same for all and does not count, unless it is what a  *)
(* command is asked for.                                                   *)
Written(c) == Intermediates(c) \cup (IF c.mode \in {"E", "qbe"} THEN {} ELSE {Artifact(c)})
Used(c) == Written(c) \cup {c.input} \cup (IF c.mode = "link" THEN {Dll(c)} ELSE {})
Conflict(c, d) == Written(c) \cap Used(d) # {} \/ Used(c) \cap Written(d) # {}

-----------------------------------------------------------------------------
(* Faulty: the exit status of the tool is not looked at.                   *)
ToolUnchecked(j, from, to, stage, next) ==
    /\ fs' \in Spoiled(to) \cup {[fs EXCEPT ![to] = Made(stage, fs[from])]}
    /\ Goto(j, next)
    /\ rc' = rc

(* driver_run: a tool makes the file "to" from the file "from", or exits   *)
(* with a status that is not 0 (or cannot be started, or is killed).       *)
Tool(j, from, to, stage, next) ==
    \/ /\ fs[from] # NoFile
       /\ fs' = [fs EXCEPT ![to] = Made(stage, fs[from])]
       /\ Goto(j, next)
       /\ rc' = rc
    \/ /\ fs' \in Spoiled(to)
       /\ Return(j, "failed")

Start(j, c) ==
    /\ ~Running(j) /\ runs[j] < plan.runs[j] /\ c \in plan.commands
    /\ cmd' = [cmd EXCEPT ![j] = c]
    /\ runs' = [runs EXCEPT ![j] = @ + 1]
    /\ Goto(j, "cpp")
    /\ rc' = [rc EXCEPT ![j] = "none"]
    /\ src' = [src EXCEPT ![j] = NoFile]
    /\ printed' = [printed EXCEPT ![j] = NoFile]
    /\ linked' = [linked EXCEPT ![j] = <<>>]
    /\ seen' = [seen EXCEPT ![j] = NoFile]
    /\ unseen' = [unseen EXCEPT ![j] = FALSE]
    /\ clash' = [k \in Jobs |->
          IF k = j THEN \E o \in Jobs \ {j} : Running(o) /\ Conflict(c, cmd[o])
          ELSE clash[k] \/ (Running(k) /\ Conflict(c, cmd[k]))]
    /\ UNCHANGED <<plan, fs, present, edits, torn>>

(* driver_preprocess, up to the return of the preprocessor.                *)
Preprocess(j) ==
    /\ At(j, "cpp")
    /\ Tool(j, in(j), Derive(in(j), ".i"), "i", "read")
    /\ seen' = [seen EXCEPT ![j] = fs[in(j)]]
    /\ UNCHANGED <<src, printed, unseen, linked, torn, fixed>>

(* What is got of f by calls whose results are not looked at: all of it, or *)
(* less if one of the faults occurs.                                       *)
Unchecked(j, f, got, faults) ==
    \/ got = f /\ unseen' = unseen
    \/ /\ faults \cap plan.faults # {} /\ got = Cut(f)
       /\ unseen' = [unseen EXCEPT ![j] = TRUE]

(* driver_read_file, and the end of -E: nothing checks what fread and fputs *)
(* return.                                                                 *)
ReadBack(j) ==
    /\ At(j, "read")
    /\ LET f == fs[Derive(in(j), ".i")]
       IN \/ Return(j, "failed") /\ UNCHANGED <<src, printed, unseen>>   \* no file, or no memory
          \/ /\ f # NoFile /\ mode(j) = "E"
             /\ \E got \in {f, Cut(f)} :
                   /\ Unchecked(j, f, got, {"read", "write"})
                   /\ printed' = [printed EXCEPT ![j] = got]
             /\ Return(j, "ok")
             /\ src' = src
          \/ /\ f # NoFile /\ mode(j) # "E"
             /\ \E got \in {f, Cut(f)} :
                   /\ Unchecked(j, f, got, {"read"})
                   /\ src' = [src EXCEPT ![j] = got]
             /\ Goto(j, "front")
             /\ UNCHANGED <<rc, printed>>
    /\ UNCHANGED <<fs, seen, linked, torn, fixed>>

(* parse_file and sema_program call exit(1) for what they do not accept.   *)
FrontendRejects(j) ==
    /\ At(j, "front")
    /\ Return(j, "failed")
    /\ UNCHANGED <<fs, src, printed, seen, unseen, linked, torn, fixed>>

(* -emit-qbe: nothing checks what fprintf returns here either.              *)
EmitToStdout(j) ==
    /\ At(j, "front") /\ mode(j) = "qbe"
    /\ LET il == Made("qbe", src[j])
       IN \E got \in {il, Cut(il)} :
             /\ printed' = [printed EXCEPT ![j] = got]
             /\ \/ Return(j, "failed") /\ unseen' = unseen   \* qbe_emit calls exit(1)
                \/ Return(j, "ok") /\ Unchecked(j, il, got, {"write"})
    /\ UNCHANGED <<fs, src, seen, linked, torn, fixed>>

(* driver_compile_qbe after the frontend: nothing checks what fprintf and  *)
(* fclose return.                                                          *)
EmitToFile(j) ==
    /\ At(j, "front") /\ mode(j) \notin {"E", "qbe"}
    /\ LET p == Derive(in(j), ".qbe")
       IN \/ fs' = fs /\ Return(j, "failed") /\ unseen' = unseen  \* fopen fails
          \/ /\ fs' = [fs EXCEPT ![p] = Part]   \* exit(1)
             /\ Return(j, "failed") /\ unseen' = unseen
          \/ /\ fs' = [fs EXCEPT ![p] = Made("qbe", src[j])]
             /\ Goto(j, "qbe") /\ UNCHANGED <<rc, unseen>>
          \/ /\ "write" \in plan.faults
             /\ fs' = [fs EXCEPT ![p] = File("qbe", src[j].from, FALSE)]
             /\ unseen' = [unseen EXCEPT ![j] = TRUE]
             /\ Goto(j, "qbe") /\ rc' = rc
    /\ UNCHANGED <<src, printed, seen, linked, torn, fixed>>

Qbe(j) ==
    /\ At(j, "qbe")
    /\ Tool(j, Derive(in(j), ".qbe"), Derive(in(j), ".s"), "s",
            IF mode(j) = "S" THEN "rename" ELSE "as")
    /\ UNCHANGED <<src, printed, seen, unseen, linked, torn, fixed>>

(* Faulty: the assembler writes the output itself.                         *)
AsToOutput(j) ==
    /\ At(j, "as")
    /\ IF mode(j) = "c"
       THEN Tool(j, Derive(in(j), ".s"), Artifact(cmd[j]), "o", "rename")
       ELSE Tool(j, Derive(in(j), ".s"), Derive(in(j), ".o"), "o", "link")
    /\ UNCHANGED <<src, printed, seen, unseen, linked, torn, fixed>>

(* Faulty: -c goes on to the linker.                                       *)
AsThenLink(j) ==
    /\ At(j, "as")
    /\ Tool(j, Derive(in(j), ".s"), Derive(in(j), ".o"), "o", "link")
    /\ UNCHANGED <<src, printed, seen, unseen, linked, torn, fixed>>

As(j) ==
    /\ At(j, "as")
    /\ Tool(j, Derive(in(j), ".s"), Derive(in(j), ".o"), "o",
            IF mode(j) = "c" THEN "rename" ELSE "link")
    /\ UNCHANGED <<src, printed, seen, unseen, linked, torn, fixed>>

(* Faulty: when the move fails the tools are run again.                    *)
RenameRetries(j) ==
    /\ At(j, "rename")
    /\ LET from == Derive(in(j), IF mode(j) = "S" THEN ".s" ELSE ".o")
           to   == cmd[j].output
       IN \/ /\ to \notin {NoPath, from}
             /\ fs' = [fs EXCEPT ![to] = fs[from], ![from] = NoFile]
             /\ Return(j, "ok")
          \/ to \in {NoPath, from} /\ fs' = fs /\ Return(j, "ok")
          \/ "rename" \in plan.faults /\ Goto(j, "qbe") /\ UNCHANGED <<fs, rc>>
    /\ UNCHANGED <<src, printed, seen, unseen, linked, torn, fixed>>

(* -S and -c with -o: the file is moved; nothing checks what rename        *)
(* returns.                                                                *)
Rename(j) ==
    /\ At(j, "rename")
    /\ LET from == Derive(in(j), IF mode(j) = "S" THEN ".s" ELSE ".o")
           to   == cmd[j].output
       IN \/ to \in {NoPath, from} /\ UNCHANGED <<fs, unseen>>
          \/ /\ to \notin {NoPath, from} /\ fs[from] # NoFile
             /\ fs' = [fs EXCEPT ![to] = fs[from], ![from] = NoFile]
             /\ unseen' = unseen
          \/ /\ to \notin {NoPath, from}
             /\ "rename" \in plan.faults \/ fs[from] = NoFile
             /\ unseen' = [unseen EXCEPT ![j] = TRUE]
             /\ fs' = fs
    /\ Return(j, "ok")
    /\ UNCHANGED <<src, printed, seen, linked, torn, fixed>>

(* driver_bin_file returns its one static buffer: each pointer it gave out *)
(* reads what its last call wrote.                                         *)
driver_bin_file(calls) == [k \in DOMAIN calls |-> calls[Len(calls)]]

Startup == <<"crt0.o", "crti.o", "crtbegin.o", "crtend.o", "crtn.o">>

Link(j) ==
    /\ At(j, "link")
    /\ IF "ld.exe" \notin present
       THEN Return(j, "failed") /\ UNCHANGED <<fs, linked>>
       ELSE /\ linked' = [linked EXCEPT ![j] = driver_bin_file(Startup)]
            /\ Tool(j, Derive(in(j), ".o"), Exe(cmd[j]), "exe", "dll")
    /\ UNCHANGED <<src, printed, seen, unseen, torn, fixed>>

Raced(j) == \E o \in Jobs \ {j} : At(o, "open") /\ Dll(cmd[o]) = Dll(cmd[j])

(* Faulty: whether the DLL is there is not looked at.                      *)
CopyAlways(j) ==
    /\ At(j, "dll")
    /\ IF "msys-2.0.dll" \in present
       THEN Goto(j, "open") /\ rc' = rc /\ torn' = (torn \/ Raced(j))
       ELSE Return(j, "ok") /\ torn' = torn
    /\ UNCHANGED <<fs, src, printed, seen, unseen, linked, fixed>>

(* driver_copy_runtime: the check, and the open that truncates ...         *)
CopyBegin(j) ==
    /\ At(j, "dll")
    /\ LET dst == Dll(cmd[j])
       IN \/ /\ fs[dst] # NoFile \/ "msys-2.0.dll" \notin present \/ "open" \in plan.faults
             /\ Return(j, "ok") /\ torn' = torn
          \/ /\ fs[dst] = NoFile /\ "msys-2.0.dll" \in present
             /\ Goto(j, "open") /\ rc' = rc
             /\ torn' = (torn \/ Raced(j))
    /\ UNCHANGED <<fs, src, printed, seen, unseen, linked, fixed>>

CopyOpen(j) ==
    /\ At(j, "open")
    /\ fs' = [fs EXCEPT ![Dll(cmd[j])] = Part]
    /\ Goto(j, "copy")
    /\ UNCHANGED <<src, printed, seen, unseen, rc, linked, torn, fixed>>

(* ... and the copy, whose writes are not checked.                         *)
CopyWrite(j) ==
    /\ At(j, "copy")
    /\ \/ fs' = [fs EXCEPT ![Dll(cmd[j])] = File("dll", NoVersion, TRUE)] /\ torn' = torn
       \/ "write" \in plan.faults /\ fs' = fs /\ torn' = TRUE
    /\ Return(j, "ok")
    /\ UNCHANGED <<src, printed, seen, unseen, linked, fixed>>

(* An interrupt stops a run and the tool it waits for, at any moment; what *)
(* was being written may be left in any shape.                             *)
Writing(j) ==
    CASE At(j, "cpp")   -> {Derive(in(j), ".i")}
      [] At(j, "front") -> {Derive(in(j), ".qbe")}
      [] At(j, "qbe")   -> {Derive(in(j), ".s")}
      [] At(j, "as")    -> {Derive(in(j), ".o")}
      [] At(j, "link")  -> {Exe(cmd[j])}
      [] OTHER          -> {}

Killed(j) ==
    /\ "kill" \in plan.faults
    /\ Running(j)
    /\ fs' \in {fs} \cup UNION {Spoiled(p) : p \in Writing(j)}
    /\ torn' = (torn \/ At(j, "copy"))
    /\ Return(j, "killed")
    /\ UNCHANGED <<src, printed, seen, unseen, linked, fixed>>

Edit(p) ==
    /\ edits[p] < plan.edits
    /\ fs[p] # NoFile
    /\ edits' = [edits EXCEPT ![p] = @ + 1]
    /\ fs' = [fs EXCEPT ![p] = File("src", <<p, edits[p] + 1>>, TRUE)]
    /\ clash' = [j \in Jobs |-> clash[j] \/ (Running(j) /\ p \in Written(cmd[j]))]
    /\ UNCHANGED <<pc, cmd, src, rc, printed, linked, runs, seen, unseen, torn, present, plan>>

Init ==
    /\ fs = [p \in Files |->
                IF p \in Inputs THEN File("src", <<p, 0>>, TRUE) ELSE NoFile]
    /\ plan \in Plans /\ present \in plan.present
    /\ edits = [p \in Inputs |-> 0]
    /\ pc = [j \in Jobs |-> "idle"]
    /\ cmd = [j \in Jobs |-> CHOOSE c \in plan.commands : TRUE]
    /\ src = [j \in Jobs |-> NoFile]
    /\ rc = [j \in Jobs |-> "none"]
    /\ printed = [j \in Jobs |-> NoFile]
    /\ linked = [j \in Jobs |-> <<>>]
    /\ runs = [j \in Jobs |-> 0]
    /\ seen = [j \in Jobs |-> NoFile]
    /\ unseen = [j \in Jobs |-> FALSE]
    /\ clash = [j \in Jobs |-> FALSE]
    /\ torn = FALSE

Step(j) ==
    \/ Preprocess(j) \/ ReadBack(j) \/ FrontendRejects(j) \/ EmitToStdout(j)
    \/ EmitToFile(j) \/ Qbe(j) \/ As(j) \/ Rename(j) \/ Link(j)
    \/ CopyBegin(j) \/ CopyOpen(j) \/ CopyWrite(j)

Next ==
    \/ \E j \in Jobs : Step(j) \/ Killed(j) \/ \E c \in Commands : Start(j, c)
    \/ \E p \in Inputs : Edit(p)

(* A run goes on and its tools return; nothing forces one to be started.   *)
Spec == Init /\ [][Next]_vars /\ \A j \in Jobs : WF_vars(Step(j))

-----------------------------------------------------------------------------
(* Types; a tool waits only for a command that needs it.                   *)
Stages == {"none", "part", "src", "i", "qbe", "s", "o", "exe", "dll"}
Versions == {NoVersion} \cup (Inputs \X (0 .. plan.edits))
FileType == [stage : Stages, from : Versions, whole : BOOLEAN]
Objects == {Startup[k] : k \in DOMAIN Startup}

TypeOK ==
    /\ fs \in [Files -> FileType]
    /\ plan \in Plans /\ present \in plan.present
    /\ edits \in [Inputs -> 0 .. plan.edits]
    /\ pc \in [Jobs -> {"idle", "cpp", "read", "front", "qbe", "as", "rename",
                        "link", "dll", "open", "copy", "exit"}]
    /\ cmd \in [Jobs -> plan.commands]
    /\ src \in [Jobs -> FileType] /\ printed \in [Jobs -> FileType]
    /\ rc \in [Jobs -> {"none", "ok", "failed", "killed"}]
    /\ linked \in [Jobs -> Seq(Objects)]
    /\ runs \in [Jobs -> Nat] /\ \A j \in Jobs : runs[j] <= plan.runs[j]
    /\ seen \in [Jobs -> FileType]
    /\ unseen \in [Jobs -> BOOLEAN] /\ clash \in [Jobs -> BOOLEAN] /\ torn \in BOOLEAN
    /\ \A j \in Jobs :
          /\ pc[j] = "qbe" => mode(j) \in {"S", "c", "link"}
          /\ pc[j] = "as" => mode(j) \in {"c", "link"}
          /\ pc[j] = "rename" => mode(j) \in {"S", "c"}
          /\ pc[j] \in {"link", "dll", "open", "copy"} => mode(j) = "link"

(* The output of the run of j is what its command asks for, made from all  *)
(* of the input that its preprocessor read.                                *)
StageOf(m) ==
    CASE m = "E" -> "i" [] m = "qbe" -> "qbe" [] m = "S" -> "s" [] m = "c" -> "o"
      [] m = "link" -> "exe"
Output(j) == IF mode(j) \in {"E", "qbe"} THEN printed[j] ELSE fs[Artifact(cmd[j])]
Delivered(j) == Output(j) = Made(StageOf(mode(j)), seen[j])

Succeeds(j) == rc[j] # "ok" /\ rc'[j] = "ok"

(* A run that exits with 0 has delivered its output: no leftover of an     *)
(* earlier run that failed or was killed, and no other version of the      *)
(* source, ends up in it; except after a fault the code does not look at    *)
(* (a fread, a write, a rename; driver.c:51, 157, 298, 314, 341), or if  *)
(* someone else wrote the same files meanwhile.                            *)
SuccessDelivers ==
    [][\A j \in Jobs : Succeeds(j) /\ ~unseen'[j] /\ ~clash[j] => Delivered(j)']_vars

(* Until its last stage a run touches no file but its own intermediates: a *)
(* run that fails before it leaves the previous output, and the sources,   *)
(* as they were.                                                           *)
OnlyIntermediates ==
    [][\A j \in Jobs : pc[j] \in {"cpp", "read", "front", "qbe", "as"} /\ pc'[j] # pc[j]
          => \A p \in Files \ Intermediates(cmd[j]) : fs'[p] = fs[p]]_vars

(* The DLLs, but for one that a command reads or is asked for by name.     *)
Runtimes ==
    {Dll(c) : c \in Commands} \ UNION {Written(c) \cup {c.input} : c \in Commands}

(* A DLL that is there is whole, or is being written, and is not written   *)
(* again; except if a copy was cut short or two compilers raced for it.    *)
DllIntact ==
    [][~torn' => \A p \in Runtimes :
          /\ fs[p].stage = "dll" => fs'[p] = fs[p]
          /\ fs'[p] # NoFile /\ fs'[p].stage # "dll"
                => \E j \in Jobs : pc'[j] = "copy" /\ Dll(cmd[j]) = p]_vars

(* A run ends, if the tools it waits for do, and the frontend: this is one *)
(* step here, which is wrong for a source with a stray }, before which      *)
(* parse_translation_unit loops for ever (parser.c:68; Settles of Parser).  *)
RunEnds == \A j \in Jobs : Running(j) ~> ~Running(j)

-----------------------------------------------------------------------------
(* What a comment of driver.c says, and the code does not do.              *)

(* driver.c:36: 'Build "bin/<name>" for the directory holding the tools':  *)
(* the startup objects on the command line of ld are the five it asked     *)
(* for.                                                                    *)
LinksStartup == \A j \in Jobs : linked[j] \in {<<>>, Startup}

=============================================================================
