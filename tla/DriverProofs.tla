---------------------------- MODULE DriverProofs ----------------------------
(***************************************************************************)
(* What a run of the driver delivers and what it leaves alone, for every   *)
(* set of command lines, any number of compilers on one file system, every *)
(* fault and every edit.                                                   *)
(***************************************************************************)
EXTENDS Driver, SequenceTheorems, TLAPS

PcType == {"idle", "cpp", "read", "front", "qbe", "as", "rename", "link", "dll",
           "open", "copy", "exit"}

-----------------------------------------------------------------------------
(* Paths and files.                                                        *)

(* The paths a command writes are among those it uses, and all are files.  *)
LEMMA Paths ==
    ASSUME NEW c \in Commands
    PROVE  /\ Intermediates(c) \subseteq Written(c)
           /\ Written(c) \subseteq Used(c)
           /\ Used(c) \subseteq Files
           /\ \A e \in {".i", ".qbe", ".s", ".o"} : Derive(c.input, e) \in Intermediates(c)
           /\ {c.input, Exe(c), Dll(c), Artifact(c)} \subseteq Files
           /\ c.mode = "link" => Exe(c) = Artifact(c) /\ Dll(c) \in Used(c)
           /\ c.mode \notin {"E", "qbe"} => Artifact(c) \in Written(c)
<1>1. Intermediates(c) \subseteq Written(c) /\ Written(c) \subseteq Used(c)
  BY DEF Written, Used
<1>2. Intermediates(c) \subseteq Files /\ {c.input, Exe(c), Dll(c), Artifact(c)} \subseteq Files
  BY DEF Files, Inputs
<1>3. Used(c) \subseteq Files
  BY <1>2 DEF Used, Written
<1>4. \A e \in {".i", ".qbe", ".s", ".o"} : Derive(c.input, e) \in Intermediates(c)
  BY DEF Intermediates
<1>5. c.mode = "link" => Exe(c) = Artifact(c) /\ Dll(c) \in Used(c)
  BY DEF Artifact, Exe, Used
<1>6. c.mode \notin {"E", "qbe"} => Artifact(c) \in Written(c)
  BY DEF Written
<1> QED BY <1>1, <1>2, <1>3, <1>4, <1>5, <1>6

(* What is made of a file keeps its version and whether it is whole.       *)
LEMMA MadeTwice ==
    ASSUME NEW s, NEW t, NEW f
    PROVE  Made(s, Made(t, f)) = Made(s, f)
BY DEF Made, File

LEMMA MadeType ==
    ASSUME NEW s \in Stages, NEW f \in FileType
    PROVE  Made(s, f) \in FileType /\ Made(s, f).stage = s
BY DEF Made, File, FileType

LEMMA NoFileType ==
    /\ NoFile \in FileType /\ Part \in FileType
    /\ File("dll", NoVersion, TRUE) \in FileType
    /\ NoFile.stage = "none" /\ Part.stage = "part"
    /\ File("dll", NoVersion, TRUE).stage = "dll"
BY DEF NoFile, Part, File, FileType, Stages, Versions

LEMMA ModesOfCommands ==
    ASSUME TypeOK, NEW j \in Jobs
    PROVE  cmd[j] \in plan.commands /\ cmd[j] \in Commands /\ cmd[j].mode \in Modes
<1>1. cmd[j] \in plan.commands /\ plan \in Plans
  BY DEF TypeOK
<1>2. cmd[j] \in Commands
  BY <1>1 DEF Commands
<1> QED BY <1>1, <1>2, DriverAssumption

(* What is left where a write failed is typed, and nothing else changes.   *)
LEMMA SpoiledType ==
    ASSUME fs \in [Files -> FileType], NEW p \in Files, fs' \in Spoiled(p)
    PROVE  /\ fs' \in [Files -> FileType]
           /\ \A q \in Files : fs'[q] # fs[q] => q = p
<1>1. fs' = fs \/ fs' = [fs EXCEPT ![p] = NoFile] \/ fs' = [fs EXCEPT ![p] = Part]
  BY DEF Spoiled
<1> QED BY <1>1, NoFileType

(* A tool writes one file, and ends the run or passes it on.               *)
LEMMA ToolType ==
    ASSUME TypeOK, NEW j \in Jobs, NEW from \in Files, NEW to \in Files,
           NEW stage \in Stages, NEW next \in PcType, Tool(j, from, to, stage, next)
    PROVE  /\ fs' \in [Files -> FileType]
           /\ \A q \in Files : fs'[q] # fs[q] => q = to
           /\ \/ /\ fs'[to] = Made(stage, fs[from])
                 /\ pc' = [pc EXCEPT ![j] = next] /\ rc' = rc
              \/ /\ pc' = [pc EXCEPT ![j] = "exit"]
                 /\ rc' = [rc EXCEPT ![j] = "failed"]
<1>1. fs \in [Files -> FileType]
  BY DEF TypeOK
<1>2. CASE fs' = [fs EXCEPT ![to] = Made(stage, fs[from])] /\ Goto(j, next) /\ rc' = rc
  BY <1>1, <1>2, MadeType DEF Goto
<1>3. CASE fs' \in Spoiled(to) /\ Return(j, "failed")
  BY <1>1, <1>3, SpoiledType DEF Return, Goto
<1> QED BY <1>2, <1>3 DEF Tool

-----------------------------------------------------------------------------
(* What a step of one run changes.                                         *)

(* The variables of the other runs, and of the command line, stay.         *)
Others(j) ==
    /\ \A k \in Jobs \ {j} :
          /\ pc'[k] = pc[k] /\ rc'[k] = rc[k] /\ src'[k] = src[k]
          /\ printed'[k] = printed[k] /\ seen'[k] = seen[k] /\ unseen'[k] = unseen[k]
    /\ cmd' = cmd /\ clash' = clash /\ plan' = plan /\ runs' = runs

(* Only files of the command, or its DLL while that is copied, change.     *)
Frame(j) ==
    \A p \in Files : fs'[p] # fs[p] =>
        \/ p \in Written(cmd[j])
        \/ pc[j] \in {"open", "copy"} /\ p = Dll(cmd[j])

LEMMA PathsOf ==
    ASSUME TypeOK, NEW j \in Jobs
    PROVE  /\ \A e \in {".i", ".qbe", ".s", ".o"} :
                 Derive(in(j), e) \in Intermediates(cmd[j]) /\ Derive(in(j), e) \in Files
           /\ {in(j), Exe(cmd[j]), Dll(cmd[j]), Artifact(cmd[j])} \subseteq Files
           /\ Intermediates(cmd[j]) \subseteq Written(cmd[j])
           /\ mode(j) = "link" => Exe(cmd[j]) \in Written(cmd[j])
           /\ mode(j) \notin {"E", "qbe"} => Artifact(cmd[j]) \in Written(cmd[j])
           /\ cmd[j].mode \in Modes
BY ModesOfCommands, Paths DEF in, mode

(* A stage that a run may be at, given what it is asked for.               *)
Fits(l, j) ==
    /\ l = "qbe" => mode(j) \in {"S", "c", "link"}
    /\ l = "as" => mode(j) \in {"c", "link"}
    /\ l = "rename" => mode(j) \in {"S", "c"}
    /\ l \in {"link", "dll", "open", "copy"} => mode(j) = "link"

(* What a step of the run of j has to show to keep the types.              *)
LEMMA StepType ==
    ASSUME TypeOK, NEW j \in Jobs, fixed' = fixed,
           fs' \in [Files -> FileType],
           NEW l \in PcType, pc' = [pc EXCEPT ![j] = l], Fits(l, j),
           rc' \in [Jobs -> {"none", "ok", "failed", "killed"}],
           src' \in [Jobs -> FileType], printed' \in [Jobs -> FileType],
           seen' \in [Jobs -> FileType],
           unseen' \in [Jobs -> BOOLEAN], torn' \in BOOLEAN,
           linked' \in [Jobs -> Seq(Objects)]
    PROVE  TypeOK'
<1>1. plan' = plan /\ present' = present /\ edits' = edits /\ cmd' = cmd
        /\ runs' = runs /\ clash' = clash
  BY DEF fixed
<1>2. FileType' = FileType
  BY <1>1 DEF FileType, Versions
<1>3. pc' \in [Jobs -> PcType]
  BY DEF TypeOK, PcType
<1>4. ASSUME NEW k \in Jobs
      PROVE  /\ pc'[k] = "qbe" => mode(k)' \in {"S", "c", "link"}
             /\ pc'[k] = "as" => mode(k)' \in {"c", "link"}
             /\ pc'[k] = "rename" => mode(k)' \in {"S", "c"}
             /\ pc'[k] \in {"link", "dll", "open", "copy"} => mode(k)' = "link"
  <2>1. mode(k)' = mode(k)
    BY <1>1 DEF mode
  <2>2. CASE k = j
    <3>1. pc'[k] = l
      BY <2>2 DEF TypeOK
    <3> QED BY <3>1, <2>1, <2>2 DEF Fits
  <2>3. CASE k # j
    <3>1. pc'[k] = pc[k]
      BY <2>3 DEF TypeOK
    <3> QED BY <3>1, <2>1 DEF TypeOK
  <2> QED BY <2>2, <2>3
<1>5. /\ fs' \in [Files -> FileType'] /\ src' \in [Jobs -> FileType']
      /\ printed' \in [Jobs -> FileType'] /\ seen' \in [Jobs -> FileType']
  BY <1>2
<1>6. /\ plan' \in Plans /\ present' \in plan'.present
      /\ edits' \in [Inputs -> 0 .. plan'.edits]
      /\ cmd' \in [Jobs -> plan'.commands]
      /\ runs' \in [Jobs -> Nat] /\ \A k \in Jobs : runs'[k] <= plan'.runs[k]
      /\ clash' \in [Jobs -> BOOLEAN]
  BY <1>1 DEF TypeOK
<1> QED BY <1>3, <1>4, <1>5, <1>6 DEF TypeOK, PcType

(* The four steps that wait for a tool.                                    *)
LEMMA ToolSafe ==
    ASSUME TypeOK, NEW j \in Jobs, NEW from \in Files, NEW to \in Files,
           NEW stage \in Stages, NEW next \in PcType, Tool(j, from, to, stage, next),
           to \in Written(cmd[j]), Fits(next, j),
           UNCHANGED <<src, printed, unseen, torn, fixed>>,
           seen' = seen \/ seen' = [seen EXCEPT ![j] = fs[in(j)]],
           linked' \in [Jobs -> Seq(Objects)]
    PROVE  TypeOK' /\ Others(j) /\ Frame(j)
<1>1. /\ fs' \in [Files -> FileType]
      /\ \A q \in Files : fs'[q] # fs[q] => q = to
      /\ \/ pc' = [pc EXCEPT ![j] = next] /\ rc' = rc
         \/ pc' = [pc EXCEPT ![j] = "exit"] /\ rc' = [rc EXCEPT ![j] = "failed"]
  BY ToolType
<1>2. fs[in(j)] \in FileType
  BY PathsOf DEF TypeOK
<1>3. TypeOK'
  <2>1. seen' \in [Jobs -> FileType]
    BY <1>2 DEF TypeOK
  <2>2. PICK l \in {next, "exit"} : pc' = [pc EXCEPT ![j] = l]
    BY <1>1
  <2>3. rc' \in [Jobs -> {"none", "ok", "failed", "killed"}]
    BY <1>1 DEF TypeOK
  <2>4. l \in PcType /\ Fits(l, j)
    BY <2>2 DEF PcType, Fits
  <2>5. /\ src' \in [Jobs -> FileType] /\ printed' \in [Jobs -> FileType]
        /\ unseen' \in [Jobs -> BOOLEAN] /\ torn' \in BOOLEAN
    BY DEF TypeOK
  <2> QED BY <1>1, <2>1, <2>2, <2>3, <2>4, <2>5, StepType
<1>4. Others(j)
  BY <1>1 DEF TypeOK, fixed, Others
<1>5. Frame(j)
  BY <1>1 DEF Frame
<1> QED BY <1>3, <1>4, <1>5

LEMMA PreprocessSafe ==
    ASSUME TypeOK, NEW j \in Jobs, Preprocess(j)
    PROVE  TypeOK' /\ Others(j) /\ Frame(j)
<1>1. Tool(j, in(j), Derive(in(j), ".i"), "i", "read")
  BY DEF Preprocess
<1>2. "i" \in Stages /\ "read" \in PcType /\ Fits("read", j)
  BY DEF Stages, PcType, Fits
<1>3. UNCHANGED <<src, printed, unseen, torn, fixed>>
      /\ seen' = [seen EXCEPT ![j] = fs[in(j)]]
  BY DEF Preprocess
<1>4. linked' \in [Jobs -> Seq(Objects)]
  BY DEF Preprocess, TypeOK
<1>5. in(j) \in Files /\ Derive(in(j), ".i") \in Files
        /\ Derive(in(j), ".i") \in Written(cmd[j])
  BY PathsOf
<1> QED BY <1>1, <1>2, <1>3, <1>4, <1>5, ToolSafe

LEMMA QbeSafe ==
    ASSUME TypeOK, NEW j \in Jobs, Qbe(j)
    PROVE  TypeOK' /\ Others(j) /\ Frame(j)
<1> DEFINE next == IF mode(j) = "S" THEN "rename" ELSE "as"
<1>1. Tool(j, Derive(in(j), ".qbe"), Derive(in(j), ".s"), "s", next)
  BY DEF Qbe
<1>2. mode(j) \in {"S", "c", "link"}
  BY DEF Qbe, At, TypeOK
<1>3. "s" \in Stages /\ next \in PcType /\ Fits(next, j)
  BY <1>2 DEF Stages, PcType, Fits
<1>4. UNCHANGED <<src, printed, unseen, torn, fixed>> /\ seen' = seen
  BY DEF Qbe
<1>5. linked' \in [Jobs -> Seq(Objects)]
  BY DEF Qbe, TypeOK
<1>6. /\ Derive(in(j), ".qbe") \in Files /\ Derive(in(j), ".s") \in Files
      /\ Derive(in(j), ".s") \in Written(cmd[j])
  BY PathsOf
<1> HIDE DEF next
<1> QED BY <1>1, <1>3, <1>4, <1>5, <1>6, ToolSafe

LEMMA AsSafe ==
    ASSUME TypeOK, NEW j \in Jobs, As(j)
    PROVE  TypeOK' /\ Others(j) /\ Frame(j)
<1> DEFINE next == IF mode(j) = "c" THEN "rename" ELSE "link"
<1>1. Tool(j, Derive(in(j), ".s"), Derive(in(j), ".o"), "o", next)
  BY DEF As
<1>2. mode(j) \in {"c", "link"}
  BY DEF As, At, TypeOK
<1>3. "o" \in Stages /\ next \in PcType /\ Fits(next, j)
  BY <1>2 DEF Stages, PcType, Fits
<1>4. UNCHANGED <<src, printed, unseen, torn, fixed>> /\ seen' = seen
  BY DEF As
<1>5. linked' \in [Jobs -> Seq(Objects)]
  BY DEF As, TypeOK
<1>6. /\ Derive(in(j), ".s") \in Files /\ Derive(in(j), ".o") \in Files
      /\ Derive(in(j), ".o") \in Written(cmd[j])
  BY PathsOf
<1> HIDE DEF next
<1> QED BY <1>1, <1>3, <1>4, <1>5, <1>6, ToolSafe

(* What ld is given as startup objects are five of them.                   *)
LEMMA StartupType == driver_bin_file(Startup) \in Seq(Objects)
<1>1. DOMAIN Startup = 1 .. 5 /\ Len(Startup) = 5
  BY DEF Startup
<1>2. Startup[5] \in Objects
  BY <1>1 DEF Objects
<1>3. driver_bin_file(Startup) = [k \in 1 .. 5 |-> Startup[5]]
  BY <1>1 DEF driver_bin_file
<1>4. [k \in 1 .. 5 |-> Startup[5]] \in [1 .. 5 -> Objects]
  BY <1>2
<1>5. 5 \in Nat
  OBVIOUS
<1> QED BY <1>3, <1>4, <1>5, SeqDef

LEMMA LinkSafe ==
    ASSUME TypeOK, NEW j \in Jobs, Link(j)
    PROVE  TypeOK' /\ Others(j) /\ Frame(j)
<1>1. mode(j) = "link"
  BY DEF Link, At, TypeOK
<1>2. UNCHANGED <<src, printed, unseen, torn, fixed>> /\ seen' = seen
  BY DEF Link
<1>3. CASE Return(j, "failed") /\ UNCHANGED <<fs, linked>>
  <2>1. pc' = [pc EXCEPT ![j] = "exit"] /\ rc' = [rc EXCEPT ![j] = "failed"]
    BY <1>3 DEF Return, Goto
  <2>2. /\ rc' \in [Jobs -> {"none", "ok", "failed", "killed"}]
        /\ src' \in [Jobs -> FileType] /\ printed' \in [Jobs -> FileType]
        /\ seen' \in [Jobs -> FileType] /\ fs' \in [Files -> FileType]
        /\ unseen' \in [Jobs -> BOOLEAN] /\ torn' \in BOOLEAN
        /\ linked' \in [Jobs -> Seq(Objects)]
    BY <1>2, <1>3, <2>1 DEF TypeOK
  <2>3. "exit" \in PcType /\ Fits("exit", j)
    BY DEF PcType, Fits
  <2>4. TypeOK'
    BY <1>2, <2>1, <2>2, <2>3, StepType
  <2>5. Others(j)
    BY <1>2, <2>1 DEF TypeOK, fixed, Others
  <2>6. Frame(j)
    BY <1>3 DEF Frame
  <2> QED BY <2>4, <2>5, <2>6
<1>4. CASE /\ linked' = [linked EXCEPT ![j] = driver_bin_file(Startup)]
           /\ Tool(j, Derive(in(j), ".o"), Exe(cmd[j]), "exe", "dll")
  <2>1. linked' \in [Jobs -> Seq(Objects)]
    BY <1>4, StartupType DEF TypeOK
  <2>2. "exe" \in Stages /\ "dll" \in PcType /\ Fits("dll", j)
    BY <1>1 DEF Stages, PcType, Fits
  <2>3. /\ Derive(in(j), ".o") \in Files /\ Exe(cmd[j]) \in Files
        /\ Exe(cmd[j]) \in Written(cmd[j])
    BY <1>1, PathsOf
  <2> QED BY <1>2, <1>4, <2>1, <2>2, <2>3, ToolSafe
<1> QED BY <1>3, <1>4 DEF Link

(* The other steps of a run: at most its own entries change.               *)
LEMMA StepSafe ==
    ASSUME TypeOK, NEW j \in Jobs, UNCHANGED <<seen, linked, fixed>>,
           fs' \in [Files -> FileType],
           NEW l \in PcType, pc' = [pc EXCEPT ![j] = l], Fits(l, j),
           rc' = rc \/ \E r \in {"ok", "failed", "killed"} : rc' = [rc EXCEPT ![j] = r],
           src' = src \/ \E f \in FileType : src' = [src EXCEPT ![j] = f],
           printed' = printed \/ \E f \in FileType : printed' = [printed EXCEPT ![j] = f],
           unseen' = unseen \/ unseen' = [unseen EXCEPT ![j] = TRUE],
           torn' \in BOOLEAN
    PROVE  TypeOK' /\ Others(j)
<1>1. rc' \in [Jobs -> {"none", "ok", "failed", "killed"}]
  BY DEF TypeOK
<1>2. src' \in [Jobs -> FileType] /\ printed' \in [Jobs -> FileType]
  <2>1. src \in [Jobs -> FileType] /\ printed \in [Jobs -> FileType]
    BY DEF TypeOK
  <2>2. src' \in [Jobs -> FileType]
    BY <2>1
  <2>3. printed' \in [Jobs -> FileType]
    BY <2>1
  <2> QED BY <2>2, <2>3
<1>3. unseen' \in [Jobs -> BOOLEAN]
  BY DEF TypeOK
<1>4. seen' \in [Jobs -> FileType] /\ linked' \in [Jobs -> Seq(Objects)]
  BY DEF TypeOK
<1>5. TypeOK'
  BY <1>1, <1>2, <1>3, <1>4, StepType
<1>6. Others(j)
  <2>1. ASSUME NEW k \in Jobs \ {j}
        PROVE  /\ pc'[k] = pc[k] /\ rc'[k] = rc[k] /\ src'[k] = src[k]
               /\ printed'[k] = printed[k] /\ unseen'[k] = unseen[k]
    BY DEF TypeOK
  <2> QED BY <2>1 DEF fixed, Others
<1> QED BY <1>5, <1>6

(* What is got of a file is one, and a cut one is a fault not looked at.   *)
LEMMA UncheckedSafe ==
    ASSUME TypeOK, NEW j \in Jobs, NEW f \in FileType, NEW got, NEW faults,
           Unchecked(j, f, got, faults)
    PROVE  /\ got \in FileType
           /\ unseen' = unseen \/ unseen' = [unseen EXCEPT ![j] = TRUE]
           /\ ~unseen'[j] => got = f
<1>1. Cut(f) \in FileType
  BY DEF Cut, File, FileType
<1> QED BY <1>1 DEF Unchecked, TypeOK

LEMMA ReadBackSafe ==
    ASSUME TypeOK, NEW j \in Jobs, ReadBack(j)
    PROVE  TypeOK' /\ Others(j) /\ Frame(j)
<1> DEFINE f == fs[Derive(in(j), ".i")]
<1>1. f \in FileType
  BY PathsOf DEF TypeOK
<1>2. UNCHANGED <<fs, seen, linked, torn, fixed>>
  BY DEF ReadBack
<1>3. \/ Return(j, "failed") /\ src' = src /\ printed' = printed /\ unseen' = unseen
      \/ /\ Return(j, "ok") /\ src' = src
         /\ \E got : /\ Unchecked(j, f, got, {"read", "write"})
                    /\ printed' = [printed EXCEPT ![j] = got]
      \/ /\ Goto(j, "front") /\ rc' = rc /\ printed' = printed
         /\ \E got : /\ Unchecked(j, f, got, {"read"})
                    /\ src' = [src EXCEPT ![j] = got]
  BY DEF ReadBack
<1>4. PICK l \in {"exit", "front"} : pc' = [pc EXCEPT ![j] = l]
  BY <1>3 DEF Return, Goto
<1>5. l \in PcType /\ Fits(l, j)
  BY DEF PcType, Fits
<1> HIDE DEF f
<1>6. /\ rc' = rc \/ \E r \in {"ok", "failed", "killed"} : rc' = [rc EXCEPT ![j] = r]
      /\ src' = src \/ \E g \in FileType : src' = [src EXCEPT ![j] = g]
      /\ printed' = printed \/ \E g \in FileType : printed' = [printed EXCEPT ![j] = g]
      /\ unseen' = unseen \/ unseen' = [unseen EXCEPT ![j] = TRUE]
  BY <1>1, <1>3, UncheckedSafe DEF Return
<1>7. fs' \in [Files -> FileType] /\ torn' \in BOOLEAN
  BY <1>2 DEF TypeOK
<1>8. TypeOK' /\ Others(j)
  BY <1>2, <1>4, <1>5, <1>6, <1>7, StepSafe
<1> QED BY <1>2, <1>8 DEF Frame

LEMMA FrontendRejectsSafe ==
    ASSUME TypeOK, NEW j \in Jobs, FrontendRejects(j)
    PROVE  TypeOK' /\ Others(j) /\ Frame(j)
<1>1. UNCHANGED <<fs, src, printed, seen, unseen, linked, torn, fixed>>
  BY DEF FrontendRejects
<1>2. pc' = [pc EXCEPT ![j] = "exit"] /\ rc' = [rc EXCEPT ![j] = "failed"]
  BY DEF FrontendRejects, Return, Goto
<1>3. "exit" \in PcType /\ Fits("exit", j)
  BY DEF PcType, Fits
<1>4. fs' \in [Files -> FileType] /\ torn' \in BOOLEAN
  BY <1>1 DEF TypeOK
<1>5. TypeOK' /\ Others(j)
  BY <1>1, <1>2, <1>3, <1>4, StepSafe
<1> QED BY <1>1, <1>5 DEF Frame

LEMMA EmitToStdoutSafe ==
    ASSUME TypeOK, NEW j \in Jobs, EmitToStdout(j)
    PROVE  TypeOK' /\ Others(j) /\ Frame(j)
<1> DEFINE il == Made("qbe", src[j])
<1>1. UNCHANGED <<fs, src, seen, linked, torn, fixed>>
  BY DEF EmitToStdout
<1>2. PICK got \in {il, Cut(il)} :
         /\ printed' = [printed EXCEPT ![j] = got]
         /\ \/ Return(j, "failed") /\ unseen' = unseen
            \/ Return(j, "ok") /\ Unchecked(j, il, got, {"write"})
  BY DEF EmitToStdout
<1>3. il \in FileType
  BY MadeType DEF TypeOK, Stages
<1> HIDE DEF il
<1>4. /\ got \in FileType
      /\ unseen' = unseen \/ unseen' = [unseen EXCEPT ![j] = TRUE]
  <2>1. got \in FileType
    <3>1. Cut(il) \in FileType
      BY <1>3 DEF Cut, File, FileType
    <3> QED BY <1>2, <1>3, <3>1
  <2>2. unseen' = unseen \/ unseen' = [unseen EXCEPT ![j] = TRUE]
    BY <1>2, <1>3, UncheckedSafe
  <2> QED BY <2>1, <2>2
<1>5. PICK r \in {"ok", "failed"} :
         pc' = [pc EXCEPT ![j] = "exit"] /\ rc' = [rc EXCEPT ![j] = r]
  BY <1>2 DEF Return, Goto
<1>6. "exit" \in PcType /\ Fits("exit", j)
  BY DEF PcType, Fits
<1>7. fs' \in [Files -> FileType] /\ torn' \in BOOLEAN
  BY <1>1 DEF TypeOK
<1>8. TypeOK' /\ Others(j)
  BY <1>1, <1>2, <1>4, <1>5, <1>6, <1>7, StepSafe
<1> QED BY <1>1, <1>8 DEF Frame

LEMMA EmitToFileSafe ==
    ASSUME TypeOK, NEW j \in Jobs, EmitToFile(j)
    PROVE  TypeOK' /\ Others(j) /\ Frame(j)
<1> DEFINE p == Derive(in(j), ".qbe")
<1>1. UNCHANGED <<src, printed, seen, linked, torn, fixed>>
  BY DEF EmitToFile
<1>2. p \in Files /\ p \in Written(cmd[j]) /\ src[j] \in FileType
  BY PathsOf DEF TypeOK
<1>3. mode(j) \in {"S", "c", "link"}
  BY PathsOf DEF EmitToFile, mode, Modes
<1>4. \E f \in FileType : fs' = fs \/ fs' = [fs EXCEPT ![p] = f]
  <2>1. Part \in FileType /\ Made("qbe", src[j]) \in FileType
    BY <1>2, NoFileType, MadeType DEF Stages
  <2>2. File("qbe", src[j].from, FALSE) \in FileType
    BY <1>2 DEF File, FileType, Stages
  <2>3. \/ fs' = fs \/ fs' = [fs EXCEPT ![p] = Part]
        \/ fs' = [fs EXCEPT ![p] = Made("qbe", src[j])]
        \/ fs' = [fs EXCEPT ![p] = File("qbe", src[j].from, FALSE)]
    BY DEF EmitToFile
  <2> HIDE DEF p
  <2> QED BY <2>1, <2>2, <2>3
<1>5. \/ Return(j, "failed") /\ unseen' = unseen
      \/ Goto(j, "qbe") /\ rc' = rc /\ unseen' = unseen
      \/ Goto(j, "qbe") /\ rc' = rc /\ unseen' = [unseen EXCEPT ![j] = TRUE]
  BY DEF EmitToFile
<1>6. PICK l \in {"exit", "qbe"} : pc' = [pc EXCEPT ![j] = l]
  BY <1>5 DEF Return, Goto
<1>7. l \in PcType /\ Fits(l, j)
  BY <1>3 DEF PcType, Fits
<1>8. rc' = rc \/ \E r \in {"ok", "failed", "killed"} : rc' = [rc EXCEPT ![j] = r]
  BY <1>5 DEF Return
<1> HIDE DEF p
<1>9. fs' \in [Files -> FileType] /\ torn' \in BOOLEAN
  BY <1>1, <1>2, <1>4 DEF TypeOK
<1>10. TypeOK' /\ Others(j)
  BY <1>1, <1>5, <1>6, <1>7, <1>8, <1>9, StepSafe
<1>11. Frame(j)
  BY <1>2, <1>4 DEF Frame, TypeOK
<1> QED BY <1>10, <1>11

LEMMA RenameSafe ==
    ASSUME TypeOK, NEW j \in Jobs, Rename(j)
    PROVE  TypeOK' /\ Others(j) /\ Frame(j)
<1> DEFINE from == Derive(in(j), IF mode(j) = "S" THEN ".s" ELSE ".o")
           to   == cmd[j].output
<1>1. UNCHANGED <<src, printed, seen, linked, torn, fixed>>
  BY DEF Rename
<1>2. mode(j) \in {"S", "c"}
  BY DEF Rename, At, TypeOK
<1>3. from \in Files /\ from \in Written(cmd[j])
  BY PathsOf
<1>4. to # NoPath => to = Artifact(cmd[j])
  BY DEF Artifact
<1>5. to # NoPath => to \in Files /\ to \in Written(cmd[j])
  BY <1>2, <1>4, PathsOf
<1>6. /\ \/ fs' = fs
         \/ to # NoPath /\ fs' = [fs EXCEPT ![to] = fs[from], ![from] = NoFile]
      /\ unseen' = unseen \/ unseen' = [unseen EXCEPT ![j] = TRUE]
  BY DEF Rename
<1>7. pc' = [pc EXCEPT ![j] = "exit"] /\ rc' = [rc EXCEPT ![j] = "ok"]
  BY DEF Rename, Return, Goto
<1>8. "exit" \in PcType /\ Fits("exit", j)
  BY DEF PcType, Fits
<1> HIDE DEF from, to
<1>9. fs' \in [Files -> FileType] /\ torn' \in BOOLEAN
  <2>1. fs \in [Files -> FileType] /\ torn \in BOOLEAN /\ NoFile \in FileType
    BY NoFileType DEF TypeOK
  <2> QED BY <2>1, <1>1, <1>3, <1>5, <1>6
<1>10. TypeOK' /\ Others(j)
  BY <1>1, <1>6, <1>7, <1>8, <1>9, StepSafe
<1>11. Frame(j)
  <2>1. fs \in [Files -> FileType]
    BY DEF TypeOK
  <2>2. ASSUME NEW q \in Files, fs'[q] # fs[q] PROVE (q = to /\ to # NoPath) \/ q = from
    BY <2>1, <2>2, <1>3, <1>5, <1>6
  <2> QED BY <2>2, <1>3, <1>5 DEF Frame
<1> QED BY <1>10, <1>11

LEMMA CopyBeginSafe ==
    ASSUME TypeOK, NEW j \in Jobs, CopyBegin(j)
    PROVE  TypeOK' /\ Others(j) /\ Frame(j)
<1>1. UNCHANGED <<fs, src, printed, seen, unseen, linked, fixed>>
  BY DEF CopyBegin
<1>2. mode(j) = "link"
  BY DEF CopyBegin, At, TypeOK
<1>3. \/ Return(j, "ok") /\ torn' = torn
      \/ Goto(j, "open") /\ rc' = rc /\ torn' = (torn \/ Raced(j))
  BY DEF CopyBegin
<1>4. PICK l \in {"exit", "open"} : pc' = [pc EXCEPT ![j] = l]
  BY <1>3 DEF Return, Goto
<1>5. l \in PcType /\ Fits(l, j)
  BY <1>2 DEF PcType, Fits
<1>6. rc' = rc \/ \E r \in {"ok", "failed", "killed"} : rc' = [rc EXCEPT ![j] = r]
  BY <1>3 DEF Return
<1>7. fs' \in [Files -> FileType] /\ torn' \in BOOLEAN
  BY <1>1, <1>3 DEF TypeOK
<1>8. TypeOK' /\ Others(j)
  BY <1>1, <1>4, <1>5, <1>6, <1>7, StepSafe
<1> QED BY <1>1, <1>8 DEF Frame

LEMMA CopyOpenSafe ==
    ASSUME TypeOK, NEW j \in Jobs, CopyOpen(j)
    PROVE  TypeOK' /\ Others(j) /\ Frame(j)
<1>1. UNCHANGED <<src, printed, seen, unseen, rc, linked, torn, fixed>>
  BY DEF CopyOpen
<1>2. pc[j] = "open" /\ mode(j) = "link"
  BY DEF CopyOpen, At, TypeOK
<1>3. fs' = [fs EXCEPT ![Dll(cmd[j])] = Part] /\ pc' = [pc EXCEPT ![j] = "copy"]
  BY DEF CopyOpen, Goto
<1>4. "copy" \in PcType /\ Fits("copy", j)
  BY <1>2 DEF PcType, Fits
<1>5. fs' \in [Files -> FileType] /\ torn' \in BOOLEAN
  BY <1>1, <1>3, NoFileType DEF TypeOK
<1>6. TypeOK' /\ Others(j)
  BY <1>1, <1>3, <1>4, <1>5, StepSafe
<1>7. Frame(j)
  BY <1>2, <1>3 DEF Frame, TypeOK
<1> QED BY <1>6, <1>7

LEMMA CopyWriteSafe ==
    ASSUME TypeOK, NEW j \in Jobs, CopyWrite(j)
    PROVE  TypeOK' /\ Others(j) /\ Frame(j)
<1>1. UNCHANGED <<src, printed, seen, unseen, linked, fixed>>
  BY DEF CopyWrite
<1>2. pc[j] = "copy"
  BY DEF CopyWrite, At
<1>3. /\ \/ fs' = fs
         \/ fs' = [fs EXCEPT ![Dll(cmd[j])] = File("dll", NoVersion, TRUE)]
      /\ torn' = torn \/ torn' = TRUE
  BY DEF CopyWrite
<1>4. pc' = [pc EXCEPT ![j] = "exit"] /\ rc' = [rc EXCEPT ![j] = "ok"]
  BY DEF CopyWrite, Return, Goto
<1>5. "exit" \in PcType /\ Fits("exit", j)
  BY DEF PcType, Fits
<1>6. fs' \in [Files -> FileType] /\ torn' \in BOOLEAN
  BY <1>3, NoFileType DEF TypeOK
<1>7. TypeOK' /\ Others(j)
  BY <1>1, <1>4, <1>5, <1>6, StepSafe
<1>8. Frame(j)
  BY <1>2, <1>3 DEF Frame, TypeOK
<1> QED BY <1>7, <1>8

(* A kill leaves at most the file that the tool was writing in any shape.  *)
LEMMA WritingOwn ==
    ASSUME TypeOK, NEW j \in Jobs, NEW p \in Writing(j)
    PROVE  /\ p \in Files /\ p \in Written(cmd[j])
           /\ pc[j] # "link" => p \in Intermediates(cmd[j])
<1>1. \/ p \in {Derive(in(j), e) : e \in {".i", ".qbe", ".s", ".o"}}
      \/ pc[j] = "link" /\ p = Exe(cmd[j])
  BY DEF Writing, At
<1>2. pc[j] = "link" => mode(j) = "link"
  BY DEF TypeOK
<1> QED BY <1>1, <1>2, PathsOf

LEMMA KilledSafe ==
    ASSUME TypeOK, NEW j \in Jobs, Killed(j)
    PROVE  TypeOK' /\ Others(j) /\ Frame(j)
<1>1. UNCHANGED <<src, printed, seen, unseen, linked, fixed>>
  BY DEF Killed
<1>2. fs' = fs \/ \E p \in Writing(j) : fs' \in Spoiled(p)
  BY DEF Killed
<1>3. fs \in [Files -> FileType]
  BY DEF TypeOK
<1>4. /\ fs' \in [Files -> FileType]
      /\ \A q \in Files : fs'[q] # fs[q] => q \in Written(cmd[j])
  <2>1. CASE fs' = fs
    BY <2>1, <1>3
  <2>2. ASSUME NEW p \in Writing(j), fs' \in Spoiled(p)
        PROVE  <1>4!1 /\ <1>4!2
    <3>1. p \in Files /\ p \in Written(cmd[j])
      BY WritingOwn
    <3> QED BY <1>3, <2>2, <3>1, SpoiledType
  <2> QED BY <1>2, <2>1, <2>2
<1>5. pc' = [pc EXCEPT ![j] = "exit"] /\ rc' = [rc EXCEPT ![j] = "killed"]
  BY DEF Killed, Return, Goto
<1>6. "exit" \in PcType /\ Fits("exit", j)
  BY DEF PcType, Fits
<1>7. torn' \in BOOLEAN
  BY DEF Killed, TypeOK
<1>8. TypeOK' /\ Others(j)
  BY <1>1, <1>4, <1>5, <1>6, <1>7, StepSafe
<1> QED BY <1>4, <1>8 DEF Frame

(* Together: a step of a run keeps the types and changes its own files.    *)
LEMMA RunStepSafe ==
    ASSUME TypeOK, NEW j \in Jobs, Step(j) \/ Killed(j)
    PROVE  TypeOK' /\ Others(j) /\ Frame(j)
BY PreprocessSafe, ReadBackSafe, FrontendRejectsSafe, EmitToStdoutSafe, EmitToFileSafe,
   QbeSafe, AsSafe, RenameSafe, LinkSafe, CopyBeginSafe, CopyOpenSafe, CopyWriteSafe,
   KilledSafe DEF Step

LEMMA StartSafe ==
    ASSUME TypeOK, NEW j \in Jobs, NEW c \in Commands, Start(j, c)
    PROVE  TypeOK' /\ fs' = fs
<1>1. /\ cmd' = [cmd EXCEPT ![j] = c] /\ runs' = [runs EXCEPT ![j] = @ + 1]
      /\ pc' = [pc EXCEPT ![j] = "cpp"] /\ rc' = [rc EXCEPT ![j] = "none"]
      /\ src' = [src EXCEPT ![j] = NoFile] /\ printed' = [printed EXCEPT ![j] = NoFile]
      /\ linked' = [linked EXCEPT ![j] = <<>>] /\ seen' = [seen EXCEPT ![j] = NoFile]
      /\ unseen' = [unseen EXCEPT ![j] = FALSE]
      /\ c \in plan.commands /\ runs[j] < plan.runs[j]
      /\ UNCHANGED <<plan, fs, present, edits, torn>>
  BY DEF Start, Goto
<1>2. clash' \in [Jobs -> BOOLEAN]
  <2>1. clash' = [k \in Jobs |->
          IF k = j THEN \E o \in Jobs \ {j} : Running(o) /\ Conflict(c, cmd[o])
          ELSE clash[k] \/ (Running(k) /\ Conflict(c, cmd[k]))]
    BY DEF Start
  <2>2. \A k \in Jobs : clash[k] \in BOOLEAN
    BY DEF TypeOK
  <2>3. \A k \in Jobs : clash'[k] \in BOOLEAN
    BY <2>1, <2>2 DEF Running, Conflict
  <2> QED BY <2>1, <2>3
<1>3. FileType' = FileType
  BY <1>1 DEF FileType, Versions
<1>4. /\ fs' \in [Files -> FileType'] /\ plan' \in Plans /\ present' \in plan'.present
      /\ edits' \in [Inputs -> 0 .. plan'.edits]
  BY <1>1, <1>3 DEF TypeOK
<1>5. src' \in [Jobs -> FileType'] /\ printed' \in [Jobs -> FileType'] /\ seen' \in [Jobs -> FileType']
  <2>1. /\ src \in [Jobs -> FileType] /\ printed \in [Jobs -> FileType]
        /\ seen \in [Jobs -> FileType]
    BY DEF TypeOK
  <2>2. src' \in [Jobs -> FileType] /\ printed' \in [Jobs -> FileType]
    BY <1>1, <2>1, NoFileType
  <2>3. seen' \in [Jobs -> FileType]
    BY <1>1, <2>1, NoFileType
  <2> QED BY <1>3, <2>2, <2>3
<1>6. /\ cmd' \in [Jobs -> plan'.commands]
      /\ rc' \in [Jobs -> {"none", "ok", "failed", "killed"}]
      /\ unseen' \in [Jobs -> BOOLEAN] /\ torn' \in BOOLEAN
  BY <1>1 DEF TypeOK
<1>7. linked' \in [Jobs -> Seq(Objects)]
  <2>1. linked \in [Jobs -> Seq(Objects)]
    BY DEF TypeOK
  <2>2. <<>> \in Seq(Objects)
    OBVIOUS
  <2> QED BY <1>1, <2>1, <2>2
<1>8. runs' \in [Jobs -> Nat] /\ \A k \in Jobs : runs'[k] <= plan'.runs[k]
  <2>1. /\ runs \in [Jobs -> Nat] /\ plan.runs \in [Jobs -> Nat]
        /\ \A k \in Jobs : runs[k] <= plan.runs[k]
    BY DriverAssumption DEF TypeOK
  <2> QED BY <1>1, <2>1
<1>9. pc' \in [Jobs -> PcType]
  BY <1>1 DEF TypeOK, PcType
<1>10. ASSUME NEW k \in Jobs
       PROVE  /\ pc'[k] = "qbe" => mode(k)' \in {"S", "c", "link"}
              /\ pc'[k] = "as" => mode(k)' \in {"c", "link"}
              /\ pc'[k] = "rename" => mode(k)' \in {"S", "c"}
              /\ pc'[k] \in {"link", "dll", "open", "copy"} => mode(k)' = "link"
  <2>1. CASE k = j
    BY <1>1, <2>1 DEF TypeOK
  <2>2. CASE k # j
    <3>1. pc'[k] = pc[k] /\ mode(k)' = mode(k)
      BY <1>1, <2>2 DEF TypeOK, mode
    <3> QED BY <3>1 DEF TypeOK
  <2> QED BY <2>1, <2>2
<1> QED BY <1>1, <1>2, <1>4, <1>5, <1>6, <1>7, <1>8, <1>9, <1>10 DEF TypeOK, PcType

LEMMA EditSafe ==
    ASSUME TypeOK, NEW p \in Inputs, Edit(p)
    PROVE  TypeOK'
<1>1. /\ edits' = [edits EXCEPT ![p] = @ + 1] /\ edits[p] < plan.edits
      /\ fs' = [fs EXCEPT ![p] = File("src", <<p, edits[p] + 1>>, TRUE)]
      /\ UNCHANGED <<pc, cmd, src, rc, printed, linked, runs, seen, unseen, torn, present, plan>>
      /\ clash' = [j \in Jobs |-> clash[j] \/ (Running(j) /\ p \in Written(cmd[j]))]
  BY DEF Edit
<1>2. clash' \in [Jobs -> BOOLEAN]
  BY <1>1 DEF TypeOK, Running
<1>3. plan.edits \in Nat /\ edits \in [Inputs -> 0 .. plan.edits]
  BY DriverAssumption DEF TypeOK
<1>4. FileType' = FileType
  BY <1>1 DEF FileType, Versions
<1>5. File("src", <<p, edits[p] + 1>>, TRUE) \in FileType
  <2>1. edits[p] + 1 \in 0 .. plan.edits
    BY <1>1, <1>3
  <2>2. <<p, edits[p] + 1>> \in Versions
    BY <2>1 DEF Versions
  <2>3. "src" \in Stages
    BY DEF Stages
  <2> QED BY <2>2, <2>3 DEF File, FileType
<1>6. fs' \in [Files -> FileType']
  BY <1>1, <1>4, <1>5 DEF TypeOK
<1>7. edits' \in [Inputs -> 0 .. plan'.edits]
  BY <1>1, <1>3
<1>8. \A k \in Jobs : pc'[k] = pc[k] /\ mode(k)' = mode(k)
  BY <1>1 DEF mode
<1>9. /\ src' \in [Jobs -> FileType'] /\ printed' \in [Jobs -> FileType']
      /\ seen' \in [Jobs -> FileType']
  BY <1>1, <1>4 DEF TypeOK
<1> QED BY <1>1, <1>2, <1>6, <1>7, <1>8, <1>9 DEF TypeOK

LEMMA InitSafe == Init => TypeOK
<1> SUFFICES ASSUME Init PROVE TypeOK
  OBVIOUS
<1>1. plan \in Plans /\ present \in plan.present
  BY DEF Init
<1>2. plan.commands # {} /\ plan.runs \in [Jobs -> Nat] /\ plan.edits \in Nat
  BY <1>1, DriverAssumption
<1>3. \A p \in Inputs : <<p, 0>> \in Versions /\ 0 \in 0 .. plan.edits
  BY <1>2 DEF Versions
<1>4. \A p \in Inputs : File("src", <<p, 0>>, TRUE) \in FileType
  BY <1>3 DEF File, FileType, Stages
<1>5. fs \in [Files -> FileType]
  BY <1>4, NoFileType DEF Init
<1>6. cmd \in [Jobs -> plan.commands]
  BY <1>2 DEF Init
<1>7. src \in [Jobs -> FileType] /\ printed \in [Jobs -> FileType] /\ seen \in [Jobs -> FileType]
  BY NoFileType DEF Init
<1>8. linked \in [Jobs -> Seq(Objects)]
  <2>1. <<>> \in Seq(Objects)
    OBVIOUS
  <2> QED BY <2>1 DEF Init
<1>9. runs \in [Jobs -> Nat] /\ \A k \in Jobs : runs[k] <= plan.runs[k]
  BY <1>2 DEF Init
<1>10. edits \in [Inputs -> 0 .. plan.edits]
  BY <1>3 DEF Init
<1>11. \A k \in Jobs : pc[k] = "idle"
  BY DEF Init
<1>12. /\ pc \in [Jobs -> PcType] /\ rc \in [Jobs -> {"none", "ok", "failed", "killed"}]
       /\ unseen \in [Jobs -> BOOLEAN] /\ clash \in [Jobs -> BOOLEAN] /\ torn \in BOOLEAN
  BY DEF Init, PcType
<1> QED BY <1>1, <1>5, <1>6, <1>7, <1>8, <1>9, <1>10, <1>11, <1>12 DEF TypeOK, PcType

LEMMA StutterType ==
    ASSUME TypeOK, UNCHANGED vars
    PROVE  TypeOK'
<1>1. FileType' = FileType
  BY DEF FileType, Versions, vars
<1>2. \A k \in Jobs : mode(k)' = mode(k)
  BY DEF mode, vars
<1> QED BY <1>1, <1>2 DEF TypeOK, vars

LEMMA NextType ==
    ASSUME TypeOK, [Next]_vars
    PROVE  TypeOK'
BY RunStepSafe, StartSafe, EditSafe, StutterType DEF Next

(* The variables of the driver keep their types, and a tool is only waited *)
(* for by a command that needs it, for every plan.                         *)
THEOREM DriverTypes == Spec => []TypeOK
<1>1. Init => TypeOK
  BY InitSafe
<1>2. TypeOK /\ [Next]_vars => TypeOK'
  BY NextType
<1> QED BY <1>1, <1>2, PTL DEF Spec

-----------------------------------------------------------------------------
(* What a run leaves alone.                                                *)

Early == {"cpp", "read", "front", "qbe", "as"}

(* A step of a run before its last stage writes an intermediate or nothing.*)
LEMMA EarlyStep ==
    ASSUME TypeOK, NEW j \in Jobs, pc[j] \in Early, Step(j) \/ Killed(j),
           NEW p \in Files \ Intermediates(cmd[j])
    PROVE  fs'[p] = fs[p]
<1>1. \A e \in {".i", ".qbe", ".s", ".o"} :
         Derive(in(j), e) \in Files /\ p # Derive(in(j), e)
  BY PathsOf
<1>2. CASE Preprocess(j)
  BY <1>1, <1>2, ToolType, PathsOf DEF Preprocess, Stages, PcType
<1>3. CASE ReadBack(j) \/ FrontendRejects(j) \/ EmitToStdout(j)
  BY <1>3 DEF ReadBack, FrontendRejects, EmitToStdout
<1>4. CASE EmitToFile(j)
  <2>1. \E f : fs' = fs \/ fs' = [fs EXCEPT ![Derive(in(j), ".qbe")] = f]
    BY <1>4 DEF EmitToFile
  <2> QED BY <1>1, <2>1 DEF TypeOK
<1>5. CASE Qbe(j)
  <2>1. PICK next \in PcType : Tool(j, Derive(in(j), ".qbe"), Derive(in(j), ".s"), "s", next)
    BY <1>5 DEF Qbe, PcType
  <2>2. "s" \in Stages
    BY DEF Stages
  <2> QED BY <1>1, <2>1, <2>2, ToolType
<1>6. CASE As(j)
  <2>1. PICK next \in PcType : Tool(j, Derive(in(j), ".s"), Derive(in(j), ".o"), "o", next)
    BY <1>6 DEF As, PcType
  <2>2. "o" \in Stages
    BY DEF Stages
  <2> QED BY <1>1, <2>1, <2>2, ToolType
<1>7. CASE Rename(j) \/ Link(j) \/ CopyBegin(j) \/ CopyOpen(j) \/ CopyWrite(j)
  BY <1>7 DEF Rename, Link, CopyBegin, CopyOpen, CopyWrite, At, Early
<1>8. CASE Killed(j)
  <2>1. CASE fs' = fs
    BY <2>1
  <2>2. ASSUME NEW q \in Writing(j), fs' \in Spoiled(q) PROVE fs'[p] = fs[p]
    <3>1. q \in Files /\ q \in Intermediates(cmd[j])
      BY WritingOwn DEF Early
    <3> QED BY <2>2, <3>1, SpoiledType DEF TypeOK
  <2> QED BY <1>8, <2>1, <2>2 DEF Killed
<1> QED BY <1>2, <1>3, <1>4, <1>5, <1>6, <1>7, <1>8 DEF Step

(* The program counter of a run moves in its own steps, and a run that is  *)
(* under way is not started.                                               *)
LEMMA OwnStep ==
    ASSUME TypeOK, [Next]_vars, NEW j \in Jobs, Running(j), pc'[j] # pc[j]
    PROVE  Step(j) \/ Killed(j)
<1>1. Next
  BY DEF vars
<1>2. ASSUME NEW o \in Jobs, Step(o) \/ Killed(o) PROVE o = j
  BY <1>2, RunStepSafe DEF Others
<1>3. ASSUME NEW o \in Jobs, NEW c \in Commands, Start(o, c) PROVE FALSE
  <2>1. pc' = [pc EXCEPT ![o] = "cpp"] /\ ~Running(o)
    BY <1>3 DEF Start, Goto
  <2> QED BY <2>1 DEF TypeOK
<1>4. ASSUME NEW q \in Inputs, Edit(q) PROVE FALSE
  BY <1>4 DEF Edit
<1> QED BY <1>1, <1>2, <1>3, <1>4 DEF Next

LEMMA EarlyUntouched ==
    ASSUME TypeOK, [Next]_vars, NEW j \in Jobs, pc[j] \in Early, pc'[j] # pc[j],
           NEW p \in Files \ Intermediates(cmd[j])
    PROVE  fs'[p] = fs[p]
<1>1. Running(j)
  BY DEF Running, Early
<1> QED BY <1>1, OwnStep, EarlyStep

(* Until its last stage a run touches no file but its own intermediates,   *)
(* whatever fails or is killed and however many compilers there are.       *)
THEOREM RunsTouchOnlyIntermediates == Spec => OnlyIntermediates
<1>1. TypeOK /\ [Next]_vars =>
        [\A j \in Jobs : pc[j] \in {"cpp", "read", "front", "qbe", "as"} /\ pc'[j] # pc[j]
            => \A p \in Files \ Intermediates(cmd[j]) : fs'[p] = fs[p]]_vars
  BY EarlyUntouched DEF Early
<1>2. Spec => []TypeOK
  BY DriverTypes
<1> QED BY <1>1, <1>2, PTL DEF Spec, OnlyIntermediates

-----------------------------------------------------------------------------
(* What a run delivers.                                                    *)

(* What a run at the stage l holds of the input as it was read: the file   *)
(* that the next tool takes, or the text in memory.                        *)
Carried(l, files, text, from, c) ==
    /\ l = "read" => files[Derive(c.input, ".i")] = Made("i", from)
    /\ l = "front" => text = Made("i", from)
    /\ l = "qbe" => files[Derive(c.input, ".qbe")] = Made("qbe", from)
    /\ l = "as" \/ (l = "rename" /\ c.mode = "S")
          => files[Derive(c.input, ".s")] = Made("s", from)
    /\ l = "link" \/ (l = "rename" /\ c.mode = "c")
          => files[Derive(c.input, ".o")] = Made("o", from)
    /\ l \in {"dll", "open", "copy"} => files[Exe(c)] = Made("exe", from)
    /\ l \in {"open", "copy"} => Dll(c) # Exe(c)

Carries(j) == Carried(pc[j], fs, src[j], seen[j], cmd[j])

(* The inductive invariant: a run under way to which nothing happened that *)
(* the code does not look at carries what it read, and what other runs     *)
(* under way write and what it uses have nothing in common.                *)
Flows == \A j \in Jobs : Running(j) /\ ~unseen[j] /\ ~clash[j] => Carries(j)

Apart ==
    \A j, o \in Jobs : j # o /\ Running(j) /\ Running(o) /\ ~clash[j]
        => ~Conflict(cmd[j], cmd[o])

Inv == TypeOK /\ Flows /\ Apart

(* A step that makes a run succeed delivers, and any other leaves it with  *)
(* what it carried.                                                        *)
Kept(j) ==
    /\ Running(j)' => Carries(j)'
    /\ Succeeds(j) => Delivered(j)'

LEMMA PreprocessKeeps ==
    ASSUME TypeOK, NEW j \in Jobs, Preprocess(j)
    PROVE  Kept(j)
<1>1. Tool(j, in(j), Derive(in(j), ".i"), "i", "read")
      /\ seen' = [seen EXCEPT ![j] = fs[in(j)]] /\ cmd' = cmd
  BY DEF Preprocess, fixed
<1>2. "i" \in Stages /\ "read" \in PcType
  BY DEF Stages, PcType
<1>3. \/ /\ fs'[Derive(in(j), ".i")] = Made("i", fs[in(j)])
         /\ pc' = [pc EXCEPT ![j] = "read"] /\ rc' = rc
      \/ pc' = [pc EXCEPT ![j] = "exit"] /\ rc' = [rc EXCEPT ![j] = "failed"]
  BY <1>1, <1>2, ToolType, PathsOf
<1>4. seen'[j] = fs[in(j)]
  BY <1>1 DEF TypeOK
<1>5. CASE /\ fs'[Derive(in(j), ".i")] = Made("i", fs[in(j)])
           /\ pc' = [pc EXCEPT ![j] = "read"] /\ rc' = rc
  <2>1. pc'[j] = "read"
    BY <1>5 DEF TypeOK
  <2>2. Carried("read", fs', src'[j], seen'[j], cmd[j])
    BY <1>4, <1>5 DEF Carried, in
  <2>3. ~Succeeds(j)
    BY <1>5 DEF Succeeds
  <2> QED BY <1>1, <2>1, <2>2, <2>3 DEF Kept, Carries
<1>6. CASE pc' = [pc EXCEPT ![j] = "exit"] /\ rc' = [rc EXCEPT ![j] = "failed"]
  BY <1>6 DEF Kept, Running, Succeeds, TypeOK
<1> QED BY <1>3, <1>5, <1>6

(* A run that ends otherwise than with 0 has nothing to keep.              *)
LEMMA FailureKeeps ==
    ASSUME TypeOK, NEW j \in Jobs, NEW r \in {"failed", "killed"},
           pc' = [pc EXCEPT ![j] = "exit"], rc' = [rc EXCEPT ![j] = r]
    PROVE  Kept(j)
BY DEF Kept, Running, Succeeds, TypeOK

LEMMA ReadBackKeeps ==
    ASSUME TypeOK, NEW j \in Jobs, ReadBack(j), Carries(j), ~unseen'[j]
    PROVE  Kept(j)
<1> DEFINE f == fs[Derive(in(j), ".i")]
<1>1. f = Made("i", seen[j]) /\ pc[j] = "read" /\ f \in FileType
  BY PathsOf DEF ReadBack, At, Carries, Carried, in, TypeOK
<1>2. UNCHANGED <<fs, seen>> /\ cmd' = cmd
  BY DEF ReadBack, fixed
<1>3. CASE Return(j, "failed")
  BY <1>3, FailureKeeps DEF Return, Goto
<1>4. CASE mode(j) = "E" /\ printed' = [printed EXCEPT ![j] = f] /\ Return(j, "ok")
  <2>1. printed'[j] = Made("i", seen[j]) /\ mode(j)' = "E"
    BY <1>1, <1>2, <1>4 DEF TypeOK, mode
  <2>2. Delivered(j)'
    BY <2>1, <1>2 DEF Delivered, Output, StageOf
  <2>3. ~Running(j)'
    BY <1>4 DEF Running, Return, Goto, TypeOK
  <2> QED BY <2>2, <2>3 DEF Kept
<1>5. CASE src' = [src EXCEPT ![j] = f] /\ Goto(j, "front") /\ rc' = rc
  <2>1. pc'[j] = "front" /\ src'[j] = Made("i", seen[j])
    BY <1>1, <1>5 DEF Goto, TypeOK
  <2>2. Carried("front", fs', src'[j], seen'[j], cmd[j])
    BY <1>2, <2>1 DEF Carried
  <2>3. ~Succeeds(j)
    BY <1>5 DEF Succeeds
  <2> QED BY <1>2, <2>1, <2>2, <2>3 DEF Kept, Carries
<1>6. \/ Return(j, "failed")
      \/ /\ mode(j) = "E" /\ Return(j, "ok")
         /\ \E got : /\ Unchecked(j, f, got, {"read", "write"})
                    /\ printed' = [printed EXCEPT ![j] = got]
      \/ /\ Goto(j, "front") /\ rc' = rc
         /\ \E got : /\ Unchecked(j, f, got, {"read"})
                    /\ src' = [src EXCEPT ![j] = got]
  BY DEF ReadBack
<1> HIDE DEF f
<1> QED BY <1>1, <1>3, <1>4, <1>5, <1>6, UncheckedSafe

LEMMA EmitToStdoutKeeps ==
    ASSUME TypeOK, NEW j \in Jobs, EmitToStdout(j), Carries(j), ~unseen'[j]
    PROVE  Kept(j)
<1>1. src[j] = Made("i", seen[j]) /\ mode(j) = "qbe"
  BY DEF EmitToStdout, At, Carries, Carried
<1> DEFINE il == Made("qbe", src[j])
<1>2. PICK got \in {il, Cut(il)} :
         /\ printed' = [printed EXCEPT ![j] = got]
         /\ \/ Return(j, "failed") /\ unseen' = unseen
            \/ Return(j, "ok") /\ Unchecked(j, il, got, {"write"})
  BY DEF EmitToStdout
<1>3. CASE Return(j, "failed")
  BY <1>3, FailureKeeps DEF Return, Goto
<1>4. CASE Return(j, "ok") /\ Unchecked(j, il, got, {"write"})
  <2> il \in FileType
    BY MadeType DEF TypeOK, Stages
  <2>1. printed'[j] = Made("qbe", src[j])
    <3>1. got = il
      <4> HIDE DEF il
      <4> QED BY <1>4, UncheckedSafe
    <3> QED BY <1>2, <3>1 DEF TypeOK
  <2>2. printed'[j] = Made("qbe", seen[j])
    BY <2>1, <1>1, MadeTwice
  <2>3. mode(j)' = "qbe" /\ seen'[j] = seen[j]
    BY <1>1 DEF EmitToStdout, fixed, mode
  <2>4. Delivered(j)'
    BY <2>2, <2>3 DEF Delivered, Output, StageOf
  <2>5. ~Running(j)'
    BY <1>4 DEF Running, Return, Goto, TypeOK
  <2> QED BY <2>4, <2>5 DEF Kept
<1> QED BY <1>2, <1>3, <1>4

LEMMA EmitToFileKeeps ==
    ASSUME TypeOK, NEW j \in Jobs, EmitToFile(j), Carries(j), ~unseen'[j]
    PROVE  Kept(j)
<1> DEFINE p == Derive(in(j), ".qbe")
<1>1. src[j] = Made("i", seen[j]) /\ cmd' = cmd /\ seen' = seen
  BY DEF EmitToFile, At, Carries, Carried, fixed
<1>2. p \in Files
  BY PathsOf
<1>3. CASE Return(j, "failed")
  BY <1>3, FailureKeeps DEF Return, Goto
<1>4. CASE fs' = [fs EXCEPT ![p] = Made("qbe", src[j])] /\ Goto(j, "qbe") /\ rc' = rc
  <2>1. fs'[p] = Made("qbe", seen[j])
    BY <1>1, <1>2, <1>4, MadeTwice DEF TypeOK
  <2>2. pc'[j] = "qbe"
    BY <1>4 DEF Goto, TypeOK
  <2>3. Carried("qbe", fs', src'[j], seen'[j], cmd[j])
    BY <1>1, <2>1 DEF Carried, in
  <2>4. ~Succeeds(j)
    BY <1>4 DEF Succeeds
  <2> QED BY <1>1, <2>2, <2>3, <2>4 DEF Kept, Carries
<1>5. CASE unseen' = [unseen EXCEPT ![j] = TRUE]
  BY <1>5 DEF TypeOK
<1> QED BY <1>3, <1>4, <1>5 DEF EmitToFile

(* A tool that is given what the run carries makes the next file of it.    *)
LEMMA ToolKeeps ==
    ASSUME TypeOK, NEW j \in Jobs, NEW from \in Files, NEW to \in Files,
           NEW stage \in Stages, NEW was, NEW next \in PcType,
           Tool(j, from, to, stage, next),
           fs[from] = Made(was, seen[j]), UNCHANGED <<seen, cmd>>,
           fs'[to] = Made(stage, seen[j]) => Carried(next, fs', src'[j], seen[j], cmd[j])
    PROVE  Kept(j)
<1>1. \/ /\ fs'[to] = Made(stage, fs[from])
         /\ pc' = [pc EXCEPT ![j] = next] /\ rc' = rc
      \/ pc' = [pc EXCEPT ![j] = "exit"] /\ rc' = [rc EXCEPT ![j] = "failed"]
  BY ToolType
<1>2. CASE /\ fs'[to] = Made(stage, fs[from])
           /\ pc' = [pc EXCEPT ![j] = next] /\ rc' = rc
  <2>1. fs'[to] = Made(stage, seen[j])
    BY <1>2, MadeTwice
  <2>2. pc'[j] = next
    BY <1>2 DEF TypeOK
  <2>3. ~Succeeds(j)
    BY <1>2 DEF Succeeds
  <2> QED BY <2>1, <2>2, <2>3 DEF Kept, Carries
<1>3. CASE pc' = [pc EXCEPT ![j] = "exit"] /\ rc' = [rc EXCEPT ![j] = "failed"]
  BY <1>3, FailureKeeps
<1> QED BY <1>1, <1>2, <1>3

LEMMA QbeKeeps ==
    ASSUME TypeOK, NEW j \in Jobs, Qbe(j), Carries(j)
    PROVE  Kept(j)
<1> DEFINE next == IF mode(j) = "S" THEN "rename" ELSE "as"
<1>1. Tool(j, Derive(in(j), ".qbe"), Derive(in(j), ".s"), "s", next) /\ UNCHANGED <<seen, cmd>>
  BY DEF Qbe, fixed
<1>2. fs[Derive(in(j), ".qbe")] = Made("qbe", seen[j])
  BY DEF Qbe, At, Carries, Carried, in
<1>3. "s" \in Stages /\ next \in PcType
  BY DEF Stages, PcType
<1>4. fs'[Derive(in(j), ".s")] = Made("s", seen[j])
        => Carried(next, fs', src'[j], seen[j], cmd[j])
  BY DEF Carried, in, mode
<1>5. Derive(in(j), ".qbe") \in Files /\ Derive(in(j), ".s") \in Files
  BY PathsOf
<1> HIDE DEF next
<1> QED BY <1>1, <1>2, <1>3, <1>4, <1>5, ToolKeeps

LEMMA AsKeeps ==
    ASSUME TypeOK, NEW j \in Jobs, As(j), Carries(j)
    PROVE  Kept(j)
<1> DEFINE next == IF mode(j) = "c" THEN "rename" ELSE "link"
<1>1. Tool(j, Derive(in(j), ".s"), Derive(in(j), ".o"), "o", next) /\ UNCHANGED <<seen, cmd>>
  BY DEF As, fixed
<1>2. fs[Derive(in(j), ".s")] = Made("s", seen[j])
  BY DEF As, At, Carries, Carried, in
<1>3. "o" \in Stages /\ next \in PcType
  BY DEF Stages, PcType
<1>4. fs'[Derive(in(j), ".o")] = Made("o", seen[j])
        => Carried(next, fs', src'[j], seen[j], cmd[j])
  BY DEF Carried, in, mode
<1>5. Derive(in(j), ".s") \in Files /\ Derive(in(j), ".o") \in Files
  BY PathsOf
<1> HIDE DEF next
<1> QED BY <1>1, <1>2, <1>3, <1>4, <1>5, ToolKeeps

LEMMA LinkKeeps ==
    ASSUME TypeOK, NEW j \in Jobs, Link(j), Carries(j)
    PROVE  Kept(j)
<1>1. UNCHANGED <<seen, cmd>>
  BY DEF Link, fixed
<1>2. CASE Return(j, "failed")
  BY <1>2, FailureKeeps DEF Return, Goto
<1>3. CASE Tool(j, Derive(in(j), ".o"), Exe(cmd[j]), "exe", "dll")
  <2>1. fs[Derive(in(j), ".o")] = Made("o", seen[j])
    BY DEF Link, At, Carries, Carried, in
  <2>2. "exe" \in Stages /\ "dll" \in PcType
    BY DEF Stages, PcType
  <2>3. fs'[Exe(cmd[j])] = Made("exe", seen[j])
          => Carried("dll", fs', src'[j], seen[j], cmd[j])
    BY DEF Carried
  <2>4. Derive(in(j), ".o") \in Files /\ Exe(cmd[j]) \in Files
    BY PathsOf
  <2> QED BY <1>1, <1>3, <2>1, <2>2, <2>3, <2>4, ToolKeeps
<1> QED BY <1>2, <1>3 DEF Link

(* A run that ends with 0 and leaves its output where it was asked for.    *)
LEMMA SuccessKeeps ==
    ASSUME TypeOK, NEW j \in Jobs, pc'[j] = "exit", UNCHANGED <<seen, cmd>>,
           mode(j) \in {"S", "c", "link"},
           fs'[Artifact(cmd[j])] = Made(StageOf(mode(j)), seen[j])
    PROVE  Kept(j)
<1>1. mode(j)' = mode(j) /\ Output(j)' = fs'[Artifact(cmd[j])]
  BY DEF Output, mode
<1>2. Delivered(j)'
  BY <1>1 DEF Delivered
<1> QED BY <1>2 DEF Kept, Running

LEMMA RenameKeeps ==
    ASSUME TypeOK, NEW j \in Jobs, Rename(j), Carries(j), ~unseen'[j]
    PROVE  Kept(j)
<1> DEFINE from == Derive(in(j), IF mode(j) = "S" THEN ".s" ELSE ".o")
           to   == cmd[j].output
<1>1. mode(j) \in {"S", "c"} /\ pc[j] = "rename"
  BY DEF Rename, At, TypeOK
<1>2. fs[from] = Made(StageOf(mode(j)), seen[j])
  BY <1>1 DEF Carries, Carried, StageOf, in, mode
<1>3. Artifact(cmd[j]) = IF to = NoPath THEN from ELSE to
  BY <1>1 DEF Artifact, in, mode
<1>4. UNCHANGED <<seen, cmd>> /\ pc'[j] = "exit"
  BY DEF Rename, fixed, Return, Goto, TypeOK
<1>5. from \in Files /\ (to # NoPath => to \in Files)
  BY <1>3, PathsOf
<1>6. CASE to \in {NoPath, from} /\ fs' = fs
  <2>1. fs'[Artifact(cmd[j])] = Made(StageOf(mode(j)), seen[j])
    BY <1>2, <1>3, <1>6
  <2> QED BY <1>1, <1>4, <2>1, SuccessKeeps
<1>7. CASE to \notin {NoPath, from} /\ fs' = [fs EXCEPT ![to] = fs[from], ![from] = NoFile]
  <2> HIDE DEF from, to
  <2>1. fs'[to] = fs[from]
    BY <1>5, <1>7 DEF TypeOK
  <2>2. fs'[Artifact(cmd[j])] = Made(StageOf(mode(j)), seen[j])
    BY <2>1, <1>2, <1>3, <1>7
  <2> QED BY <1>1, <1>4, <2>2, SuccessKeeps
<1>8. CASE unseen' = [unseen EXCEPT ![j] = TRUE]
  BY <1>8 DEF TypeOK
<1> QED BY <1>6, <1>7, <1>8 DEF Rename

LEMMA CopyBeginKeeps ==
    ASSUME TypeOK, NEW j \in Jobs, CopyBegin(j), Carries(j)
    PROVE  Kept(j)
<1>1. mode(j) = "link" /\ pc[j] = "dll"
  BY DEF CopyBegin, At, TypeOK
<1>2. UNCHANGED <<seen, cmd, fs>>
  BY DEF CopyBegin, fixed
<1>3. fs[Exe(cmd[j])] = Made("exe", seen[j])
  BY <1>1 DEF Carries, Carried
<1>4. Artifact(cmd[j]) = Exe(cmd[j]) /\ StageOf(mode(j)) = "exe"
  BY <1>1 DEF Artifact, Exe, StageOf, mode
<1>5. CASE Return(j, "ok")
  <2>1. pc'[j] = "exit"
    BY <1>5 DEF Return, Goto, TypeOK
  <2> QED BY <1>1, <1>2, <1>3, <1>4, <2>1, SuccessKeeps
<1>6. CASE fs[Dll(cmd[j])] = NoFile /\ Goto(j, "open") /\ rc' = rc
  <2>1. pc'[j] = "open" /\ ~Succeeds(j)
    BY <1>6 DEF Goto, Succeeds, TypeOK
  <2>2. Dll(cmd[j]) # Exe(cmd[j])
    BY <1>3, <1>6 DEF NoFile, Made, File
  <2>3. Carried("open", fs', src'[j], seen'[j], cmd[j])
    BY <1>2, <1>3, <2>2 DEF Carried
  <2> QED BY <1>2, <2>1, <2>3 DEF Kept, Carries
<1> QED BY <1>5, <1>6 DEF CopyBegin

LEMMA CopyOpenKeeps ==
    ASSUME TypeOK, NEW j \in Jobs, CopyOpen(j), Carries(j)
    PROVE  Kept(j)
<1>1. fs[Exe(cmd[j])] = Made("exe", seen[j]) /\ Dll(cmd[j]) # Exe(cmd[j])
  BY DEF CopyOpen, At, Carries, Carried
<1>2. UNCHANGED <<seen, cmd>> /\ rc' = rc /\ pc'[j] = "copy"
  BY DEF CopyOpen, fixed, Goto, TypeOK
<1>3. Exe(cmd[j]) \in Files /\ fs' = [fs EXCEPT ![Dll(cmd[j])] = Part]
  BY PathsOf DEF CopyOpen
<1>4. fs'[Exe(cmd[j])] = fs[Exe(cmd[j])]
  BY <1>1, <1>3 DEF TypeOK
<1>5. Carried("copy", fs', src'[j], seen'[j], cmd[j])
  BY <1>1, <1>2, <1>4 DEF Carried
<1> QED BY <1>2, <1>5 DEF Kept, Carries, Succeeds

LEMMA CopyWriteKeeps ==
    ASSUME TypeOK, NEW j \in Jobs, CopyWrite(j), Carries(j)
    PROVE  Kept(j)
<1>1. fs[Exe(cmd[j])] = Made("exe", seen[j]) /\ Dll(cmd[j]) # Exe(cmd[j])
  BY DEF CopyWrite, At, Carries, Carried
<1>2. mode(j) = "link"
  BY DEF CopyWrite, At, TypeOK
<1>3. UNCHANGED <<seen, cmd>> /\ pc'[j] = "exit"
  BY DEF CopyWrite, fixed, Return, Goto, TypeOK
<1>4. Exe(cmd[j]) \in Files
  BY PathsOf
<1>5. fs' = fs \/ \E f : fs' = [fs EXCEPT ![Dll(cmd[j])] = f]
  BY DEF CopyWrite
<1>6. fs'[Exe(cmd[j])] = fs[Exe(cmd[j])]
  BY <1>1, <1>4, <1>5 DEF TypeOK
<1>7. Artifact(cmd[j]) = Exe(cmd[j]) /\ StageOf(mode(j)) = "exe"
  BY <1>2 DEF Artifact, Exe, StageOf, mode
<1> QED BY <1>1, <1>2, <1>3, <1>6, <1>7, SuccessKeeps

(* Only a run under way takes a step, and its step never clears "unseen".   *)
LEMMA StepRuns ==
    ASSUME TypeOK, NEW j \in Jobs, Step(j) \/ Killed(j)
    PROVE  Running(j) /\ (unseen[j] => unseen'[j])
<1>1. Running(j)
  BY DEF Step, Preprocess, ReadBack, FrontendRejects, EmitToStdout, EmitToFile, Qbe, As,
         Rename, Link, CopyBegin, CopyOpen, CopyWrite, Killed, At, Running
<1>2. unseen' = unseen \/ unseen' = [unseen EXCEPT ![j] = TRUE]
  BY DEF Step, Preprocess, ReadBack, FrontendRejects, EmitToStdout, EmitToFile, Qbe, As,
         Rename, Link, CopyBegin, CopyOpen, CopyWrite, Killed, Unchecked
<1> QED BY <1>1, <1>2 DEF TypeOK

LEMMA OwnKeeps ==
    ASSUME TypeOK, NEW j \in Jobs, Step(j) \/ Killed(j), Carries(j), ~unseen'[j]
    PROVE  Kept(j)
<1>1. CASE Killed(j)
  BY <1>1, FailureKeeps DEF Killed, Return, Goto
<1>2. CASE FrontendRejects(j)
  BY <1>2, FailureKeeps DEF FrontendRejects, Return, Goto
<1> QED BY <1>1, <1>2, PreprocessKeeps, ReadBackKeeps, EmitToStdoutKeeps, EmitToFileKeeps,
           QbeKeeps, AsKeeps, RenameKeeps, LinkKeeps, CopyBeginKeeps, CopyOpenKeeps,
           CopyWriteKeeps DEF Step

(* What a run carries is in files that its command writes.                 *)
LEMMA CarriedInOwn ==
    ASSUME TypeOK, NEW j \in Jobs, Carries(j),
           \A p \in Written(cmd[j]) : fs'[p] = fs[p],
           pc'[j] = pc[j], src'[j] = src[j], seen'[j] = seen[j], cmd'[j] = cmd[j]
    PROVE  Carries(j)'
<1>1. \A e \in {".i", ".qbe", ".s", ".o"} :
          fs'[Derive(cmd[j].input, e)] = fs[Derive(cmd[j].input, e)]
  BY PathsOf DEF in
<1>2. pc[j] \in {"dll", "open", "copy"} => fs'[Exe(cmd[j])] = fs[Exe(cmd[j])]
  BY PathsOf DEF TypeOK
<1>3. Carried(pc[j], fs, src[j], seen[j], cmd[j])
  BY DEF Carries
<1>4. Carried(pc[j], fs', src[j], seen[j], cmd[j])
  BY <1>1, <1>2, <1>3 DEF Carried
<1> QED BY <1>4 DEF Carries

(* Another run that does not conflict with it writes none of them.         *)
LEMMA OthersKeep ==
    ASSUME TypeOK, NEW j \in Jobs, NEW o \in Jobs \ {j}, Step(o) \/ Killed(o),
           Carries(j), ~Conflict(cmd[j], cmd[o])
    PROVE  Carries(j)'
<1>1. Others(o) /\ Frame(o)
  BY RunStepSafe
<1>2. pc[o] \in {"open", "copy"} => cmd[o].mode = "link"
  BY DEF TypeOK, mode
<1>3. cmd[j] \in Commands /\ cmd[o] \in Commands
  BY ModesOfCommands
<1>4. ASSUME NEW p \in Written(cmd[j]) PROVE fs'[p] = fs[p]
  <2>1. p \in Files
    BY <1>3, Paths
  <2>2. p \notin Used(cmd[o])
    BY DEF Conflict
  <2>3. p \notin Written(cmd[o]) /\ (pc[o] \in {"open", "copy"} => p # Dll(cmd[o]))
    BY <1>2, <1>3, <2>2, Paths
  <2> QED BY <1>1, <2>1, <2>3 DEF Frame
<1>5. /\ pc'[j] = pc[j] /\ src'[j] = src[j] /\ seen'[j] = seen[j]
      /\ cmd'[j] = cmd[j]
  BY <1>1 DEF Others
<1> QED BY <1>4, <1>5, CarriedInOwn

LEMMA ConflictSymmetric ==
    ASSUME NEW c, NEW d
    PROVE  Conflict(c, d) <=> Conflict(d, c)
BY DEF Conflict

LEMMA RunStepInv ==
    ASSUME Inv, NEW o \in Jobs, Step(o) \/ Killed(o)
    PROVE  /\ Inv'
           /\ \A j \in Jobs : Succeeds(j) /\ ~unseen'[j] /\ ~clash[j] => Delivered(j)'
<1>1. TypeOK /\ TypeOK' /\ Others(o) /\ Running(o)
  BY RunStepSafe, StepRuns DEF Inv
<1>2. cmd' = cmd /\ clash' = clash
  BY <1>1 DEF Others
<1>3. ASSUME NEW j \in Jobs, Running(j)' PROVE Running(j)
  <2>1. CASE j = o
    BY <1>1, <2>1
  <2>2. CASE j # o
    BY <1>1, <1>3, <2>2 DEF Others, Running
  <2> QED BY <2>1, <2>2
<1>4. ~clash[o] /\ ~unseen'[o] => Kept(o)
  BY <1>1, StepRuns, OwnKeeps DEF Inv, Flows
<1>5. ASSUME NEW j \in Jobs, Running(j)', ~unseen'[j], ~clash'[j] PROVE Carries(j)'
  <2>1. CASE j = o
    BY <1>2, <1>4, <1>5, <2>1 DEF Kept
  <2>2. CASE j # o
    <3>1. Running(j) /\ unseen'[j] = unseen[j]
      BY <1>1, <1>3, <1>5, <2>2 DEF Others
    <3>2. Carries(j) /\ ~Conflict(cmd[j], cmd[o])
      BY <1>1, <1>2, <1>5, <2>2, <3>1 DEF Inv, Flows, Apart
    <3> QED BY <1>1, <2>2, <3>2, OthersKeep
  <2> QED BY <2>1, <2>2
<1>6. Flows'
  BY <1>5 DEF Flows
<1>7. Apart'
  BY <1>2, <1>3 DEF Inv, Apart
<1>8. ASSUME NEW j \in Jobs, Succeeds(j), ~unseen'[j], ~clash[j] PROVE Delivered(j)'
  <2>1. j = o
    BY <1>1, <1>8 DEF Others, Succeeds
  <2> QED BY <1>4, <1>8, <2>1 DEF Kept
<1> QED BY <1>1, <1>6, <1>7, <1>8 DEF Inv

LEMMA StartInv ==
    ASSUME Inv, NEW o \in Jobs, NEW c \in Commands, Start(o, c)
    PROVE  Inv' /\ \A j \in Jobs : ~Succeeds(j)
<1>1. TypeOK /\ TypeOK' /\ fs' = fs
  BY StartSafe DEF Inv
<1>2. /\ cmd' = [cmd EXCEPT ![o] = c] /\ pc' = [pc EXCEPT ![o] = "cpp"]
      /\ rc' = [rc EXCEPT ![o] = "none"] /\ src' = [src EXCEPT ![o] = NoFile]
      /\ seen' = [seen EXCEPT ![o] = NoFile] /\ unseen' = [unseen EXCEPT ![o] = FALSE]
  BY DEF Start, Goto
<1>3. \A k \in Jobs : clash'[k] =
          IF k = o THEN \E i \in Jobs \ {o} : Running(i) /\ Conflict(c, cmd[i])
          ELSE clash[k] \/ (Running(k) /\ Conflict(c, cmd[k]))
  BY DEF Start
<1>4. \A k \in Jobs \ {o} :
          /\ cmd'[k] = cmd[k] /\ pc'[k] = pc[k] /\ src'[k] = src[k] /\ seen'[k] = seen[k]
          /\ unseen'[k] = unseen[k] /\ rc'[k] = rc[k] /\ (Running(k)' <=> Running(k))
  BY <1>1, <1>2 DEF TypeOK, Running
<1>5. pc'[o] = "cpp" /\ cmd'[o] = c /\ rc'[o] = "none"
  BY <1>1, <1>2 DEF TypeOK
<1>6. Flows'
  <2>1. ASSUME NEW j \in Jobs, Running(j)', ~unseen'[j], ~clash'[j] PROVE Carries(j)'
    <3>1. CASE j = o
      BY <1>5, <3>1 DEF Carries, Carried
    <3>2. CASE j # o
      <4>1. Running(j) /\ ~unseen[j] /\ ~clash[j]
        BY <1>3, <1>4, <2>1, <3>2
      <4>2. Carries(j)
        BY <4>1 DEF Inv, Flows
      <4> QED BY <1>1, <1>4, <3>2, <4>2, CarriedInOwn
    <3> QED BY <3>1, <3>2
  <2> QED BY <2>1 DEF Flows
<1>7. Apart'
  <2>1. ASSUME NEW j \in Jobs, NEW i \in Jobs, j # i, Running(j)', Running(i)', ~clash'[j]
        PROVE  ~Conflict(cmd'[j], cmd'[i])
    <3>1. CASE j = o
      <4>1. Running(i) /\ cmd'[i] = cmd[i] /\ i \in Jobs \ {o}
        BY <1>4, <2>1, <3>1
      <4> QED BY <1>3, <1>5, <2>1, <3>1, <4>1
    <3>2. CASE i = o
      <4>1. Running(j) /\ cmd'[j] = cmd[j] /\ j # o
        BY <1>4, <2>1, <3>2
      <4>2. ~Conflict(c, cmd[j])
        BY <1>3, <2>1, <4>1
      <4> QED BY <1>5, <3>2, <4>1, <4>2, ConflictSymmetric
    <3>3. CASE j # o /\ i # o
      <4>1. Running(j) /\ Running(i) /\ ~clash[j] /\ cmd'[j] = cmd[j] /\ cmd'[i] = cmd[i]
        BY <1>3, <1>4, <2>1, <3>3
      <4> QED BY <2>1, <4>1 DEF Inv, Apart
    <3> QED BY <3>1, <3>2, <3>3
  <2> QED BY <2>1 DEF Apart
<1>8. \A j \in Jobs : ~Succeeds(j)
  BY <1>4, <1>5 DEF Succeeds
<1> QED BY <1>1, <1>6, <1>7, <1>8 DEF Inv

LEMMA EditInv ==
    ASSUME Inv, NEW p \in Inputs, Edit(p)
    PROVE  Inv' /\ \A j \in Jobs : ~Succeeds(j)
<1>1. TypeOK /\ TypeOK'
  BY EditSafe DEF Inv
<1>2. /\ UNCHANGED <<pc, cmd, src, rc, seen, unseen>>
      /\ \A q \in Files : q # p => fs'[q] = fs[q]
  BY <1>1 DEF Edit, TypeOK
<1>3. \A j \in Jobs : clash'[j] = (clash[j] \/ (Running(j) /\ p \in Written(cmd[j])))
  BY DEF Edit
<1>4. \A j \in Jobs : Running(j)' <=> Running(j)
  BY <1>2 DEF Running
<1>5. ASSUME NEW j \in Jobs, Running(j)', ~unseen'[j], ~clash'[j] PROVE Carries(j)'
  <2>1. Running(j) /\ ~unseen[j] /\ ~clash[j] /\ p \notin Written(cmd[j])
    BY <1>2, <1>3, <1>4, <1>5
  <2>2. Carries(j)
    BY <2>1 DEF Inv, Flows
  <2>3. \A q \in Written(cmd[j]) : q \in Files /\ q # p
    BY <1>1, <2>1, Paths, ModesOfCommands
  <2> QED BY <1>1, <1>2, <2>2, <2>3, CarriedInOwn
<1>6. Flows'
  BY <1>5 DEF Flows
<1>7. Apart'
  BY <1>2, <1>3, <1>4 DEF Inv, Apart
<1> QED BY <1>1, <1>2, <1>6, <1>7 DEF Inv, Succeeds

LEMMA InitInv == Init => Inv
<1> SUFFICES ASSUME Init PROVE Inv
  OBVIOUS
<1>1. \A j \in Jobs : ~Running(j)
  BY DEF Init, Running
<1> QED BY <1>1, InitSafe DEF Inv, Flows, Apart

LEMMA StutterInv ==
    ASSUME Inv, UNCHANGED vars
    PROVE  Inv' /\ \A j \in Jobs : ~Succeeds(j)
<1>1. TypeOK'
  BY StutterType DEF Inv
<1>2. \A j \in Jobs : (Running(j)' <=> Running(j)) /\ (Carries(j)' <=> Carries(j))
  BY DEF vars, Running, Carries
<1>3. Flows' /\ Apart'
  BY <1>2 DEF Inv, Flows, Apart, vars
<1> QED BY <1>1, <1>3 DEF Inv, Succeeds, vars

LEMMA NextInv ==
    ASSUME Inv, [Next]_vars
    PROVE  /\ Inv'
           /\ \A j \in Jobs : Succeeds(j) /\ ~unseen'[j] /\ ~clash[j] => Delivered(j)'
BY RunStepInv, StartInv, EditInv, StutterInv DEF Next

(* A run under way carries, at each stage, the whole of what was read, in  *)
(* the file the next tool takes; runs that do not clash use other files.   *)
THEOREM RunsCarryTheirInput == Spec => []Inv
<1>1. Init => Inv
  BY InitInv
<1>2. Inv /\ [Next]_vars => Inv'
  BY NextInv
<1> QED BY <1>1, <1>2, PTL DEF Spec

(* A run that exits with 0 has delivered its output, made from all of the  *)
(* input that its preprocessor read: whatever earlier runs left behind,    *)
(* whatever failed, was killed or edited, and whatever the names are.      *)
THEOREM SuccessIsDelivery == Spec => SuccessDelivers
<1>1. Inv /\ [Next]_vars =>
        [\A j \in Jobs : Succeeds(j) /\ ~unseen'[j] /\ ~clash[j] => Delivered(j)']_vars
  BY NextInv
<1> QED BY <1>1, RunsCarryTheirInput, PTL DEF Spec, SuccessDelivers

-----------------------------------------------------------------------------
(* The copy of the DLL.                                                    *)

TheDll == File("dll", NoVersion, TRUE)
Copying(j) == pc[j] \in {"open", "copy"}

(* A DLL is not there, whole, or being written by the one run that copies  *)
(* it: two runs that found none are noticed where they cross.              *)
DllKept ==
    ~torn =>
      /\ \A p \in Runtimes :
            /\ fs[p] \in {NoFile, Part, TheDll}
            /\ fs[p] = Part => \E j \in Jobs : pc[j] = "copy" /\ Dll(cmd[j]) = p
      /\ \A j \in Jobs : Copying(j) /\ Dll(cmd[j]) \in Runtimes =>
            /\ fs[Dll(cmd[j])] = IF pc[j] = "open" THEN NoFile ELSE Part
            /\ \A o \in Jobs \ {j} : Copying(o) => Dll(cmd[o]) # Dll(cmd[j])

LEMMA RuntimesAreFiles ==
    ASSUME NEW p \in Runtimes
    PROVE  p \in Files /\ p \notin Inputs /\ \A c \in Commands : p \notin Written(c)
BY DEF Runtimes, Files, Inputs

(* Nothing but the copy of a run that is at it touches a DLL.              *)
LEMMA DllFrame ==
    ASSUME TypeOK, NEW o \in Jobs, Step(o) \/ Killed(o), NEW p \in Runtimes,
           fs'[p] # fs[p]
    PROVE  p = Dll(cmd[o]) /\ \/ pc[o] = "open" /\ CopyOpen(o)
                              \/ pc[o] = "copy" /\ CopyWrite(o)
<1>1. p \in Files /\ p \notin Written(cmd[o])
  BY RuntimesAreFiles, ModesOfCommands
<1>2. p = Dll(cmd[o]) /\ pc[o] \in {"open", "copy"}
  BY <1>1, RunStepSafe DEF Frame
<1>3. ~Killed(o)
  <2>1. Writing(o) = {}
    BY <1>2 DEF Writing, At
  <2> QED BY <2>1 DEF Killed
<1>4. CopyOpen(o) \/ CopyWrite(o)
  BY <1>2, <1>3 DEF Step, Preprocess, ReadBack, FrontendRejects, EmitToStdout, EmitToFile, Qbe,
                    As, Rename, Link, CopyBegin, At
<1> QED BY <1>2, <1>4 DEF CopyOpen, CopyWrite, At

(* A copy that was cut short, or raced for, stays one.                     *)
LEMMA TornStays ==
    ASSUME TypeOK, NEW o \in Jobs, Step(o) \/ Killed(o), ~torn'
    PROVE  ~torn
BY DEF Step, Preprocess, ReadBack, FrontendRejects, EmitToStdout, EmitToFile, Qbe, As,
       Rename, Link, CopyBegin, CopyOpen, CopyWrite, Killed, TypeOK

(* The ways into, through and out of the copy, when none is cut short.     *)
LEMMA CopyWays ==
    ASSUME TypeOK, NEW o \in Jobs, Step(o) \/ Killed(o), ~torn'
    PROVE  \/ /\ pc'[o] = "open" /\ fs' = fs /\ fs[Dll(cmd[o])] = NoFile
              /\ pc[o] = "dll" /\ ~Raced(o)
           \/ /\ pc[o] = "open" /\ pc'[o] = "copy"
              /\ fs' = [fs EXCEPT ![Dll(cmd[o])] = Part]
           \/ /\ pc[o] = "copy" /\ pc'[o] = "exit"
              /\ fs' = [fs EXCEPT ![Dll(cmd[o])] = TheDll]
           \/ /\ pc[o] # "copy" /\ pc'[o] \notin {"open", "copy"}
              /\ \A p \in Runtimes : fs'[p] = fs[p]
<1>1. CASE CopyBegin(o)
  <2>1. pc[o] = "dll" /\ fs' = fs
    BY <1>1 DEF CopyBegin, At
  <2>2. CASE Return(o, "ok")
    BY <2>1, <2>2 DEF Return, Goto, TypeOK
  <2>3. CASE fs[Dll(cmd[o])] = NoFile /\ Goto(o, "open") /\ torn' = (torn \/ Raced(o))
    BY <2>1, <2>3 DEF Goto, TypeOK
  <2> QED BY <1>1, <2>2, <2>3 DEF CopyBegin
<1>2. CASE CopyOpen(o)
  BY <1>2 DEF CopyOpen, At, Goto, TypeOK
<1>3. CASE CopyWrite(o)
  BY <1>3 DEF CopyWrite, At, Return, Goto, TypeOK, TheDll
<1>4. CASE Killed(o)
  <2>1. pc[o] # "copy" /\ pc'[o] = "exit"
    BY <1>4 DEF Killed, Return, Goto, TypeOK, At
  <2>2. ASSUME NEW p \in Runtimes, fs'[p] # fs[p] PROVE FALSE
    <3>1. pc[o] = "open" /\ CopyOpen(o)
      BY <1>4, <2>1, <2>2, DllFrame
    <3> QED BY <2>1, <3>1 DEF CopyOpen, Goto, TypeOK
  <2> QED BY <2>1, <2>2
<1>5. CASE ~Killed(o) /\ ~CopyBegin(o) /\ ~CopyOpen(o) /\ ~CopyWrite(o)
  <2>1. pc[o] \notin {"open", "copy"}
    BY <1>5 DEF Step, Preprocess, ReadBack, FrontendRejects, EmitToStdout, EmitToFile, Qbe, As,
           Rename, Link, At
  <2>2. \E l \in PcType \ {"open", "copy"} : pc' = [pc EXCEPT ![o] = l]
    BY <1>5 DEF Step, Preprocess, ReadBack, FrontendRejects, EmitToStdout, EmitToFile, Qbe, As,
           Rename, Link, Tool, Return, Goto, PcType
  <2>3. pc'[o] \notin {"open", "copy"}
    BY <2>2 DEF TypeOK
  <2>4. \A p \in Runtimes : fs'[p] = fs[p]
    BY <2>1, DllFrame
  <2> QED BY <2>1, <2>3, <2>4
<1> QED BY <1>1, <1>2, <1>3, <1>4, <1>5

(* The step of a run keeps DllKept.                                        *)
LEMMA DllStep ==
    ASSUME TypeOK, DllKept, NEW o \in Jobs, Step(o) \/ Killed(o), ~torn'
    PROVE  /\ DllKept'
           /\ \A p \in Runtimes : fs[p].stage = "dll" => fs'[p] = fs[p]
<1>1. /\ \A p \in Runtimes :
            /\ fs[p] \in {NoFile, Part, TheDll}
            /\ fs[p] = Part => \E j \in Jobs : pc[j] = "copy" /\ Dll(cmd[j]) = p
      /\ \A j \in Jobs : Copying(j) /\ Dll(cmd[j]) \in Runtimes =>
            /\ fs[Dll(cmd[j])] = IF pc[j] = "open" THEN NoFile ELSE Part
            /\ \A k \in Jobs \ {j} : Copying(k) => Dll(cmd[k]) # Dll(cmd[j])
  BY TornStays DEF DllKept
<1>2. cmd' = cmd /\ \A j \in Jobs \ {o} : pc'[j] = pc[j]
  BY RunStepSafe DEF Others
<1>3. \A p \in Runtimes : p \in Files
  BY RuntimesAreFiles
<1>4. fs \in [Files -> FileType]
  BY DEF TypeOK
<1>5. NoFile # Part /\ NoFile # TheDll /\ Part # TheDll /\ NoFile.stage # "dll"
        /\ Part.stage # "dll"
  BY DEF NoFile, Part, TheDll, File
<1> DEFINE Good(p) ==
             /\ fs'[p] \in {NoFile, Part, TheDll}
             /\ fs'[p] = Part => \E j \in Jobs : pc'[j] = "copy" /\ Dll(cmd[j]) = p
             /\ fs[p].stage = "dll" => fs'[p] = fs[p]
           Alone(j) ==
             /\ fs'[Dll(cmd[j])] = IF pc'[j] = "open" THEN NoFile ELSE Part
             /\ \A k \in Jobs \ {j} : pc'[k] \in {"open", "copy"} => Dll(cmd[k]) # Dll(cmd[j])
<1> SUFFICES /\ \A p \in Runtimes : Good(p)
             /\ \A j \in Jobs :
                   pc'[j] \in {"open", "copy"} /\ Dll(cmd[j]) \in Runtimes => Alone(j)
  BY <1>2 DEF DllKept, Copying
<1>6. CASE /\ pc'[o] = "open" /\ fs' = fs /\ fs[Dll(cmd[o])] = NoFile
           /\ pc[o] = "dll" /\ ~Raced(o)
  <2>1. \A p \in Runtimes : Good(p)
    BY <1>1, <1>2, <1>6
  <2>2. ASSUME NEW j \in Jobs \ {o}, pc[j] \in {"open", "copy"}, Dll(cmd[j]) \in Runtimes
        PROVE  Dll(cmd[j]) # Dll(cmd[o])
    <3>1. CASE pc[j] = "open"
      BY <1>6, <3>1 DEF Raced, At
    <3>2. CASE pc[j] = "copy"
      BY <1>1, <1>5, <1>6, <2>2, <3>2 DEF Copying
    <3> QED BY <2>2, <3>1, <3>2
  <2>3. ASSUME NEW j \in Jobs, pc'[j] \in {"open", "copy"}, Dll(cmd[j]) \in Runtimes
        PROVE  Alone(j)
    <3>1. CASE j = o
      BY <1>2, <1>6, <2>2, <2>3, <3>1
    <3>2. CASE j # o
      BY <1>1, <1>2, <1>6, <2>2, <2>3, <3>2 DEF Copying
    <3> QED BY <3>1, <3>2
  <2> QED BY <2>1, <2>3
<1>7. CASE /\ pc[o] = "open" /\ pc'[o] = "copy"
           /\ fs' = [fs EXCEPT ![Dll(cmd[o])] = Part]
  <2>1. ASSUME NEW p \in Runtimes PROVE Good(p)
    <3>1. CASE p = Dll(cmd[o])
      <4>1. fs'[p] = Part /\ fs[p] = NoFile
        BY <1>1, <1>3, <1>4, <1>7, <3>1 DEF Copying
      <4> QED BY <1>5, <1>7, <3>1, <4>1
    <3>2. CASE p # Dll(cmd[o])
      <4>1. fs'[p] = fs[p]
        BY <1>7, <1>3, <1>4, <3>2
      <4>2. fs[p] = Part => \E j \in Jobs : pc'[j] = "copy" /\ Dll(cmd[j]) = p
        BY <1>1, <1>2, <1>7
      <4> QED BY <1>1, <4>1, <4>2
    <3> QED BY <3>1, <3>2
  <2>2. ASSUME NEW j \in Jobs, pc'[j] \in {"open", "copy"}, Dll(cmd[j]) \in Runtimes
        PROVE  Alone(j)
    <3>1. pc[j] \in {"open", "copy"}
      BY <1>2, <1>7, <2>2
    <3>2. \A k \in Jobs \ {j} : pc'[k] \in {"open", "copy"} => Dll(cmd[k]) # Dll(cmd[j])
      BY <1>1, <1>2, <1>7, <2>2, <3>1 DEF Copying
    <3>3. fs'[Dll(cmd[j])] = IF pc'[j] = "open" THEN NoFile ELSE Part
      <4>1. CASE j = o
        BY <1>3, <1>4, <1>7, <2>2, <4>1
      <4>2. CASE j # o
        <5>1. Dll(cmd[j]) # Dll(cmd[o])
          BY <3>2, <1>7, <4>2
        <5>2. fs'[Dll(cmd[j])] = fs[Dll(cmd[j])]
          BY <1>3, <1>4, <1>7, <2>2, <5>1
        <5> QED BY <1>1, <1>2, <2>2, <3>1, <4>2, <5>2 DEF Copying
      <4> QED BY <4>1, <4>2
    <3> QED BY <3>2, <3>3
  <2> QED BY <2>1, <2>2
<1>8. CASE /\ pc[o] = "copy" /\ pc'[o] = "exit"
           /\ fs' = [fs EXCEPT ![Dll(cmd[o])] = TheDll]
  <2>1. ASSUME NEW p \in Runtimes PROVE Good(p)
    <3>1. CASE p = Dll(cmd[o])
      <4>1. fs'[p] = TheDll /\ fs[p] = Part
        BY <1>1, <1>3, <1>4, <1>8, <3>1 DEF Copying
      <4> QED BY <1>5, <4>1
    <3>2. CASE p # Dll(cmd[o])
      <4>1. fs'[p] = fs[p]
        BY <1>8, <1>3, <1>4, <3>2
      <4>2. fs[p] = Part => \E j \in Jobs : pc'[j] = "copy" /\ Dll(cmd[j]) = p
        BY <1>1, <1>2, <3>2
      <4> QED BY <1>1, <4>1, <4>2
    <3> QED BY <3>1, <3>2
  <2>2. ASSUME NEW j \in Jobs, pc'[j] \in {"open", "copy"}, Dll(cmd[j]) \in Runtimes
        PROVE  Alone(j)
    <3>1. j # o /\ pc'[j] = pc[j]
      BY <1>2, <1>8, <2>2
    <3>2. Dll(cmd[o]) # Dll(cmd[j])
      BY <1>1, <1>8, <2>2, <3>1 DEF Copying
    <3>3. fs'[Dll(cmd[j])] = fs[Dll(cmd[j])]
      BY <1>3, <1>4, <1>8, <2>2, <3>2
    <3>4. \A k \in Jobs \ {j} : pc'[k] \in {"open", "copy"} => Dll(cmd[k]) # Dll(cmd[j])
      BY <1>1, <1>2, <1>8, <2>2, <3>1 DEF Copying
    <3>5. fs[Dll(cmd[j])] = IF pc[j] = "open" THEN NoFile ELSE Part
      BY <1>1, <2>2, <3>1 DEF Copying
    <3> QED BY <3>1, <3>3, <3>4, <3>5
  <2> QED BY <2>1, <2>2
<1>9. CASE /\ pc[o] # "copy" /\ pc'[o] \notin {"open", "copy"}
           /\ \A p \in Runtimes : fs'[p] = fs[p]
  <2>1. ASSUME NEW p \in Runtimes PROVE Good(p)
    BY <1>1, <1>2, <1>9
  <2>2. ASSUME NEW j \in Jobs, pc'[j] \in {"open", "copy"}, Dll(cmd[j]) \in Runtimes
        PROVE  Alone(j)
    <3>1. j # o /\ pc'[j] = pc[j]
      BY <1>2, <1>9, <2>2
    <3>2. \A k \in Jobs \ {j} : pc'[k] \in {"open", "copy"} => Copying(k)
      BY <1>2, <1>9 DEF Copying
    <3> QED BY <1>1, <1>9, <2>2, <3>1, <3>2 DEF Copying
  <2> QED BY <2>1, <2>2
<1> HIDE DEF Good, Alone
<1> QED BY <1>6, <1>7, <1>8, <1>9, CopyWays

(* One step of the driver: what is kept of the DLLs, and what is said of   *)
(* them from one state to the next.                                        *)
DllsGoOn ==
    ~torn' => \A p \in Runtimes :
        /\ fs[p].stage = "dll" => fs'[p] = fs[p]
        /\ fs'[p] # NoFile /\ fs'[p].stage # "dll"
              => \E j \in Jobs : pc'[j] = "copy" /\ Dll(cmd[j]) = p

LEMMA DllInit ==
    ASSUME Init
    PROVE  DllKept
<1>1. \A p \in Runtimes : fs[p] = NoFile
  BY RuntimesAreFiles DEF Init
<1>2. \A j \in Jobs : ~Copying(j)
  BY DEF Init, Copying
<1>3. NoFile # Part
  BY DEF NoFile, Part, File
<1> QED BY <1>1, <1>2, <1>3 DEF DllKept

(* Nothing is said against a DLL that is kept where it is, by runs that    *)
(* copy as they did.                                                       *)
LEMMA DllUntouched ==
    ASSUME DllKept, torn' = torn, \A p \in Runtimes : fs'[p] = fs[p],
           \A j \in Jobs : IF Copying(j) \/ Copying(j)'
                           THEN pc'[j] = pc[j] /\ cmd'[j] = cmd[j] ELSE TRUE
    PROVE  DllKept' /\ DllsGoOn
<1> SUFFICES ASSUME ~torn PROVE DllKept' /\ DllsGoOn
  BY DEF DllKept, DllsGoOn
<1>1. /\ \A p \in Runtimes :
            /\ fs[p] \in {NoFile, Part, TheDll}
            /\ fs[p] = Part => \E j \in Jobs : pc[j] = "copy" /\ Dll(cmd[j]) = p
      /\ \A j \in Jobs : Copying(j) /\ Dll(cmd[j]) \in Runtimes =>
            /\ fs[Dll(cmd[j])] = IF pc[j] = "open" THEN NoFile ELSE Part
            /\ \A o \in Jobs \ {j} : Copying(o) => Dll(cmd[o]) # Dll(cmd[j])
  BY DEF DllKept
<1>2. \A p \in Runtimes : fs'[p] = Part
          => \E j \in Jobs : pc'[j] = "copy" /\ pc[j] = "copy" /\ cmd'[j] = cmd[j]
                                /\ Dll(cmd[j]) = p
  BY <1>1 DEF Copying
<1>3. \A j \in Jobs : Copying(j)' => Copying(j) /\ pc'[j] = pc[j] /\ cmd'[j] = cmd[j]
  BY DEF Copying
<1>4. \A j \in Jobs : Copying(j)' /\ Dll(cmd'[j]) \in Runtimes =>
            /\ fs'[Dll(cmd'[j])] = IF pc'[j] = "open" THEN NoFile ELSE Part
            /\ \A o \in Jobs \ {j} : Copying(o)' => Dll(cmd'[o]) # Dll(cmd'[j])
  BY <1>1, <1>3
<1>5. \A p \in Runtimes : fs'[p] = Part => \E j \in Jobs : pc'[j] = "copy" /\ Dll(cmd'[j]) = p
  BY <1>2
<1>6. DllKept'
  BY <1>1, <1>4, <1>5 DEF DllKept
<1>7. DllsGoOn
  BY <1>1, <1>2 DEF DllsGoOn, TheDll, File
<1> QED BY <1>6, <1>7

LEMMA DllStart ==
    ASSUME TypeOK, DllKept, NEW o \in Jobs, NEW c \in Commands, Start(o, c)
    PROVE  DllKept' /\ DllsGoOn
<1>1. fs' = fs /\ torn' = torn
  BY DEF Start
<1>2. \A j \in Jobs \ {o} : pc'[j] = pc[j] /\ cmd'[j] = cmd[j]
  BY DEF Start, Goto, TypeOK
<1>3. ~Copying(o) /\ ~Copying(o)'
  BY DEF Start, Goto, TypeOK, Running, Copying
<1> QED BY <1>1, <1>2, <1>3, DllUntouched

LEMMA DllEdit ==
    ASSUME TypeOK, DllKept, NEW q \in Inputs, Edit(q)
    PROVE  DllKept' /\ DllsGoOn
<1>1. torn' = torn /\ pc' = pc /\ cmd' = cmd
  BY DEF Edit
<1>2. \A p \in Runtimes : fs'[p] = fs[p]
  BY RuntimesAreFiles DEF Edit, TypeOK
<1> QED BY <1>1, <1>2, DllUntouched

LEMMA DllRunStep ==
    ASSUME TypeOK, DllKept, NEW o \in Jobs, Step(o) \/ Killed(o)
    PROVE  DllKept' /\ DllsGoOn
<1>1. CASE torn'
  BY <1>1 DEF DllKept, DllsGoOn
<1>2. CASE ~torn'
  <2>1. DllKept' /\ \A p \in Runtimes : fs[p].stage = "dll" => fs'[p] = fs[p]
    BY <1>2, DllStep
  <2>2. cmd' = cmd
    BY RunStepSafe DEF Others
  <2>3. \A p \in Runtimes :
            /\ fs'[p] \in {NoFile, Part, TheDll}
            /\ fs'[p] = Part => \E j \in Jobs : pc'[j] = "copy" /\ Dll(cmd[j]) = p
    BY <1>2, <2>1, <2>2 DEF DllKept
  <2>4. TheDll.stage = "dll"
    BY DEF TheDll, File
  <2> QED BY <2>1, <2>3, <2>4 DEF DllsGoOn
<1> QED BY <1>1, <1>2

LEMMA DllNext ==
    ASSUME TypeOK, DllKept, [Next]_vars
    PROVE  DllKept' /\ DllsGoOn
<1>1. CASE UNCHANGED vars
  <2>1. fs' = fs /\ torn' = torn /\ pc' = pc /\ cmd' = cmd
    BY <1>1 DEF vars
  <2> QED BY <2>1, DllUntouched
<1> QED BY <1>1, DllRunStep, DllStart, DllEdit DEF Next

(* A DLL that is there is whole or being written, and is never written     *)
(* again, whichever compilers are at it, in every order and for all names, *)
(* as long as none was cut short and no two of them found it missing.      *)
THEOREM DllsStayIntact == Spec => DllIntact
<1>1. Init => DllKept
  BY DllInit
<1>2. TypeOK /\ DllKept /\ [Next]_vars => DllKept'
  BY DllNext
<1>3. TypeOK /\ DllKept /\ [Next]_vars =>
        [~torn' => \A p \in Runtimes :
          /\ fs[p].stage = "dll" => fs'[p] = fs[p]
          /\ fs'[p] # NoFile /\ fs'[p].stage # "dll"
                => \E j \in Jobs : pc'[j] = "copy" /\ Dll(cmd[j]) = p]_vars
  BY DllNext DEF DllsGoOn
<1> QED BY <1>1, <1>2, <1>3, DriverTypes, PTL DEF Spec, DllIntact

=============================================================================
