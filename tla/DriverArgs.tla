----------------------------- MODULE DriverArgs -----------------------------
(***************************************************************************)
(* The command line of the QBE-based compiler                              *)
(* (qbebasedcompiler/src/driver.c, the argument loop of driver_main): one  *)
(* step per argument looked at, with the options for the preprocessor      *)
(* collected in an array of fixed size.                                    *)
(***************************************************************************)
EXTENDS Integers, Sequences, FiniteSets

CONSTANTS
    Argvs,     \* the command lines that may be given, argv[1 ..]
    ExtraCap,  \* entries of extra (256 in the code)
    NoName     \* NULL, which no argument is, the empty one included

(* Arguments are strings; those that start with a dash are these.          *)
Flags    == {"-S", "-c", "-emit-qbe", "-E", "-v"}
Separate == {"-I", "-D", "-U"}                  \* operand in the next one
Joined   == {"-Idir", "-Dname", "-Uname"}       \* operand in the same one
Help     == {"-h", "--help"}
Dashed   == Flags \cup Separate \cup Joined \cup Help \cup {"-o", "-unknown"}

ASSUME ArgsAssumption ==
    /\ \A s \in Argvs : s \in Seq(STRING) /\ \A k \in DOMAIN s : s[k] # NoName
    /\ ExtraCap \in Nat

VARIABLES
    argv,
    i,        \* the index of the argument looked at, from 1
    input,
    output,
    flags,    \* emit_qbe_only, emit_asm_only, ..., verbose
    extra,    \* extra[0 .. nextra - 1]
    result    \* "parsing", "run" the pipeline, or return "ok" or "error"

vars == <<argv, i, input, output, flags, extra, result>>

Looking == result = "parsing" /\ i <= Len(argv)
a == argv[i]
HasNext == i < Len(argv)

(* Faulty: the operand of -o is looked at again.                           *)
OutputNotSkipped ==
    /\ Looking /\ a = "-o" /\ HasNext
    /\ output' = argv[i + 1]
    /\ i' = i + 1
    /\ UNCHANGED <<argv, input, flags, extra, result>>

Output ==
    /\ Looking /\ a = "-o" /\ HasNext
    /\ output' = argv[i + 1]
    /\ i' = i + 2
    /\ UNCHANGED <<argv, input, flags, extra, result>>

Flag ==
    /\ Looking /\ a \in Flags
    /\ flags' = flags \cup {a}
    /\ i' = i + 1
    /\ UNCHANGED <<argv, input, output, extra, result>>

(* Faulty: room is made sure of for the option alone.                      *)
SeparateAlone ==
    /\ Looking /\ a \in Separate /\ HasNext
    /\ extra' = CASE Len(extra) + 1 < ExtraCap -> extra \o <<a, argv[i + 1]>>
                  [] Len(extra) + 1 = ExtraCap -> Append(extra, a)
                  [] OTHER -> extra
    /\ i' = i + 2
    /\ UNCHANGED <<argv, input, output, flags, result>>

(* The operand is skipped where it is stored, so only while there is room. *)
SeparateOption ==
    /\ Looking /\ a \in Separate /\ HasNext
    /\ IF Len(extra) + 2 < ExtraCap
       THEN extra' = extra \o <<a, argv[i + 1]>> /\ i' = i + 2
       ELSE extra' = extra /\ i' = i + 1
    /\ UNCHANGED <<argv, input, output, flags, result>>

(* Faulty: one more than there is room for.                                *)
JoinedPastEnd ==
    /\ Looking /\ a \in Joined
    /\ extra' = IF Len(extra) <= ExtraCap THEN Append(extra, a) ELSE extra
    /\ i' = i + 1
    /\ UNCHANGED <<argv, input, output, flags, result>>

JoinedOption ==
    /\ Looking /\ a \in Joined
    /\ extra' = IF Len(extra) < ExtraCap THEN Append(extra, a) ELSE extra
    /\ i' = i + 1
    /\ UNCHANGED <<argv, input, output, flags, result>>

HelpOption ==
    /\ Looking /\ a \in Help
    /\ result' = "ok"
    /\ UNCHANGED <<argv, i, input, output, flags, extra>>

Unknown ==
    /\ Looking /\ a \in Dashed
    /\ \/ a = "-unknown"
       \/ a \in Separate \cup {"-o"} /\ ~HasNext
    /\ result' = "error"
    /\ UNCHANGED <<argv, i, input, output, flags, extra>>

Input ==
    /\ Looking /\ a \notin Dashed
    /\ IF input = NoName
       THEN input' = a /\ i' = i + 1 /\ result' = result
       ELSE result' = "error" /\ UNCHANGED <<i, input>>
    /\ UNCHANGED <<argv, output, flags, extra>>

Finish ==
    /\ result = "parsing" /\ i > Len(argv)
    /\ result' = IF input = NoName THEN "error" ELSE "run"
    /\ UNCHANGED <<argv, i, input, output, flags, extra>>

Init ==
    /\ argv \in Argvs
    /\ i = 1
    /\ input = NoName
    /\ output = NoName
    /\ flags = {}
    /\ extra = <<>>
    /\ result = "parsing"

Next ==
    \/ Output \/ Flag \/ SeparateOption \/ JoinedOption \/ HelpOption
    \/ Unknown \/ Input \/ Finish

Spec == Init /\ [][Next]_vars /\ WF_vars(Next)

-----------------------------------------------------------------------------
(* Types; extra never holds more than its array does, and the scan stops   *)
(* at the end of argv.                                                     *)
TypeOK ==
    /\ argv \in Seq(STRING)
    /\ i \in 1 .. (Len(argv) + 1)
    /\ {input, output} \subseteq {NoName} \cup STRING
    /\ flags \subseteq Flags
    /\ extra \in Seq(STRING) /\ Len(extra) <= ExtraCap
    /\ result \in {"parsing", "run", "ok", "error"}

(* What a command line means, read without a scan: an argument after an    *)
(* option that takes an operand is its operand, unless that option is      *)
(* itself an operand.                                                      *)
Operands(s) ==
    LET op[k \in 0 .. Len(s)] ==
            k > 1 /\ s[k - 1] \in Separate \cup {"-o"} /\ ~op[k - 1]
    IN {k \in DOMAIN s : op[k]}

Ats(s, S) == {k \in DOMAIN s : s[k] \in S /\ k \notin Operands(s)}
Names(s) == {k \in DOMAIN s : s[k] \notin Dashed /\ k \notin Operands(s)}
Dangling(s) == {k \in Ats(s, Separate \cup {"-o"}) : k = Len(s)}

(* The places of what is for the preprocessor.                             *)
ForCpp(s) ==
    Ats(s, Joined) \cup Ats(s, Separate)
      \cup {k \in Operands(s) : s[k - 1] \in Separate}

Full(s) == Cardinality(ForCpp(s)) + 2 >= ExtraCap

At(s, S) ==
    IF S = {} THEN NoName ELSE s[CHOOSE k \in S : \A j \in S : j <= k]

(* Unless there are too many options for the preprocessor, the pipeline is *)
(* run exactly for the command lines with one input and no stray option,   *)
(* and on what they mean: operands are never taken for options or inputs,  *)
(* the last -o wins, options keep their order.                             *)
ReadAsMeant ==
    ~Full(argv) =>
        /\ result = "run" =>
              /\ Names(argv) # {} /\ \A j, k \in Names(argv) : j = k
              /\ Dangling(argv) \cup Ats(argv, Help \cup {"-unknown"}) = {}
              /\ input = At(argv, Names(argv))
              /\ output = At(argv, {k \in Operands(argv) : argv[k - 1] = "-o"})
              /\ flags = {argv[k] : k \in Ats(argv, Flags)}
              /\ extra = [k \in 1 .. Cardinality(ForCpp(argv)) |->
                    argv[CHOOSE p \in ForCpp(argv) :
                            Cardinality({q \in ForCpp(argv) : q < p}) = k - 1]]
        /\ result = "error" =>
              \/ \A j \in Names(argv) : \E k \in Names(argv) : k # j
              \/ Dangling(argv) \cup Ats(argv, {"-unknown"}) # {}
        /\ result = "ok" => Ats(argv, Help) # {}

(* However many options there are, none is passed on without its operand,  *)
(* and no operand without its option.                                      *)
PairsWhole ==
    \A k \in DOMAIN extra :
        /\ k \in Ats(extra, Separate) => k < Len(extra)
        /\ k \notin Operands(extra) => extra[k] \in Separate \cup Joined

=============================================================================
