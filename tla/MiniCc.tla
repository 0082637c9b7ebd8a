------------------------------- MODULE MiniCc -------------------------------
(* mini-cc as a whole (src/mini-cc/src/main.c): the command line, the       *)
(* bridge, the check, and either the printed tree or the code generator,    *)
(* whose steps are those of Codegen.                                        *)
EXTENDS Codegen, Bridge

CONSTANTS Sources,   \* [tops, parse]: cursors of a file, and how libclang took it
          ArgLists   \* command lines: "--ast", "--emit-obj", "file", "-?"

VARIABLES source, argv

miniccVars == <<codegenVars, source, argv>>

Has(a) == \E j \in 1..Len(argv) : argv[j] = a

Stop(here, status) ==
    /\ pc = here /\ pc' = "stopped" /\ rc' = status
    /\ UNCHANGED <<prog, f, i, fid, rv, live, lib>>
Proceed(here, next) == pc = here /\ pc' = next /\ UNCHANGED <<prog, locals, live, lib>>

MainInit ==
    /\ Start /\ pc = "main" /\ prog = <<>>
    /\ source \in Sources /\ argv \in ArgLists

Usage == (Has("-?") \/ ~Has("file")) /\ Stop("main", 1)
ReadArgs == ~Has("-?") /\ Has("file") /\ Proceed("main", "parse")

ParseFails == source.parse # "ok" /\ Stop("parse", 1)
clang_bridge_parse ==
    /\ source.parse = "ok"
    /\ pc = "parse" /\ pc' = "check"
    /\ prog' = top_level_visitor(source.tops)
    /\ UNCHANGED <<locals, live, lib>>

Malformed == ~sema_check(prog) /\ Stop("check", 2)
Checked == sema_check(prog) /\ Proceed("check", IF Has("--ast") THEN "print" ELSE "emit")
PrintAst == Stop("print", 0)
Free == Proceed("emitted", "freed")

MainNext ==
    /\ \/ Usage \/ ReadArgs \/ ParseFails \/ clang_bridge_parse
       \/ Malformed \/ Checked \/ PrintAst \/ codegen_emit \/ Free
    /\ UNCHANGED <<source, argv>>

MainSpec == MainInit /\ [][MainNext]_miniccVars

-----------------------------------------------------------------------------
(* The variables keep their types, and indices stay within the program.     *)
TypeOK ==
    /\ pc \in Building \cup {"main", "parse", "check", "print", "emit", "emitted", "freed",
                             "stopped", "exited"}
    /\ f \in 1..Len(prog) + 1 /\ rc \in 0..2
    /\ pc \in Building \ {"function"} => f <= Len(prog) /\ i \in 0..Arity
    /\ live \subseteq CL!Handles
    /\ Len(lib.object) \in {0, Len(prog)}
    /\ pc = "freed" => live = {}

(* What a function means, as a tree in the same form: nothing is dropped    *)
(* but parentheses and the conversions that cannot change a value.          *)
Converts(c) == c.k = "UnexposedExpr" /\ c.v # ""
RECURSIVE MeantExpr(_)
MeantExpr(c) ==
    CASE c.k = "IntegerLiteral" -> Expr("Int", c.v, <<>>)
      [] c.k = "DeclRefExpr" -> Expr("Var", c.v, <<>>)
      [] Converts(c) -> Expr("Convert", c.v, <<MeantExpr(c.kids[1])>>)
      [] c.k \in {"ParenExpr", "UnexposedExpr"} /\ ~Converts(c) -> MeantExpr(c.kids[1])
      [] c.k = "BinaryOperator" -> Expr("BinOp", c.v, [j \in 1..2 |-> MeantExpr(c.kids[j])])
      [] c.k = "UnaryOperator" -> Expr("UnOp", c.v, <<MeantExpr(c.kids[1])>>)
      [] c.k = "CallExpr" ->
            Expr("Call", c.v, [j \in 1..Len(c.kids) - 1 |-> MeantExpr(c.kids[j + 1])])
      [] OTHER -> Expr("Other", c.k, <<>>)

RECURSIVE Meant(_)
MeantChain(kids) == FlattenSeq([j \in 1..Len(kids) |-> Meant(kids[j])])
Meant(c) ==
    CASE c.k = "CompoundStmt" -> <<Stmt("Block", "", <<>>, <<MeantChain(c.kids)>>)>>
      [] c.k = "ReturnStmt" ->
            <<Stmt("Return", "", <<IF c.kids = <<>> THEN Null ELSE MeantExpr(c.kids[1])>>, <<>>)>>
      [] c.k = "DeclStmt" -> MeantChain(c.kids)
      [] c.k = "VarDecl" ->
            <<Stmt("Decl", c.v, <<IF c.init = 0 THEN Null ELSE MeantExpr(c.kids[c.init])>>, <<>>)>>
      [] c.k = "IfStmt" ->
            <<Stmt("If", "", <<MeantExpr(c.kids[1])>>,
                   <<Meant(c.kids[2]), IF Len(c.kids) >= 3 THEN Meant(c.kids[3]) ELSE <<>> >>)>>
      [] c.k = "WhileStmt" ->
            <<Stmt("While", "", <<MeantExpr(c.kids[1])>>, <<Meant(c.kids[2])>>)>>
      [] c.k = "NullStmt" -> <<>>
      [] c.k \in Expressions -> <<Stmt("Expr", "", <<MeantExpr(c)>>, <<>>)>>
      [] OTHER -> <<Stmt("Other", c.k, <<>>, <<>>)>>

(* The known gaps: a statement of an unsupported kind is dropped            *)
(* (clang_bridge.c:255-264); the condition of an if or while is not what    *)
(* the first child of it says (:214, :230); declarations of one statement   *)
(* are followed by another (:163-168); an initializer is unsupported, or is *)
(* not the first child of its variable (:191-198); a conversion is passed   *)
(* over (:144-148).                                                         *)
Unsupported(c) == c.k \notin Expressions \cup {"CompoundStmt", "ReturnStmt", "DeclStmt",
                      "VarDecl", "TypeRef", "IfStmt", "WhileStmt", "NullStmt"}
Loses(c) ==
    \/ Unsupported(c)
    \/ c.k \in {"IfStmt", "WhileStmt"} /\ Condition(c) # MeantExpr(c.kids[1])
    \/ c.k = "CompoundStmt" /\ \E j \in 1..Len(c.kids) - 1 :
           c.kids[j].k = "DeclStmt" /\ Len(c.kids[j].kids) > 1
    \/ c.k = "VarDecl" /\ c.kids # <<>> /\ (c.init # 1 \/ lower_expr(c.kids[1]) = Null)
    \/ Converts(c)
RECURSIVE HasGap(_)
HasGap(c) == Loses(c) \/ \E j \in 1..Len(c.kids) : HasGap(c.kids[j])

(* What the compiler supports of expressions and statements.                *)
RECURSIVE Supported(_)
Supported(e) == e.k \notin {"Null", "Other"} /\ (e.k = "BinOp" => e.v \in BinOps)
                /\ (e.k = "UnOp" => e.v \in UnOps)
                /\ \A j \in 1..Len(e.kids) : Supported(e.kids[j])
RECURSIVE AllSupported(_)
AllSupported(chain) ==
    \A j \in 1..Len(chain) :
        /\ \A e \in 1..Len(chain[j].kids) :
               Supported(chain[j].kids[e]) \/ (chain[j].k = "Decl" /\ chain[j].kids[e] = Null)
        /\ \A b \in 1..Len(chain[j].subs) : AllSupported(chain[j].subs[b])

(* And one of a function: its result and parameters are I32 whatever their  *)
(* types are, where the comment of codegen.c says that anything but I32     *)
(* 'prints an error and exits' (lines 12 and 14; clang_bridge.c:281-290).   *)
TypesLost(t) == \E j \in 1..Len(t.types) : t.types[j] # "int"
I32s(compiled) == [j \in 1..compiled.params + 1 |-> "int"]

Definitions ==
    SelectSeq(source.tops, LAMBDA t : t.main /\ t.k = "FunctionDecl" /\ t.kids # <<>>)

(* What is printed or compiled is what the file says, function by function  *)
(* and in order, unless a function has a known gap; a compiled function has *)
(* the result and the parameters of the source, if these are ints; a file   *)
(* is called malformed only for a function that has a gap or that uses an   *)
(* expression the compiler does not support (clang_bridge.c, sema.c,        *)
(* main.c:40-52).                                                           *)
ProgramFaithful ==
    LET body(d) == Definitions[d].kids[1]
        meant(d) == MeantChain(body(d).kids)
    IN  /\ pc \in {"print", "emitted", "freed"} =>
            /\ Len(prog) = Len(Definitions)
            /\ \A d \in 1..Len(prog) :
                /\ prog[d].name = Definitions[d].v /\ prog[d].params = Definitions[d].params
                /\ ~HasGap(body(d)) => prog[d].body = meant(d) /\ AllSupported(meant(d))
        /\ pc = "stopped" /\ rc = 2 =>
            \E d \in 1..Len(Definitions) : HasGap(body(d)) \/ ~AllSupported(meant(d))
        /\ pc = "freed" /\ rc = 0 =>
            /\ Len(lib.object) = Len(Definitions) /\ ~Has("--ast")
            /\ \A d \in 1..Len(Definitions) :
                  TypesLost(Definitions[d]) \/ I32s(lib.object[d]) = Definitions[d].types
=============================================================================
