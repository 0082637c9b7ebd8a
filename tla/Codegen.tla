------------------------------ MODULE Codegen ------------------------------
(* mini-cc's code generator (src/mini-cc/src/codegen.c): one pass over the  *)
(* functions of the program, one action per call into Cranelift. Nothing of *)
(* what the library asks is looked at by the code, so an action has the     *)
(* effect of its call whatever the state of the library: that every call is *)
(* legal is the refinement UsesLegally, which CodegenProofs proves.         *)
EXTENDS Naturals, Sequences

CONSTANTS Names,       \* the names of functions
          Immediates,  \* the values of integer literals
          Programs     \* the programs codegen_emit is called with

VARIABLES prog,    \* the functions: name, parameter names and body
          pc,      \* the call that is made next
          f, i,    \* the function in hand and the parameter loop's index
          fid, rv, \* the id of its declaration, the value it returns
          rc,      \* the exit status
          live, lib  \* the library, which the code does not look at

CL == INSTANCE Cranelift

locals == <<f, i, fid, rv, rc>>
codegenVars == <<prog, pc, locals, live, lib>>

(* What codegen.c reads of a program, and what the stages before it give:   *)
(* clang lets no function be defined twice.                                 *)
ASSUME ProgramsAssumption ==
    \A p \in Programs :
        /\ DOMAIN p = 1..Len(p) /\ Len(p) \in Nat
        /\ \A g \in 1..Len(p) :
            /\ p[g].name \in Names
            /\ Len(p[g].params) \in Nat
            /\ (/\ Len(p[g].body) = 1 /\ p[g].body[1].k = "Return"
                /\ p[g].body[1].kids[1].k = "Int")
               => p[g].body[1].kids[1].v \in Immediates
        /\ \A g, h \in 1..Len(p) : p[g].name = p[h].name => g = h

Function == prog[f]
Arity == Len(Function.params)
Body == Function.body
SingleReturn == Len(Body) = 1 /\ Body[1].k = "Return"
Returned == Body[1].kids[1]

Call(here, c, next) == pc = here /\ pc' = next /\ CL!Effect(c)
Straight(here, c, next) == Call(here, c, next) /\ UNCHANGED <<prog, locals>>
Exit(here) == pc = here /\ pc' = "exited" /\ rc' = 1 /\ UNCHANGED <<prog, f, i, fid, rv, live, lib>>

NewModule == Straight("emit", CL!New(lib, "module"), "function")

NewSignature ==
    /\ f <= Len(prog)
    /\ Call("function", CL!Signature_new(lib), "params")
    /\ i' = 0
    /\ UNCHANGED <<prog, f, fid, rv, rc>>

NewParam == Straight("params", CL!New(lib, "abi"), "pushParam") /\ i < Arity
PushParam ==
    /\ Call("pushParam", CL!params_push(lib), "params")
    /\ i' = i + 1
    /\ UNCHANGED <<prog, f, fid, rv, rc>>
NewReturn == Straight("params", CL!New(lib, "abi"), "pushReturn") /\ i >= Arity
PushReturn == Straight("pushReturn", CL!returns_push(lib), "declare")

Declare ==
    /\ Call("declare", CL!declare_function(lib, Function.name), "name")
    /\ fid' = Len(lib.declared) + 1
    /\ UNCHANGED <<prog, f, i, rv, rc>>

NewName == Straight("name", CL!New(lib, "ufn"), "create")
CreateFunction == Straight("create", CL!with_name_signature(lib), "context")
NewContext == Straight("context", CL!New(lib, "fbctx"), "builder")
NewBuilder == Straight("builder", CL!Builder_new(lib), "block")
CreateBlock == Straight("block", CL!create_block(lib), "append")
AppendParams == Straight("append", CL!append_params(lib), "switch")
SwitchToBlock == Straight("switch", CL!switch_to_block(lib), "seal")
SealBlock == Straight("seal", CL!seal_block(lib), "body")

RejectBody == Exit("body") /\ ~SingleReturn

LowerLiteral ==
    /\ pc = "body" /\ SingleReturn /\ Returned.k = "Int"
    /\ Call("body", CL!iconst(lib, Returned.v), "return")
    /\ rv' = Len(lib.fun.vals) + 1
    /\ UNCHANGED <<prog, f, i, fid, rc>>

LowerParamFirst ==
    /\ pc = "body" /\ SingleReturn /\ Returned.k = "Var"
    /\ Returned.v \in {Function.params[k] : k \in 1..Arity}
    /\ Call("body", CL!block_params(lib, 0), "return")
    /\ rv' = 1
    /\ UNCHANGED <<prog, f, i, fid, rc>>

(* The first parameter of that name, in the order of the declaration.       *)
LowerParam ==
    /\ pc = "body" /\ SingleReturn /\ Returned.k = "Var"
    /\ \E k \in 1..Arity :
        /\ Function.params[k] = Returned.v
        /\ \A j \in 1..k - 1 : Function.params[j] # Returned.v
        /\ Call("body", CL!block_params(lib, k - 1), "return")
        /\ rv' = k
    /\ UNCHANGED <<prog, f, i, fid, rc>>

RejectExpr ==
    /\ Exit("body") /\ SingleReturn
    /\ \/ Returned.k = "Var" /\ \A k \in 1..Arity : Function.params[k] # Returned.v
       \/ Returned.k \notin {"Int", "Var"}

Return == Straight("return", CL!return_(lib, rv), "finalize")
FinalizeLate == Straight("finalize", CL!dispose(lib), "display")
Finalize == Straight("finalize", CL!finalize(lib), "dispose")
DisposeForgotten == Straight("dispose", CL!New(lib, "fbctx"), "display")
Dispose == Straight("dispose", CL!dispose(lib), "display")
Display == Straight("display", CL!display(lib), "free")
FreeText == Straight("free", CL!cstr_free(lib), "define")

Define ==
    /\ Call("define", CL!define_function(lib, fid), "function")
    /\ f' = f + 1
    /\ UNCHANGED <<prog, i, fid, rv, rc>>

(* The object is written or it is not; the status is the library's.         *)
Finish ==
    /\ f > Len(prog)
    /\ \E ok \in BOOLEAN :
        /\ Call("function", CL!finish_and_emit(lib, ok), "emitted")
        /\ rc' = IF ok THEN 0 ELSE 1
    /\ UNCHANGED <<prog, f, i, fid, rv>>

LowerReturned == LowerLiteral \/ LowerParam \/ RejectExpr

emit_function ==
    \/ NewSignature \/ NewParam \/ PushParam \/ NewReturn \/ PushReturn \/ Declare
    \/ NewName \/ CreateFunction \/ NewContext \/ NewBuilder
    \/ CreateBlock \/ AppendParams \/ SwitchToBlock \/ SealBlock
    \/ RejectBody \/ LowerReturned \/ Return
    \/ Finalize \/ Dispose \/ Display \/ FreeText \/ Define

codegen_emit == NewModule \/ emit_function \/ Finish

Start == CL!Init /\ f = 1 /\ i = 0 /\ fid = 0 /\ rv = 0 /\ rc = 0

CodegenSpec ==
    /\ Start /\ pc = "emit" /\ prog \in Programs
    /\ [][codegen_emit]_codegenVars

(* Every call the generator makes is one the library allows: no handle is   *)
(* used after the call that consumed it or while a builder borrows it, none *)
(* is lost, a block is filled and sealed before it is finalized, what is    *)
(* returned is a value of this function, and a function is defined once,    *)
(* under the signature it was declared with (codegen.c:48, 72, 75, 81, 91). *)
UsesLegally == CL!Spec

(* The refinement mapping: a compiled function is what the library holds of *)
(* it; an instruction, a block or a signature is not seen.                  *)
Seen(d) ==
    [name |-> d.name, params |-> d.params,
     result |-> IF d.ret <= d.params THEN [arg |-> d.ret, imm |-> ""]
                ELSE [arg |-> 0, imm |-> d.vals[d.ret]]]
SeenAll(defined) == [k \in 1..Len(defined) |-> Seen(defined[k])]

Building == {"function", "params", "pushParam", "pushReturn", "declare", "name", "create",
             "context", "builder", "block", "append", "switch", "seal", "body", "return",
             "finalize", "dispose", "display", "free", "define"}
Progress == CASE pc \in Building -> "running"
              [] pc = "exited" \/ (pc \in {"emitted", "freed"} /\ rc # 0) -> "failed"
              [] pc \in {"emitted", "freed"} /\ rc = 0 -> "written"
              [] OTHER -> "idle"

Abstract == INSTANCE ObjectFile
            WITH compiled <- SeenAll(lib.defined), object <- SeenAll(lib.object),
                 status <- Progress

(* Through all these calls the generator does what ObjectFile says: an      *)
(* object with every function of the program, in order, returning what it   *)
(* says, or none, and none only if a function is not supported or the       *)
(* library cannot write (codegen.c:6-11, 86-94). Not that its parameters    *)
(* and result are ints (codegen.c:12-14): no type reaches the generator,    *)
(* and a function on pointers is compiled as one on I32 (codegen.c:39-43).  *)
Implements == Abstract!Spec
=============================================================================
