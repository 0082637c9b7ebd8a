--------------------------- MODULE CodegenProofs ---------------------------
(* Proofs about Codegen: the inductive invariant that says, for each place  *)
(* of the code, which handles are owned and what the library holds.         *)
EXTENDS Codegen, SequenceTheorems, TLAPS

Sigs == [params : Nat, returns : Nat]
Values == Seq(Immediates \cup {"param"})
Funs == [sig : Sigs, block : {"none", "made", "open", "filled"}, appended : BOOLEAN,
         sealed : BOOLEAN, vals : Values, ret : Nat]
Compiled == [name : Names, params : Nat, vals : Values, ret : Nat]
Libs == [sig : Sigs, fun : Funs,
         declared : Seq([name : Names, sig : Sigs]),
         defined : Seq(Compiled), object : Seq(Compiled)]

Typed ==
    /\ live \subseteq CL!Handles /\ lib \in Libs /\ prog \in Programs
    /\ f \in 1..Len(prog) + 1 /\ i \in Nat /\ fid \in Nat /\ rv \in Nat /\ rc \in {0, 1}
    /\ pc \in Building \cup {"emit", "emitted", "exited"}
    /\ pc \in Building \ {"function"} => f <= Len(prog)

(* The handles owned at each place.                                         *)
Owned ==
    /\ pc \in {"emit", "emitted"} => live = {}
    /\ pc = "function" => live = {"module"}
    /\ pc \in {"params", "declare", "name"} => live = {"module", "sig"}
    /\ pc \in {"pushParam", "pushReturn"} => live = {"module", "sig", "abi"}
    /\ pc = "create" => live = {"module", "sig", "ufn"}
    /\ pc \in {"context", "display", "define"} => live = {"module", "fn"}
    /\ pc \in {"builder", "dispose"} => live = {"module", "fn", "fbctx"}
    /\ pc \in {"block", "append", "switch", "seal", "body", "return", "finalize"}
           => live = {"module", "fn", "fbctx", "builder"}
    /\ pc = "free" => live = {"module", "fn", "text"}

(* The signature grows with the loop, and is the declared one afterwards.   *)
Whole == [params |-> Arity, returns |-> 1]
Early == {"function", "params", "pushParam", "pushReturn", "declare"}
Late == Building \ (Early \cup {"name", "create"})
Signed ==
    /\ pc \in {"params", "pushParam"} => lib.sig = [params |-> i, returns |-> 0] /\ i <= Arity
    /\ pc = "pushParam" => i < Arity
    /\ pc = "pushReturn" => lib.sig = [params |-> Arity, returns |-> 0]
    /\ pc \in {"declare", "name", "create"} => lib.sig = Whole

(* The functions before this one are declared and defined.                  *)
Listed ==
    /\ pc = "emit" => f = 1 /\ lib.declared = <<>> /\ lib.defined = <<>> /\ rc = 0
    /\ pc \in Building => Len(lib.defined) = f - 1 /\ rc = 0
    /\ pc \in Early => Len(lib.declared) = f - 1
    /\ pc \in Building \ Early =>
        Len(lib.declared) = f /\ fid = f /\ lib.declared[f].sig = Whole
    /\ \A d \in 1..Len(lib.declared) : lib.declared[d].name = prog[d].name
    /\ pc # "emitted" => lib.object = <<>>

(* What the library holds of the function, and the value it returns.        *)
ResultOf(v, arity, vals) == IF v <= arity THEN [arg |-> v, imm |-> ""]
                            ELSE [arg |-> 0, imm |-> vals[v]]
Params == [k \in 1..Arity |-> "param"]
Built ==
    /\ pc \in Late => lib.fun.sig = Whole
    /\ pc \in {"context", "builder", "block"} => lib.fun = CL!NewFunction(Whole)
    /\ pc = "append" => lib.fun.block = "made" /\ ~lib.fun.appended /\ ~lib.fun.sealed
    /\ pc \in {"switch", "seal", "body"} => lib.fun.appended /\ lib.fun.vals = Params
    /\ pc = "switch" => lib.fun.block = "made" /\ ~lib.fun.sealed
    /\ pc = "seal" => lib.fun.block = "open" /\ ~lib.fun.sealed
    /\ pc \in {"body", "return"} => lib.fun.block = "open" /\ lib.fun.sealed
    /\ pc = "return" => rv \in 1..Len(lib.fun.vals)
                        /\ ResultOf(rv, Arity, lib.fun.vals) \in Abstract!Results(Function)
    /\ pc \in {"finalize", "dispose", "display", "free", "define"} =>
        /\ lib.fun.block = "filled" /\ lib.fun.sealed
        /\ lib.fun.ret \in 1..Len(lib.fun.vals)
        /\ ResultOf(lib.fun.ret, Arity, lib.fun.vals) \in Abstract!Results(Function)

Inv == Typed /\ Owned /\ Signed /\ Listed /\ Built

(* What a change of one field leaves of the others.                         *)
LEMMA Update ==
    ASSUME NEW l \in Libs
    PROVE  /\ \A s \in Sigs : CL!WithSig(l, s) \in Libs /\ CL!WithSig(l, s).sig = s
           /\ \A g \in Funs : CL!WithFun(l, g) \in Libs /\ CL!WithFun(l, g).fun = g
           /\ \A d \in [name : Names, sig : Sigs] :
                /\ CL!WithDeclared(l, d) \in Libs
                /\ Len(CL!WithDeclared(l, d).declared) = Len(l.declared) + 1
                /\ CL!WithDeclared(l, d).declared[Len(l.declared) + 1] = d
                /\ \A k \in 1..Len(l.declared) :
                       CL!WithDeclared(l, d).declared[k] = l.declared[k]
                /\ CL!WithDeclared(l, d).sig = l.sig
                /\ CL!WithDeclared(l, d).defined = l.defined
                /\ CL!WithDeclared(l, d).object = l.object
           /\ \A d \in Compiled :
                /\ CL!WithDefined(l, d) \in Libs
                /\ CL!WithDefined(l, d).defined = Append(l.defined, d)
                /\ Len(CL!WithDefined(l, d).defined) = Len(l.defined) + 1
                /\ CL!WithDefined(l, d).declared = l.declared
                /\ CL!WithDefined(l, d).object = l.object
  <1>1. \A s \in Sigs : CL!WithSig(l, s) \in Libs /\ CL!WithSig(l, s).sig = s
    BY DEF Libs, CL!WithSig
  <1>2. \A g \in Funs : CL!WithFun(l, g) \in Libs /\ CL!WithFun(l, g).fun = g
    BY DEF Libs, CL!WithFun
  <1>3. ASSUME NEW d \in [name : Names, sig : Sigs]
        PROVE  /\ CL!WithDeclared(l, d) \in Libs
               /\ CL!WithDeclared(l, d).declared = Append(l.declared, d)
               /\ CL!WithDeclared(l, d).sig = l.sig
               /\ CL!WithDeclared(l, d).defined = l.defined
               /\ CL!WithDeclared(l, d).object = l.object
    <2>1. Append(l.declared, d) \in Seq([name : Names, sig : Sigs]) BY DEF Libs
    <2>2. PICK q \in Seq([name : Names, sig : Sigs]) : q = Append(l.declared, d) BY <2>1
    <2> QED BY <2>2 DEF Libs, CL!WithDeclared
  <1>4. ASSUME NEW d \in Compiled
        PROVE  /\ CL!WithDefined(l, d) \in Libs
               /\ CL!WithDefined(l, d).defined = Append(l.defined, d)
               /\ CL!WithDefined(l, d).declared = l.declared
               /\ CL!WithDefined(l, d).object = l.object
    <2>1. Append(l.defined, d) \in Seq(Compiled) BY DEF Libs
    <2>2. PICK q \in Seq(Compiled) : q = Append(l.defined, d) BY <2>1
    <2> QED BY <2>2 DEF Libs, CL!WithDefined
  <1>5. l.declared \in Seq([name : Names, sig : Sigs]) /\ l.defined \in Seq(Compiled)
    BY DEF Libs
  <1> QED BY <1>1, <1>2, <1>3, <1>4, <1>5

(* Every call keeps the invariant.                                          *)
LEMMA CallKeepsInv == Inv /\ codegen_emit => Inv'
  <1> SUFFICES ASSUME Inv, codegen_emit PROVE Inv'  OBVIOUS
  <1> USE DEF Inv
  <1>a. /\ Len(prog) \in Nat /\ f \in Nat
        /\ f <= Len(prog) => Arity \in Nat /\ Function.name \in Names
    BY ProgramsAssumption DEF Typed, Arity, Function
  <1>1. CASE NewModule
    <2> USE <1>a, <1>1 DEF NewModule, Straight, locals, Call, CL!Effect, CL!Entry, CL!New
    <2>1. Typed' BY DEF Typed, Libs, Funs, Sigs, Values, Compiled, Building, CL!Handles, Arity, Function
    <2>2. Owned' BY DEF Typed, Libs, Owned
    <2>3. Signed' BY DEF Typed, Libs, Sigs, Signed, Whole, Arity, Function
    <2>4. Listed' BY DEF Typed, Libs, Listed, Signed, Whole, Arity, Function, Building, Early
    <2>5. Built' BY DEF Typed, Libs, Funs, Built, Signed, Whole, Arity, Function, Building, Early, Late, Params
    <2> QED BY <2>1, <2>2, <2>3, <2>4, <2>5
  <1>2. CASE NewSignature
    <2> USE <1>a, <1>2 DEF NewSignature, Call, CL!Effect, CL!Entry, CL!Signature_new, CL!NoSignature, CL!WithSig
    <2>1. Typed' BY DEF Typed, Libs, Funs, Sigs, Values, Compiled, Building, CL!Handles, Arity, Function
    <2>2. Owned' BY DEF Typed, Libs, Owned
    <2>3. Signed' BY DEF Typed, Libs, Sigs, Signed, Whole, Arity, Function
    <2>4. Listed' BY DEF Typed, Libs, Listed, Signed, Whole, Arity, Function, Building, Early
    <2>5. Built' BY DEF Typed, Libs, Funs, Built, Signed, Whole, Arity, Function, Building, Early, Late, Params
    <2> QED BY <2>1, <2>2, <2>3, <2>4, <2>5
  <1>3. CASE NewParam
    <2> USE <1>a, <1>3 DEF NewParam, Straight, locals, Call, CL!Effect, CL!Entry, CL!New
    <2>1. Typed' BY DEF Typed, Libs, Funs, Sigs, Values, Compiled, Building, CL!Handles, Arity, Function
    <2>2. Owned' BY DEF Typed, Libs, Owned
    <2>3. Signed' BY DEF Typed, Libs, Sigs, Signed, Whole, Arity, Function
    <2>4. Listed' BY DEF Typed, Libs, Listed, Signed, Whole, Arity, Function, Building, Early
    <2>5. Built' BY DEF Typed, Libs, Funs, Built, Signed, Whole, Arity, Function, Building, Early, Late, Params
    <2> QED BY <2>1, <2>2, <2>3, <2>4, <2>5
  <1>4. CASE PushParam
    <2> USE <1>a, <1>4 DEF PushParam, Call, CL!Effect, CL!Entry, CL!params_push, CL!WithSig
    <2>1. Typed'
      <3>1. lib.sig = [params |-> i, returns |-> 0] /\ i \in Nat /\ lib \in Libs BY DEF Typed, Signed
      <3>2. [params |-> i + 1, returns |-> 0] \in Sigs BY <3>1 DEF Sigs
      <3>3. lib' = CL!WithSig(lib, [params |-> i + 1, returns |-> 0]) BY <3>1
      <3>4. lib' \in Libs BY ONLY <3>1, <3>2, <3>3, Update
      <3> QED BY <3>4 DEF Typed, Building, CL!Handles
    <2>2. Owned' BY DEF Typed, Libs, Owned
    <2>3. Signed'
      <3>1. lib.sig = [params |-> i, returns |-> 0] /\ i \in Nat /\ lib \in Libs BY DEF Typed, Signed
      <3>2. [params |-> i + 1, returns |-> 0] \in Sigs BY <3>1 DEF Sigs
      <3>3. lib' = CL!WithSig(lib, [params |-> i + 1, returns |-> 0]) BY <3>1
      <3>4. lib'.sig = [params |-> i + 1, returns |-> 0] BY ONLY <3>1, <3>2, <3>3, Update
      <3> QED BY <3>4 DEF Typed, Signed, Arity, Function, Building
    <2>4. Listed' BY DEF Typed, Libs, Listed, Signed, Whole, Arity, Function, Building, Early
    <2>5. Built' BY DEF Typed, Libs, Funs, Built, Signed, Whole, Arity, Function, Building, Early, Late, Params
    <2> QED BY <2>1, <2>2, <2>3, <2>4, <2>5
  <1>5. CASE NewReturn
    <2> USE <1>a, <1>5 DEF NewReturn, Straight, locals, Call, CL!Effect, CL!Entry, CL!New
    <2>1. Typed' BY DEF Typed, Libs, Funs, Sigs, Values, Compiled, Building, CL!Handles, Arity, Function
    <2>2. Owned' BY DEF Typed, Libs, Owned
    <2>3. Signed' BY DEF Typed, Libs, Sigs, Signed, Whole, Arity, Function
    <2>4. Listed' BY DEF Typed, Libs, Listed, Signed, Whole, Arity, Function, Building, Early
    <2>5. Built' BY DEF Typed, Libs, Funs, Built, Signed, Whole, Arity, Function, Building, Early, Late, Params
    <2> QED BY <2>1, <2>2, <2>3, <2>4, <2>5
  <1>6. CASE PushReturn
    <2> USE <1>a, <1>6 DEF PushReturn, Straight, locals, Call, CL!Effect, CL!Entry, CL!returns_push, CL!WithSig
    <2>1. Typed'
      <3>1. lib.sig = [params |-> Arity, returns |-> 0] /\ Arity \in Nat /\ lib \in Libs
        BY DEF Typed, Signed, Building
      <3>2. [params |-> Arity, returns |-> 1] \in Sigs BY <3>1 DEF Sigs
      <3>3. lib' = CL!WithSig(lib, [params |-> Arity, returns |-> 1]) BY <3>1
      <3>4. lib' \in Libs BY ONLY <3>1, <3>2, <3>3, Update
      <3> QED BY <3>4 DEF Typed, Building, CL!Handles
    <2>2. Owned' BY DEF Typed, Libs, Owned
    <2>3. Signed' BY DEF Typed, Libs, Sigs, Signed, Whole, Arity, Function
    <2>4. Listed' BY DEF Typed, Libs, Listed, Signed, Whole, Arity, Function, Building, Early
    <2>5. Built' BY DEF Typed, Libs, Funs, Built, Signed, Whole, Arity, Function, Building, Early, Late, Params
    <2> QED BY <2>1, <2>2, <2>3, <2>4, <2>5
  <1>7. CASE Declare
    <2> USE <1>a, <1>7 DEF Declare, Call, CL!Effect, CL!Entry, CL!declare_function
    <2>1. Typed'
      <3>1. Function.name \in Names /\ lib.sig \in Sigs /\ lib \in Libs BY DEF Typed, Libs, Building
      <3>2. PICK d \in [name : Names, sig : Sigs] : d = [name |-> Function.name, sig |-> lib.sig] BY <3>1
      <3>3. lib' = CL!WithDeclared(lib, d) BY <3>2
      <3>4. lib' \in Libs BY ONLY <3>1, <3>3, Update
      <3>5. Len(lib.declared) \in Nat BY <3>1 DEF Libs
      <3> QED BY <3>4, <3>5 DEF Typed, Building, CL!Handles
    <2>2. Owned' BY DEF Typed, Libs, Owned
    <2>3. Signed'
      <3>1. Function.name \in Names /\ lib.sig \in Sigs /\ lib \in Libs /\ lib.sig = Whole
        BY DEF Typed, Libs, Building, Signed
      <3>2. PICK d \in [name : Names, sig : Sigs] : d = [name |-> Function.name, sig |-> lib.sig] BY <3>1
      <3>3. lib' = CL!WithDeclared(lib, d) BY <3>2
      <3>4. lib'.sig = lib.sig BY ONLY <3>1, <3>3, Update
      <3>5. Whole' = Whole /\ pc' = "name" BY DEF Whole, Arity, Function
      <3> HIDE DEF Whole
      <3> QED BY ONLY <3>1, <3>4, <3>5 DEF Signed
    <2>4. Listed'
      <3>1. /\ lib \in Libs /\ Len(lib.declared) = f - 1 /\ f \in Nat /\ Len(lib.defined) = f - 1
            /\ fid' = f /\ pc' = "name" /\ lib.object = <<>> /\ rc = 0 /\ lib.sig = Whole
            /\ f \in 1..Len(prog) /\ Function.name \in Names /\ lib.sig \in Sigs
        BY DEF Typed, Listed, Early, Building, Signed, Libs
      <3>2. PICK d \in [name : Names, sig : Sigs] : d = [name |-> Function.name, sig |-> lib.sig] BY <3>1
      <3>3. lib' = CL!WithDeclared(lib, d) BY <3>2
      <3>4. /\ Len(lib'.declared) = f /\ lib'.declared[f] = d
            /\ \A k \in 1..f - 1 : lib'.declared[k] = lib.declared[k]
            /\ lib'.defined = lib.defined /\ lib'.object = lib.object
        <4>1. /\ Len(lib'.declared) = Len(lib.declared) + 1
              /\ lib'.declared[Len(lib.declared) + 1] = d
              /\ \A k \in 1..Len(lib.declared) : lib'.declared[k] = lib.declared[k]
              /\ lib'.defined = lib.defined /\ lib'.object = lib.object
          BY ONLY <3>1, <3>3, Update
        <4>2. Len(lib.declared) + 1 = f BY ONLY <3>1
        <4> QED BY ONLY <3>1, <4>1, <4>2
      <3>5. d.name = prog[f].name /\ d.sig = Whole BY <3>1, <3>2 DEF Function
      <3>6. \A k \in 1..f : lib'.declared[k].name = prog[k].name
        <4> TAKE k \in 1..f
        <4>1. CASE k = f BY <3>4, <3>5, <4>1
        <4>2. CASE k # f
          <5>1. k \in 1..f - 1 BY <3>1, <4>2
          <5>2. lib.declared[k].name = prog[k].name BY <3>1, <5>1 DEF Listed
          <5> QED BY <3>4, <5>1, <5>2
        <4> QED BY <4>1, <4>2
      <3>7. prog' = prog /\ f' = f /\ rc' = rc /\ Whole' = Whole BY DEF Whole, Arity, Function
      <3> HIDE DEF Whole
      <3> QED BY ONLY <3>1, <3>4, <3>5, <3>6, <3>7 DEF Listed, Building, Early
    <2>5. Built' BY DEF Typed, Libs, Funs, Built, Signed, Whole, Arity, Function, Building, Early, Late, Params
    <2> QED BY <2>1, <2>2, <2>3, <2>4, <2>5
  <1>8. CASE NewName
    <2> USE <1>a, <1>8 DEF NewName, Straight, locals, Call, CL!Effect, CL!Entry, CL!New
    <2>1. Typed' BY DEF Typed, Libs, Funs, Sigs, Values, Compiled, Building, CL!Handles, Arity, Function
    <2>2. Owned' BY DEF Typed, Libs, Owned
    <2>3. Signed' BY DEF Typed, Libs, Sigs, Signed, Whole, Arity, Function
    <2>4. Listed' BY DEF Typed, Libs, Listed, Signed, Whole, Arity, Function, Building, Early
    <2>5. Built' BY DEF Typed, Libs, Funs, Built, Signed, Whole, Arity, Function, Building, Early, Late, Params
    <2> QED BY <2>1, <2>2, <2>3, <2>4, <2>5
  <1>9. CASE CreateFunction
    <2> USE <1>a, <1>9 DEF CreateFunction, Straight, locals, Call, CL!Effect, CL!Entry, CL!with_name_signature, CL!NewFunction, CL!WithFun
    <2>1. Typed'
      <3>1. lib.sig \in Sigs /\ lib \in Libs BY DEF Typed, Libs
      <3>2. CL!NewFunction(lib.sig) \in Funs
        <4>1. <<>> \in Values BY DEF Values
        <4> QED BY <3>1, <4>1 DEF Funs
      <3>3. lib' = CL!WithFun(lib, CL!NewFunction(lib.sig)) OBVIOUS
      <3>4. lib' \in Libs BY ONLY <3>1, <3>2, <3>3, Update
      <3> QED BY <3>4 DEF Typed, Building, CL!Handles
    <2>2. Owned' BY DEF Typed, Libs, Owned
    <2>3. Signed' BY DEF Typed, Libs, Sigs, Signed, Whole, Arity, Function
    <2>4. Listed' BY DEF Typed, Libs, Listed, Signed, Whole, Arity, Function, Building, Early
    <2>5. Built' BY DEF Typed, Libs, Funs, Built, Signed, Whole, Arity, Function, Building, Early, Late, Params
    <2> QED BY <2>1, <2>2, <2>3, <2>4, <2>5
  <1>10. CASE NewContext
    <2> USE <1>a, <1>10 DEF NewContext, Straight, locals, Call, CL!Effect, CL!Entry, CL!New
    <2>1. Typed' BY DEF Typed, Libs, Funs, Sigs, Values, Compiled, Building, CL!Handles, Arity, Function
    <2>2. Owned' BY DEF Typed, Libs, Owned
    <2>3. Signed' BY DEF Typed, Libs, Sigs, Signed, Whole, Arity, Function
    <2>4. Listed' BY DEF Typed, Libs, Listed, Signed, Whole, Arity, Function, Building, Early
    <2>5. Built' BY DEF Typed, Libs, Funs, Built, Signed, Whole, Arity, Function, Building, Early, Late, Params
    <2> QED BY <2>1, <2>2, <2>3, <2>4, <2>5
  <1>11. CASE NewBuilder
    <2> USE <1>a, <1>11 DEF NewBuilder, Straight, locals, Call, CL!Effect, CL!Entry, CL!Builder_new
    <2>1. Typed' BY DEF Typed, Libs, Funs, Sigs, Values, Compiled, Building, CL!Handles, Arity, Function
    <2>2. Owned' BY DEF Typed, Libs, Owned
    <2>3. Signed' BY DEF Typed, Libs, Sigs, Signed, Whole, Arity, Function
    <2>4. Listed' BY DEF Typed, Libs, Listed, Signed, Whole, Arity, Function, Building, Early
    <2>5. Built' BY DEF Typed, Libs, Funs, Built, Signed, Whole, Arity, Function, Building, Early, Late, Params
    <2> QED BY <2>1, <2>2, <2>3, <2>4, <2>5
  <1>12. CASE CreateBlock
    <2> USE <1>a, <1>12 DEF CreateBlock, Straight, locals, Call, CL!Effect, CL!Entry, CL!create_block, CL!Building, CL!WithFun
    <2>1. Typed' BY DEF Typed, Libs, Funs, Sigs, Values, Compiled, Building, CL!Handles, Arity, Function
    <2>2. Owned' BY DEF Typed, Libs, Owned
    <2>3. Signed' BY DEF Typed, Libs, Sigs, Signed, Whole, Arity, Function
    <2>4. Listed' BY DEF Typed, Libs, Listed, Signed, Whole, Arity, Function, Building, Early
    <2>5. Built'
      <3>1. lib.fun = CL!NewFunction(Whole) BY DEF Built
      <3>2. lib'.fun = [CL!NewFunction(Whole) EXCEPT !.block = "made"] BY <3>1 DEF Typed, Libs
      <3>3. lib'.fun.sig = Whole /\ lib'.fun.block = "made" /\ ~lib'.fun.appended /\ ~lib'.fun.sealed
        BY <3>2 DEF CL!NewFunction
      <3> QED BY <3>3 DEF Built, Late, Whole, Arity, Function, Building, Early
    <2> QED BY <2>1, <2>2, <2>3, <2>4, <2>5
  <1>13. CASE AppendParams
    <2> USE <1>a, <1>13 DEF AppendParams, Straight, locals, Call, CL!Effect, CL!Entry, CL!append_params, CL!Building, CL!WithFun
    <2>1. Typed'
      <3>1. lib.fun.sig.params = Arity /\ Arity \in Nat /\ lib \in Libs
        BY DEF Typed, Built, Whole, Late, Early, Building
      <3>2. Params \in Values BY <3>1, SeqDef DEF Params, Values
      <3>3. PICK g : g = [lib.fun EXCEPT !.appended = TRUE, !.vals = Params] OBVIOUS
      <3>4. g \in Funs BY <3>1, <3>2, <3>3 DEF Funs, Libs
      <3>5. lib' = CL!WithFun(lib, g) BY <3>1, <3>3 DEF Params
      <3>6. lib' \in Libs BY ONLY <3>1, <3>4, <3>5, Update
      <3> QED BY <3>6 DEF Typed, Building, CL!Handles
    <2>2. Owned' BY DEF Typed, Libs, Owned
    <2>3. Signed' BY DEF Typed, Libs, Sigs, Signed, Whole, Arity, Function
    <2>4. Listed' BY DEF Typed, Libs, Listed, Signed, Whole, Arity, Function, Building, Early
    <2>5. Built'
      <3>1. lib.fun.sig = Whole /\ lib.fun.sig.params = Arity /\ lib \in Libs /\ Arity \in Nat
            /\ lib.fun.block = "made" /\ ~lib.fun.sealed /\ pc' = "switch"
        BY DEF Built, Whole, Late, Early, Building, Typed
      <3>2. Params \in Values BY <3>1, SeqDef DEF Params, Values
      <3>3. PICK g : g = [lib.fun EXCEPT !.appended = TRUE, !.vals = Params] OBVIOUS
      <3>4. g \in Funs /\ g.sig = Whole /\ g.appended /\ g.vals = Params /\ g.block = "made" /\ ~g.sealed
        BY <3>1, <3>2, <3>3 DEF Funs, Libs
      <3>5. lib' = CL!WithFun(lib, g) BY <3>1, <3>3 DEF Params
      <3>6. lib'.fun = g BY ONLY <3>1, <3>4, <3>5, Update
      <3>7. Params' = Params /\ Whole' = Whole BY DEF Params, Whole, Arity, Function
      <3> HIDE DEF Params, Whole
      <3> QED BY ONLY <3>1, <3>4, <3>6, <3>7 DEF Built
    <2> QED BY <2>1, <2>2, <2>3, <2>4, <2>5
  <1>14. CASE SwitchToBlock
    <2> USE <1>a, <1>14 DEF SwitchToBlock, Straight, locals, Call, CL!Effect, CL!Entry, CL!switch_to_block, CL!Building, CL!WithFun
    <2>1. Typed' BY DEF Typed, Libs, Funs, Sigs, Values, Compiled, Building, CL!Handles, Arity, Function
    <2>2. Owned' BY DEF Typed, Libs, Owned
    <2>3. Signed' BY DEF Typed, Libs, Sigs, Signed, Whole, Arity, Function
    <2>4. Listed' BY DEF Typed, Libs, Listed, Signed, Whole, Arity, Function, Building, Early
    <2>5. Built' BY DEF Typed, Libs, Funs, Built, Signed, Whole, Arity, Function, Building, Early, Late, Params
    <2> QED BY <2>1, <2>2, <2>3, <2>4, <2>5
  <1>15. CASE SealBlock
    <2> USE <1>a, <1>15 DEF SealBlock, Straight, locals, Call, CL!Effect, CL!Entry, CL!seal_block, CL!Building, CL!WithFun
    <2>1. Typed' BY DEF Typed, Libs, Funs, Sigs, Values, Compiled, Building, CL!Handles, Arity, Function
    <2>2. Owned' BY DEF Typed, Libs, Owned
    <2>3. Signed' BY DEF Typed, Libs, Sigs, Signed, Whole, Arity, Function
    <2>4. Listed' BY DEF Typed, Libs, Listed, Signed, Whole, Arity, Function, Building, Early
    <2>5. Built' BY DEF Typed, Libs, Funs, Built, Signed, Whole, Arity, Function, Building, Early, Late, Params
    <2> QED BY <2>1, <2>2, <2>3, <2>4, <2>5
  <1>16. CASE RejectBody
    <2> USE <1>a, <1>16 DEF RejectBody, Exit
    <2>1. Typed' BY DEF Typed, Libs, Funs, Sigs, Values, Compiled, Building, CL!Handles, Arity, Function
    <2>2. Owned' BY DEF Typed, Libs, Owned
    <2>3. Signed' BY DEF Typed, Libs, Sigs, Signed, Whole, Arity, Function
    <2>4. Listed' BY DEF Typed, Libs, Listed, Signed, Whole, Arity, Function, Building, Early
    <2>5. Built' BY DEF Typed, Libs, Funs, Built, Signed, Whole, Arity, Function, Building, Early, Late, Params
    <2> QED BY <2>1, <2>2, <2>3, <2>4, <2>5
  <1>17. CASE LowerLiteral
    <2> USE <1>a, <1>17 DEF LowerLiteral, Call, CL!Effect, CL!Entry, CL!iconst, CL!Building, CL!WithFun
    <2>1. Typed'
      <3>1. lib \in Libs /\ lib.fun.vals \in Values /\ Len(lib.fun.vals) \in Nat BY DEF Typed, Libs, Funs, Values
      <3>2. Returned.v \in Immediates \cup {"param"}
        BY ProgramsAssumption DEF Typed, Building, SingleReturn, Returned, Body, Function
      <3>3. Append(lib.fun.vals, Returned.v) \in Values BY ONLY <3>1, <3>2 DEF Values
      <3>4. PICK g : g = [lib.fun EXCEPT !.vals = Append(lib.fun.vals, Returned.v)] OBVIOUS
      <3>5. g \in Funs BY ONLY <3>1, <3>3, <3>4 DEF Funs, Libs
      <3>6. lib' = CL!WithFun(lib, g) BY <3>4
      <3>7. lib' \in Libs BY ONLY <3>1, <3>5, <3>6, Update
      <3> QED BY <3>1, <3>7 DEF Typed, Building, CL!Handles
    <2>2. Owned' BY DEF Typed, Libs, Owned
    <2>3. Signed' BY DEF Typed, Libs, Sigs, Signed, Whole, Arity, Function
    <2>4. Listed' BY DEF Typed, Libs, Listed, Signed, Whole, Arity, Function, Building, Early
    <2>5. Built'
      <3>1. /\ lib.fun.sig = Whole /\ lib.fun.vals = Params /\ lib.fun.block = "open"
            /\ lib.fun.sealed /\ lib.fun.vals \in Values /\ Arity \in Nat /\ lib \in Libs
        BY DEF Typed, Libs, Funs, Built, Late, Early, Building
      <3>2. Returned.v \in Immediates \cup {"param"}
        BY ProgramsAssumption DEF Typed, Building, SingleReturn, Returned, Body, Function
      <3>3. Len(lib.fun.vals) = Arity BY <3>1 DEF Params
      <3>4. PICK v : v = Append(lib.fun.vals, Returned.v) OBVIOUS
      <3>5. v \in Values /\ Len(v) = Arity + 1 /\ v[Arity + 1] = Returned.v
        BY ONLY <3>1, <3>2, <3>3, <3>4 DEF Values
      <3>6. PICK g : g = [lib.fun EXCEPT !.vals = v] OBVIOUS
      <3>7. g \in Funs /\ g.sig = Whole /\ g.vals = v /\ g.block = "open" /\ g.sealed
        BY ONLY <3>1, <3>5, <3>6 DEF Funs, Libs
      <3>8. lib' = CL!WithFun(lib, g) BY <3>4, <3>6
      <3>9. lib'.fun = g BY ONLY <3>1, <3>7, <3>8, Update
      <3>10. Whole' = Whole /\ Arity' = Arity /\ Function' = Function BY DEF Whole, Arity, Function
      <3>11. ResultOf(Arity + 1, Arity, v) = [arg |-> 0, imm |-> Returned.v]
        <4>1. ~(Arity + 1 <= Arity) BY <3>1
        <4> QED BY ONLY <3>5, <4>1, Zenon DEF ResultOf
      <3>12. ResultOf(Arity + 1, Arity, v) \in Abstract!Results(Function)
        BY <3>11 DEF Abstract!Results, Abstract!Returns, Abstract!Value, SingleReturn, Returned, Body
      <3>13. rv' = Arity + 1 /\ pc' = "return" BY <3>3
      <3> HIDE DEF Whole, Arity, Function
      <3>14. rv' \in 1..Len(v) BY ONLY <3>1, <3>5, <3>13
      <3> QED BY ONLY <3>7, <3>9, <3>10, <3>12, <3>13, <3>14 DEF Built
    <2> QED BY <2>1, <2>2, <2>3, <2>4, <2>5
  <1>18. CASE LowerParam
    <2> USE <1>a, <1>18 DEF LowerParam, Call, CL!Effect, CL!Entry, CL!block_params, CL!Building
    <2>1. Typed' BY DEF Typed, Libs, Funs, Sigs, Values, Compiled, Building, CL!Handles, Arity, Function
    <2>2. Owned' BY DEF Typed, Libs, Owned
    <2>3. Signed' BY DEF Typed, Libs, Sigs, Signed, Whole, Arity, Function
    <2>4. Listed' BY DEF Typed, Libs, Listed, Signed, Whole, Arity, Function, Building, Early
    <2>5. Built'
      <3>1. /\ lib.fun.sig = Whole /\ lib.fun.vals = Params /\ lib.fun.block = "open"
            /\ lib.fun.sealed /\ Arity \in Nat /\ lib' = lib /\ pc' = "return"
        BY DEF Typed, Built, Late, Early, Building
      <3>2. PICK k \in 1..Arity : rv' = k /\ Function.params[k] = Returned.v OBVIOUS
      <3>3. Len(lib.fun.vals) = Arity BY <3>1 DEF Params
      <3>4. Whole' = Whole /\ Arity' = Arity /\ Function' = Function BY DEF Whole, Arity, Function
      <3>5. ResultOf(k, Arity, lib.fun.vals) = [arg |-> k, imm |-> ""] BY <3>1, <3>2 DEF ResultOf
      <3>6. ResultOf(k, Arity, lib.fun.vals) \in Abstract!Results(Function)
        BY <3>1, <3>2, <3>5 DEF Abstract!Results, Abstract!Returns, Abstract!Value,
           SingleReturn, Returned, Body, Arity
      <3> HIDE DEF Whole, Arity, Function
      <3>7. ResultOf(rv', Arity', lib'.fun.vals) \in Abstract!Results(Function')
        BY <3>1, <3>2, <3>4, <3>6
      <3> QED BY <3>1, <3>2, <3>3, <3>4, <3>7 DEF Built
    <2> QED BY <2>1, <2>2, <2>3, <2>4, <2>5
  <1>19. CASE RejectExpr
    <2> USE <1>a, <1>19 DEF RejectExpr, Exit
    <2>1. Typed' BY DEF Typed, Libs, Funs, Sigs, Values, Compiled, Building, CL!Handles, Arity, Function
    <2>2. Owned' BY DEF Typed, Libs, Owned
    <2>3. Signed' BY DEF Typed, Libs, Sigs, Signed, Whole, Arity, Function
    <2>4. Listed' BY DEF Typed, Libs, Listed, Signed, Whole, Arity, Function, Building, Early
    <2>5. Built' BY DEF Typed, Libs, Funs, Built, Signed, Whole, Arity, Function, Building, Early, Late, Params
    <2> QED BY <2>1, <2>2, <2>3, <2>4, <2>5
  <1>20. CASE Return
    <2> USE <1>a, <1>20 DEF Return, Straight, locals, Call, CL!Effect, CL!Entry, CL!return_, CL!Building, CL!WithFun
    <2>1. Typed' BY DEF Typed, Libs, Funs, Sigs, Values, Compiled, Building, CL!Handles, Arity, Function
    <2>2. Owned' BY DEF Typed, Libs, Owned
    <2>3. Signed' BY DEF Typed, Libs, Sigs, Signed, Whole, Arity, Function
    <2>4. Listed' BY DEF Typed, Libs, Listed, Signed, Whole, Arity, Function, Building, Early
    <2>5. Built' BY DEF Typed, Libs, Funs, Built, Signed, Whole, Arity, Function, Building, Early, Late, Params
    <2> QED BY <2>1, <2>2, <2>3, <2>4, <2>5
  <1>21. CASE Finalize
    <2> USE <1>a, <1>21 DEF Finalize, Straight, locals, Call, CL!Effect, CL!Entry, CL!finalize
    <2>1. Typed' BY DEF Typed, Libs, Funs, Sigs, Values, Compiled, Building, CL!Handles, Arity, Function
    <2>2. Owned' BY DEF Typed, Libs, Owned
    <2>3. Signed' BY DEF Typed, Libs, Sigs, Signed, Whole, Arity, Function
    <2>4. Listed' BY DEF Typed, Libs, Listed, Signed, Whole, Arity, Function, Building, Early
    <2>5. Built' BY DEF Typed, Libs, Funs, Built, Signed, Whole, Arity, Function, Building, Early, Late, Params
    <2> QED BY <2>1, <2>2, <2>3, <2>4, <2>5
  <1>22. CASE Dispose
    <2> USE <1>a, <1>22 DEF Dispose, Straight, locals, Call, CL!Effect, CL!Entry, CL!dispose
    <2>1. Typed' BY DEF Typed, Libs, Funs, Sigs, Values, Compiled, Building, CL!Handles, Arity, Function
    <2>2. Owned' BY DEF Typed, Libs, Owned
    <2>3. Signed' BY DEF Typed, Libs, Sigs, Signed, Whole, Arity, Function
    <2>4. Listed' BY DEF Typed, Libs, Listed, Signed, Whole, Arity, Function, Building, Early
    <2>5. Built' BY DEF Typed, Libs, Funs, Built, Signed, Whole, Arity, Function, Building, Early, Late, Params
    <2> QED BY <2>1, <2>2, <2>3, <2>4, <2>5
  <1>23. CASE Display
    <2> USE <1>a, <1>23 DEF Display, Straight, locals, Call, CL!Effect, CL!Entry, CL!display
    <2>1. Typed' BY DEF Typed, Libs, Funs, Sigs, Values, Compiled, Building, CL!Handles, Arity, Function
    <2>2. Owned' BY DEF Typed, Libs, Owned
    <2>3. Signed' BY DEF Typed, Libs, Sigs, Signed, Whole, Arity, Function
    <2>4. Listed' BY DEF Typed, Libs, Listed, Signed, Whole, Arity, Function, Building, Early
    <2>5. Built' BY DEF Typed, Libs, Funs, Built, Signed, Whole, Arity, Function, Building, Early, Late, Params
    <2> QED BY <2>1, <2>2, <2>3, <2>4, <2>5
  <1>24. CASE FreeText
    <2> USE <1>a, <1>24 DEF FreeText, Straight, locals, Call, CL!Effect, CL!Entry, CL!cstr_free
    <2>1. Typed' BY DEF Typed, Libs, Funs, Sigs, Values, Compiled, Building, CL!Handles, Arity, Function
    <2>2. Owned' BY DEF Typed, Libs, Owned
    <2>3. Signed' BY DEF Typed, Libs, Sigs, Signed, Whole, Arity, Function
    <2>4. Listed' BY DEF Typed, Libs, Listed, Signed, Whole, Arity, Function, Building, Early
    <2>5. Built' BY DEF Typed, Libs, Funs, Built, Signed, Whole, Arity, Function, Building, Early, Late, Params
    <2> QED BY <2>1, <2>2, <2>3, <2>4, <2>5
  <1>25. CASE Define
    <2> USE <1>a, <1>25 DEF Define, Call, CL!Effect, CL!Entry, CL!define_function
    <2>1. Typed'
      <3>1. /\ fid = f /\ Len(lib.declared) = f /\ lib.declared \in Seq([name : Names, sig : Sigs])
            /\ lib.fun \in Funs /\ f <= Len(prog) /\ f \in Nat /\ f >= 1 /\ lib \in Libs
        BY DEF Typed, Libs, Listed, Building, Early
      <3>2. lib.declared[f] \in [name : Names, sig : Sigs]
        <4>1. f \in 1..Len(lib.declared) BY ONLY <3>1
        <4> QED BY ONLY <3>1, <4>1, ElementOfSeq
      <3>3. PICK d : d = [name |-> lib.declared[f].name, params |-> lib.fun.sig.params,
                          vals |-> lib.fun.vals, ret |-> lib.fun.ret] OBVIOUS
      <3>4. d \in Compiled BY ONLY <3>1, <3>2, <3>3 DEF Compiled, Funs, Sigs
      <3>5. lib' = CL!WithDefined(lib, d) BY <3>1, <3>3
      <3>6. lib' \in Libs BY ONLY <3>1, <3>4, <3>5, Update
      <3> QED BY <3>1, <3>6 DEF Typed, Building, CL!Handles
    <2>2. Owned' BY DEF Typed, Libs, Owned
    <2>3. Signed' BY DEF Typed, Libs, Sigs, Signed, Whole, Arity, Function
    <2>4. Listed'
      <3>1. /\ fid = f /\ Len(lib.declared) = f /\ lib.declared \in Seq([name : Names, sig : Sigs])
            /\ lib.fun \in Funs /\ f <= Len(prog) /\ f \in Nat /\ f >= 1 /\ lib \in Libs
            /\ Len(lib.defined) = f - 1 /\ rc = 0 /\ lib.object = <<>>
        BY DEF Typed, Libs, Listed, Building, Early
      <3>2. lib.declared[f] \in [name : Names, sig : Sigs]
        <4>1. f \in 1..Len(lib.declared) BY ONLY <3>1
        <4> QED BY ONLY <3>1, <4>1, ElementOfSeq
      <3>3. PICK d : d = [name |-> lib.declared[f].name, params |-> lib.fun.sig.params,
                          vals |-> lib.fun.vals, ret |-> lib.fun.ret] OBVIOUS
      <3>4. d \in Compiled BY ONLY <3>1, <3>2, <3>3 DEF Compiled, Funs, Sigs
      <3>5. lib' = CL!WithDefined(lib, d) BY <3>1, <3>3
      <3>6. /\ Len(lib'.defined) = f /\ lib'.declared = lib.declared /\ lib'.object = lib.object
        <4>1. /\ Len(lib'.defined) = Len(lib.defined) + 1
              /\ lib'.declared = lib.declared /\ lib'.object = lib.object
          BY ONLY <3>1, <3>4, <3>5, Update
        <4> QED BY ONLY <3>1, <4>1
      <3>7. prog' = prog /\ rc' = rc /\ f' = f + 1 /\ pc' = "function" OBVIOUS
      <3>8. \A k \in 1..Len(lib.declared) : lib.declared[k].name = prog[k].name BY DEF Listed
      <3> QED BY ONLY <3>1, <3>6, <3>7, <3>8 DEF Listed, Building, Early
    <2>5. Built' BY DEF Typed, Libs, Funs, Built, Signed, Whole, Arity, Function, Building, Early, Late, Params
    <2> QED BY <2>1, <2>2, <2>3, <2>4, <2>5
  <1>26. CASE Finish
    <2> USE <1>a, <1>26 DEF Finish, Call, CL!Effect, CL!Entry, CL!finish_and_emit
    <2>1. Typed'
      <3>1. lib \in Libs /\ pc = "function" BY DEF Typed
      <3>2. PICK ok \in BOOLEAN : lib' = IF ok THEN [lib EXCEPT !.object = lib.defined] ELSE lib OBVIOUS
      <3>3. lib' \in Libs BY ONLY <3>1, <3>2 DEF Libs
      <3>4. rc' \in {0, 1} OBVIOUS
      <3> QED BY <3>1, <3>3, <3>4 DEF Typed, Building, CL!Handles
    <2>2. Owned' BY DEF Typed, Libs, Owned
    <2>3. Signed' BY DEF Typed, Libs, Sigs, Signed, Whole, Arity, Function
    <2>4. Listed' BY DEF Typed, Libs, Listed, Signed, Whole, Arity, Function, Building, Early
    <2>5. Built' BY DEF Typed, Libs, Funs, Built, Signed, Whole, Arity, Function, Building, Early, Late, Params
    <2> QED BY <2>1, <2>2, <2>3, <2>4, <2>5
  <1> QED BY <1>1, <1>2, <1>3, <1>4, <1>5, <1>6, <1>7, <1>8, <1>9, <1>10, <1>11, <1>12, <1>13, <1>14, <1>15, <1>16, <1>17, <1>18, <1>19, <1>20, <1>21, <1>22, <1>23, <1>24, <1>25, <1>26
          DEF codegen_emit, emit_function, LowerReturned

(* Every call is one the library allows.                                    *)
LEMMA CallIsLegal == Inv /\ codegen_emit => CL!Next \/ UNCHANGED CL!vars
  <1> SUFFICES ASSUME Inv, codegen_emit PROVE CL!Next \/ UNCHANGED CL!vars  OBVIOUS
  <1> USE DEF Inv
  <1>a. /\ Len(prog) \in Nat /\ f \in Nat
        /\ f <= Len(prog) => Arity \in Nat /\ Function.name \in Names
    BY ProgramsAssumption DEF Typed, Arity, Function
  <1>1. CASE NewModule
    <2> USE <1>1 DEF NewModule, Straight, locals, Call, CL!Effect, CL!Entry, CL!New
    <2>1. CL!Makes(CL!New(lib, "module")) BY DEF CL!Makes, CL!Legal, Owned, Built
    <2> QED BY <2>1 DEF CL!Next
  <1>2. CASE NewSignature
    <2> USE <1>2 DEF NewSignature, Call, CL!Effect, CL!Entry, CL!Signature_new, CL!NoSignature, CL!WithSig
    <2>1. CL!Makes(CL!Signature_new(lib)) BY DEF CL!Makes, CL!Legal, Owned, Built
    <2> QED BY <2>1 DEF CL!Next
  <1>3. CASE NewParam
    <2> USE <1>3 DEF NewParam, Straight, locals, Call, CL!Effect, CL!Entry, CL!New
    <2>1. CL!Makes(CL!New(lib, "abi")) BY DEF CL!Makes, CL!Legal, Owned, Built
    <2> QED BY <2>1 DEF CL!Next
  <1>4. CASE PushParam
    <2> USE <1>4 DEF PushParam, Call, CL!Effect, CL!Entry, CL!params_push, CL!WithSig
    <2>1. CL!Makes(CL!params_push(lib)) BY DEF CL!Makes, CL!Legal, Owned, Built
    <2> QED BY <2>1 DEF CL!Next
  <1>5. CASE NewReturn
    <2> USE <1>5 DEF NewReturn, Straight, locals, Call, CL!Effect, CL!Entry, CL!New
    <2>1. CL!Makes(CL!New(lib, "abi")) BY DEF CL!Makes, CL!Legal, Owned, Built
    <2> QED BY <2>1 DEF CL!Next
  <1>6. CASE PushReturn
    <2> USE <1>6 DEF PushReturn, Straight, locals, Call, CL!Effect, CL!Entry, CL!returns_push, CL!WithSig
    <2>1. CL!Makes(CL!returns_push(lib)) BY DEF CL!Makes, CL!Legal, Owned, Built
    <2> QED BY <2>1 DEF CL!Next
  <1>7. CASE Declare
    <2> USE <1>7 DEF Declare, Call, CL!Effect, CL!Entry, CL!declare_function
    <2>1. \A d \in 1..Len(lib.declared) : lib.declared[d].name # Function.name
      <3>1. Len(lib.declared) = f - 1 /\ f \in 1..Len(prog) /\ Len(prog) \in Nat
        BY ProgramsAssumption DEF Typed, Listed, Early, Building
      <3>2. \A d \in 1..f - 1 : prog[d].name # prog[f].name
        BY <3>1, ProgramsAssumption DEF Typed
      <3> QED BY <3>1, <3>2 DEF Listed, Function
    <2>2. CL!Makes(CL!declare_function(lib, Function.name))
      BY <2>1 DEF CL!Makes, CL!Legal, Owned
    <2>3. Function.name \in Names BY ProgramsAssumption DEF Typed, Building, Function
    <2> QED BY <2>2, <2>3 DEF CL!Next
  <1>8. CASE NewName
    <2> USE <1>8 DEF NewName, Straight, locals, Call, CL!Effect, CL!Entry, CL!New
    <2>1. CL!Makes(CL!New(lib, "ufn")) BY DEF CL!Makes, CL!Legal, Owned, Built
    <2> QED BY <2>1 DEF CL!Next
  <1>9. CASE CreateFunction
    <2> USE <1>9 DEF CreateFunction, Straight, locals, Call, CL!Effect, CL!Entry, CL!with_name_signature, CL!NewFunction, CL!WithFun
    <2>1. CL!Makes(CL!with_name_signature(lib)) BY DEF CL!Makes, CL!Legal, Owned, Built
    <2> QED BY <2>1 DEF CL!Next
  <1>10. CASE NewContext
    <2> USE <1>10 DEF NewContext, Straight, locals, Call, CL!Effect, CL!Entry, CL!New
    <2>1. CL!Makes(CL!New(lib, "fbctx")) BY DEF CL!Makes, CL!Legal, Owned, Built
    <2> QED BY <2>1 DEF CL!Next
  <1>11. CASE NewBuilder
    <2> USE <1>11 DEF NewBuilder, Straight, locals, Call, CL!Effect, CL!Entry, CL!Builder_new
    <2>1. CL!Makes(CL!Builder_new(lib)) BY DEF CL!Makes, CL!Legal, Owned, Built
    <2> QED BY <2>1 DEF CL!Next
  <1>12. CASE CreateBlock
    <2> USE <1>12 DEF CreateBlock, Straight, locals, Call, CL!Effect, CL!Entry, CL!create_block, CL!Building, CL!WithFun
    <2>1. lib.fun.block = "none" BY DEF Built, CL!NewFunction
    <2>2. CL!Makes(CL!create_block(lib)) BY <2>1 DEF CL!Makes, CL!Legal, Owned
    <2> QED BY <2>2 DEF CL!Next
  <1>13. CASE AppendParams
    <2> USE <1>13 DEF AppendParams, Straight, locals, Call, CL!Effect, CL!Entry, CL!append_params, CL!Building, CL!WithFun
    <2>1. CL!Makes(CL!append_params(lib)) BY DEF CL!Makes, CL!Legal, Owned, Built
    <2> QED BY <2>1 DEF CL!Next
  <1>14. CASE SwitchToBlock
    <2> USE <1>14 DEF SwitchToBlock, Straight, locals, Call, CL!Effect, CL!Entry, CL!switch_to_block, CL!Building, CL!WithFun
    <2>1. CL!Makes(CL!switch_to_block(lib)) BY DEF CL!Makes, CL!Legal, Owned, Built
    <2> QED BY <2>1 DEF CL!Next
  <1>15. CASE SealBlock
    <2> USE <1>15 DEF SealBlock, Straight, locals, Call, CL!Effect, CL!Entry, CL!seal_block, CL!Building, CL!WithFun
    <2>1. CL!Makes(CL!seal_block(lib)) BY DEF CL!Makes, CL!Legal, Owned, Built
    <2> QED BY <2>1 DEF CL!Next
  <1>16. CASE RejectBody
    BY <1>16 DEF RejectBody, Exit, CL!vars
  <1>17. CASE LowerLiteral
    <2> USE <1>17 DEF LowerLiteral, Call, CL!Effect, CL!Entry, CL!iconst, CL!Building, CL!WithFun
    <2>1. CL!Makes(CL!iconst(lib, Returned.v)) BY DEF CL!Makes, CL!Legal, Owned, Built
    <2>2. Returned.v \in Immediates
      BY ProgramsAssumption DEF Typed, Building, SingleReturn, Returned, Body, Function
    <2> QED BY <2>1, <2>2 DEF CL!Next
  <1>18. CASE LowerParam
    <2> USE <1>18 DEF LowerParam, Call, CL!Effect, CL!Entry, CL!block_params, CL!Building
    <2>1. PICK k \in 1..Arity : Call("body", CL!block_params(lib, k - 1), "return") OBVIOUS
    <2>2. lib.fun.sig = Whole /\ lib.fun.sig.params = Arity /\ Arity \in Nat
      BY <1>a DEF Typed, Built, Whole, Late, Early, Building
    <2>3. pc = "body" /\ lib.fun.appended /\ live = {"module", "fn", "fbctx", "builder"}
      BY DEF Owned, Built
    <2>4. k - 1 \in 0..lib.fun.sig.params /\ k - 1 < lib.fun.sig.params BY ONLY <2>2
    <2>5. CL!Makes(CL!block_params(lib, k - 1))
      BY ONLY <2>1, <2>3, <2>4 DEF CL!Makes, CL!Legal, CL!Effect, CL!Entry, CL!Building, CL!block_params, Call
    <2> QED BY ONLY <2>4, <2>5 DEF CL!Next
  <1>19. CASE RejectExpr
    BY <1>19 DEF RejectExpr, Exit, CL!vars
  <1>20. CASE Return
    <2> USE <1>20 DEF Return, Straight, locals, Call, CL!Effect, CL!Entry, CL!return_, CL!Building, CL!WithFun
    <2>1. lib.fun.sig = Whole /\ lib.fun.sig.returns = 1
     BY DEF Built, Whole, Late, Early, Building
    <2>2. CL!Makes(CL!return_(lib, rv)) BY <2>1 DEF CL!Makes, CL!Legal, Owned, Built
    <2> QED BY <2>2 DEF CL!Next, Built
  <1>21. CASE Finalize
    <2> USE <1>21 DEF Finalize, Straight, locals, Call, CL!Effect, CL!Entry, CL!finalize
    <2>1. CL!Makes(CL!finalize(lib)) BY DEF CL!Makes, CL!Legal, Owned, Built
    <2> QED BY <2>1 DEF CL!Next
  <1>22. CASE Dispose
    <2> USE <1>22 DEF Dispose, Straight, locals, Call, CL!Effect, CL!Entry, CL!dispose
    <2>1. CL!Makes(CL!dispose(lib)) BY DEF CL!Makes, CL!Legal, Owned, Built
    <2> QED BY <2>1 DEF CL!Next
  <1>23. CASE Display
    <2> USE <1>23 DEF Display, Straight, locals, Call, CL!Effect, CL!Entry, CL!display
    <2>1. CL!Makes(CL!display(lib)) BY DEF CL!Makes, CL!Legal, Owned, Built
    <2> QED BY <2>1 DEF CL!Next
  <1>24. CASE FreeText
    <2> USE <1>24 DEF FreeText, Straight, locals, Call, CL!Effect, CL!Entry, CL!cstr_free
    <2>1. CL!Makes(CL!cstr_free(lib)) BY DEF CL!Makes, CL!Legal, Owned, Built
    <2> QED BY <2>1 DEF CL!Next
  <1>25. CASE Define
    <2> USE <1>25 DEF Define, Call, CL!Effect, CL!Entry, CL!define_function
    <2>1. lib.fun.sig = Whole /\ lib.declared[f].sig = Whole /\ fid = f /\ f \in Nat /\ f >= 1
          /\ Len(lib.declared) = f /\ Len(lib.defined) = f - 1 /\ lib.fun.block = "filled"
      BY DEF Typed, Built, Listed, Late, Early, Building
    <2>2. CL!Makes(CL!define_function(lib, fid)) BY <2>1 DEF CL!Makes, CL!Legal, Owned
    <2>3. fid \in 1..Len(lib.declared) BY ONLY <2>1
    <2> QED BY ONLY <2>2, <2>3 DEF CL!Next
  <1>26. CASE Finish
    <2> USE <1>26 DEF Finish, Call, CL!Effect, CL!Entry, CL!finish_and_emit
    <2>1. Len(lib.defined) = Len(lib.declared) BY DEF Listed, Early, Building
    <2>2. PICK ok \in BOOLEAN : Call("function", CL!finish_and_emit(lib, ok), "emitted") OBVIOUS
    <2>3. CL!Makes(CL!finish_and_emit(lib, ok)) BY <2>1, <2>2 DEF CL!Makes, CL!Legal, Owned
    <2> QED BY <2>3 DEF CL!Next
  <1> QED BY <1>1, <1>2, <1>3, <1>4, <1>5, <1>6, <1>7, <1>8, <1>9, <1>10, <1>11, <1>12, <1>13, <1>14, <1>15, <1>16, <1>17, <1>18, <1>19, <1>20, <1>21, <1>22, <1>23, <1>24, <1>25, <1>26
          DEF codegen_emit, emit_function, LowerReturned

(* What the mapping makes of one more function.                             *)
LEMMA SeenAppend ==
    ASSUME NEW q \in Seq(Compiled), NEW d \in Compiled
    PROVE  SeenAll(Append(q, d)) = Append(SeenAll(q), Seen(d)) /\ Len(SeenAll(q)) = Len(q)
  <1>1. Len(Append(q, d)) = Len(q) + 1 /\ Len(q) \in Nat  OBVIOUS
  <1>2. SeenAll(q) = [k \in 1..Len(q) |-> Seen(q[k])] BY DEF SeenAll
  <1>3. Len(SeenAll(q)) = Len(q) BY <1>1, <1>2
  <1>4. Append(SeenAll(q), Seen(d)) = [k \in 1..Len(q) + 1 |-> IF k = Len(q) + 1 THEN Seen(d) ELSE Seen(q[k])]
    BY <1>1, <1>2, <1>3
  <1>5. SeenAll(Append(q, d)) = [k \in 1..Len(q) + 1 |-> IF k = Len(q) + 1 THEN Seen(d) ELSE Seen(q[k])]
    BY <1>1 DEF SeenAll
  <1> QED BY <1>3, <1>4, <1>5

(* Every call is a step of the abstract compiler, or is not seen.           *)
LEMMA CallSimulates == Inv /\ codegen_emit => Abstract!Next \/ UNCHANGED Abstract!vars
  <1> SUFFICES ASSUME Inv, codegen_emit PROVE Abstract!Next \/ UNCHANGED Abstract!vars  OBVIOUS
  <1> USE DEF Inv
  <1>q. ASSUME lib'.defined = lib.defined, lib'.object = lib.object, prog' = prog,
               pc \in Building, pc' \in Building
        PROVE  UNCHANGED Abstract!vars
    <2>1. SeenAll(lib'.defined) = SeenAll(lib.defined) BY <1>q, Zenon
    <2>2. SeenAll(lib'.object) = SeenAll(lib.object) BY <1>q, Zenon
    <2>3. Progress = "running" /\ Progress' = "running" BY ONLY <1>q, Zenon DEF Progress, Building
    <2> QED BY ONLY <1>q, <2>1, <2>2, <2>3 DEF Abstract!vars, SeenAll, Seen
  <1>1. CASE NewModule
    <2> USE <1>1 DEF NewModule, Straight, locals, Call, CL!Effect, CL!Entry, CL!New
    <2>1. Progress = "idle" /\ Progress' = "running" BY DEF Progress, Building
    <2> QED BY <2>1 DEF Abstract!Next, Abstract!Begin, SeenAll, Seen
  <1>2. CASE NewSignature
    BY <1>q, <1>2 DEF NewSignature, Call, CL!Effect, CL!Entry, CL!Signature_new, CL!NoSignature, CL!WithSig, Typed, Libs, Building
  <1>3. CASE NewParam
    BY <1>q, <1>3 DEF NewParam, Straight, locals, Call, CL!Effect, CL!Entry, CL!New, Typed, Libs, Building
  <1>4. CASE PushParam
    BY <1>q, <1>4 DEF PushParam, Call, CL!Effect, CL!Entry, CL!params_push, CL!WithSig, Typed, Libs, Building
  <1>5. CASE NewReturn
    BY <1>q, <1>5 DEF NewReturn, Straight, locals, Call, CL!Effect, CL!Entry, CL!New, Typed, Libs, Building
  <1>6. CASE PushReturn
    BY <1>q, <1>6 DEF PushReturn, Straight, locals, Call, CL!Effect, CL!Entry, CL!returns_push, CL!WithSig, Typed, Libs, Building
  <1>7. CASE Declare
    BY <1>q, <1>7 DEF Declare, Call, CL!Effect, CL!Entry, CL!declare_function, CL!WithDeclared, Typed, Libs, Building
  <1>8. CASE NewName
    BY <1>q, <1>8 DEF NewName, Straight, locals, Call, CL!Effect, CL!Entry, CL!New, Typed, Libs, Building
  <1>9. CASE CreateFunction
    BY <1>q, <1>9 DEF CreateFunction, Straight, locals, Call, CL!Effect, CL!Entry, CL!with_name_signature, CL!NewFunction, CL!WithFun, Typed, Libs, Building
  <1>10. CASE NewContext
    BY <1>q, <1>10 DEF NewContext, Straight, locals, Call, CL!Effect, CL!Entry, CL!New, Typed, Libs, Building
  <1>11. CASE NewBuilder
    BY <1>q, <1>11 DEF NewBuilder, Straight, locals, Call, CL!Effect, CL!Entry, CL!Builder_new, Typed, Libs, Building
  <1>12. CASE CreateBlock
    BY <1>q, <1>12 DEF CreateBlock, Straight, locals, Call, CL!Effect, CL!Entry, CL!create_block, CL!Building, CL!WithFun, Typed, Libs, Building
  <1>13. CASE AppendParams
    BY <1>q, <1>13 DEF AppendParams, Straight, locals, Call, CL!Effect, CL!Entry, CL!append_params, CL!Building, CL!WithFun, Typed, Libs, Building
  <1>14. CASE SwitchToBlock
    BY <1>q, <1>14 DEF SwitchToBlock, Straight, locals, Call, CL!Effect, CL!Entry, CL!switch_to_block, CL!Building, CL!WithFun, Typed, Libs, Building
  <1>15. CASE SealBlock
    BY <1>q, <1>15 DEF SealBlock, Straight, locals, Call, CL!Effect, CL!Entry, CL!seal_block, CL!Building, CL!WithFun, Typed, Libs, Building
  <1>16. CASE LowerLiteral
    BY <1>q, <1>16 DEF LowerLiteral, Call, CL!Effect, CL!Entry, CL!iconst, CL!Building, CL!WithFun, Typed, Libs, Building
  <1>17. CASE LowerParam
    BY <1>q, <1>17 DEF LowerParam, Call, CL!Effect, CL!Entry, CL!block_params, CL!Building, Typed, Libs, Building
  <1>18. CASE Return
    BY <1>q, <1>18 DEF Return, Straight, locals, Call, CL!Effect, CL!Entry, CL!return_, CL!Building, CL!WithFun, Typed, Libs, Building
  <1>19. CASE Finalize
    BY <1>q, <1>19 DEF Finalize, Straight, locals, Call, CL!Effect, CL!Entry, CL!finalize, Typed, Libs, Building
  <1>20. CASE Dispose
    BY <1>q, <1>20 DEF Dispose, Straight, locals, Call, CL!Effect, CL!Entry, CL!dispose, Typed, Libs, Building
  <1>21. CASE Display
    BY <1>q, <1>21 DEF Display, Straight, locals, Call, CL!Effect, CL!Entry, CL!display, Typed, Libs, Building
  <1>22. CASE FreeText
    BY <1>q, <1>22 DEF FreeText, Straight, locals, Call, CL!Effect, CL!Entry, CL!cstr_free, Typed, Libs, Building
  <1>23. CASE RejectBody
    <2>1. /\ Len(lib.defined) = f - 1 /\ f \in 1..Len(prog) /\ Len(prog) \in Nat
          /\ lib.defined \in Seq(Compiled)
      BY <1>23, ProgramsAssumption DEF RejectBody, Exit, Typed, Libs, Listed, Building
    <2>2. Abstract!Current = prog[f] /\ Len(SeenAll(lib.defined)) < Len(prog)
      BY <2>1 DEF Abstract!Current, SeenAll
    <2>3. Abstract!Results(prog[f]) = {}
      BY <1>23 DEF RejectBody, SingleReturn, Body, Function, Abstract!Results, Abstract!Returns
    <2>4. Progress = "running" /\ Progress' = "failed"
      BY <1>23 DEF RejectBody, Exit, Progress, Building
    <2> QED BY <1>23, <2>2, <2>3, <2>4
            DEF RejectBody, Exit, Abstract!Next, Abstract!Refuse, SeenAll, Seen
  <1>24. CASE RejectExpr
    <2>1. /\ Len(lib.defined) = f - 1 /\ f \in 1..Len(prog) /\ Len(prog) \in Nat
          /\ lib.defined \in Seq(Compiled)
      BY <1>24, ProgramsAssumption DEF RejectExpr, Exit, Typed, Libs, Listed, Building
    <2>2. Abstract!Current = prog[f] /\ Len(SeenAll(lib.defined)) < Len(prog)
      BY <2>1 DEF Abstract!Current, SeenAll
    <2>3. Abstract!Results(prog[f]) = {}
      BY <1>24 DEF RejectExpr, SingleReturn, Returned, Body, Function, Arity,
                   Abstract!Results, Abstract!Returns, Abstract!Value
    <2>4. Progress = "running" /\ Progress' = "failed"
      BY <1>24 DEF RejectExpr, Exit, Progress, Building
    <2> QED BY <1>24, <2>2, <2>3, <2>4
            DEF RejectExpr, Exit, Abstract!Next, Abstract!Refuse, SeenAll, Seen
  <1>25. CASE Define
    <2> USE <1>25 DEF Define, Call, CL!Effect, CL!Entry, CL!define_function
    <2>1. /\ Len(lib.defined) = f - 1 /\ f \in 1..Len(prog) /\ Len(prog) \in Nat /\ fid = f
          /\ lib \in Libs /\ lib.defined \in Seq(Compiled) /\ lib.declared \in Seq([name : Names, sig : Sigs])
          /\ Len(lib.declared) = f /\ lib.fun \in Funs /\ lib.fun.sig = Whole /\ f \in Nat
      BY ProgramsAssumption DEF Typed, Libs, Listed, Built, Late, Early, Building
    <2>2. lib.declared[f] \in [name : Names, sig : Sigs] /\ lib.declared[f].name = Function.name
      <3>1. f \in 1..Len(lib.declared) BY ONLY <2>1
      <3> QED BY <2>1, <3>1, ElementOfSeq DEF Listed, Function
    <2>3. PICK d : d = [name |-> lib.declared[f].name, params |-> lib.fun.sig.params,
                        vals |-> lib.fun.vals, ret |-> lib.fun.ret] OBVIOUS
    <2>4. d \in Compiled BY ONLY <2>1, <2>2, <2>3 DEF Compiled, Funs, Sigs
    <2>5. lib' = CL!WithDefined(lib, d) BY <2>1, <2>3
    <2>6. lib'.defined = Append(lib.defined, d) /\ lib'.object = lib.object
      BY ONLY <2>1, <2>4, <2>5, Update
    <2>7. PICK r : r = ResultOf(lib.fun.ret, Arity, lib.fun.vals) /\ r \in Abstract!Results(Function)
      BY DEF Built
    <2>8. Seen(d) = [name |-> Function.name, params |-> Arity, result |-> r]
      <3>1. /\ d.name = Function.name /\ d.ret = lib.fun.ret /\ d.vals = lib.fun.vals
            /\ d.params = lib.fun.sig.params
        BY ONLY <2>2, <2>3
      <3>2. lib.fun.sig.params = Arity BY ONLY <2>1 DEF Whole
      <3> QED BY ONLY <2>7, <3>1, <3>2 DEF Seen, ResultOf
    <2>9. SeenAll(lib'.defined) = Append(SeenAll(lib.defined), Seen(d)) /\ Len(SeenAll(lib.defined)) = f - 1
      BY ONLY <2>1, <2>4, <2>6, SeenAppend
    <2>10. Abstract!Current = Function /\ f - 1 < Len(prog)
      BY ONLY <2>1, <2>9 DEF Abstract!Current, Function
    <2>11. Progress = "running" /\ Progress' = "running" BY DEF Progress, Building
    <2>12. SeenAll(lib'.object) = SeenAll(lib.object) BY ONLY <2>6
    <2>13. Abstract!Compile
      <3>1. prog' = prog OBVIOUS
      <3>2. \E x \in Abstract!Results(Function) : SeenAll(lib'.defined) = Append(SeenAll(lib.defined),
                 [name |-> Function.name, params |-> Arity, result |-> x])
        BY ONLY <2>7, <2>8, <2>9
      <3> QED BY ONLY <2>9, <2>10, <2>11, <2>12, <3>1, <3>2 DEF Abstract!Compile, Arity, Seen, SeenAll
    <2> QED BY ONLY <2>13 DEF Abstract!Next
  <1>26. CASE Finish
    <2> USE <1>26 DEF Finish, Call, CL!Effect, CL!Entry, CL!finish_and_emit
    <2>1. /\ Len(lib.defined) = f - 1 /\ f \in 1..Len(prog) + 1 /\ Len(prog) \in Nat /\ f > Len(prog)
          /\ lib \in Libs /\ lib.defined \in Seq(Compiled)
      BY ProgramsAssumption DEF Typed, Libs, Listed, Building
    <2>2. PICK ok \in BOOLEAN : /\ lib' = IF ok THEN [lib EXCEPT !.object = lib.defined] ELSE lib
                               /\ rc' = (IF ok THEN 0 ELSE 1) OBVIOUS
    <2>3. Len(SeenAll(lib.defined)) = Len(prog) BY <2>1 DEF SeenAll
    <2>4. lib'.defined = lib.defined /\ lib'.object = IF ok THEN lib.defined ELSE lib.object
      BY ONLY <2>1, <2>2 DEF Libs
    <2>5. Progress = "running" /\ Progress' = IF ok THEN "written" ELSE "failed"
      BY <2>2 DEF Progress, Building
    <2>6. SeenAll(lib'.defined) = SeenAll(lib.defined)
          /\ SeenAll(lib'.object) = IF ok THEN SeenAll(lib.defined) ELSE SeenAll(lib.object)
      BY ONLY <2>4
    <2>7. prog' = prog OBVIOUS
    <2> QED BY ONLY <2>3, <2>5, <2>6, <2>7 DEF Abstract!Next, Abstract!Write
  <1> QED BY <1>1, <1>2, <1>3, <1>4, <1>5, <1>6, <1>7, <1>8, <1>9, <1>10, <1>11, <1>12, <1>13, <1>14, <1>15, <1>16, <1>17, <1>18, <1>19, <1>20, <1>21, <1>22, <1>23, <1>24, <1>25, <1>26
          DEF codegen_emit, emit_function, LowerReturned

LEMMA StartInv == Start /\ pc = "emit" /\ prog \in Programs => Inv
  <1> SUFFICES ASSUME Start, pc = "emit", prog \in Programs PROVE Inv  OBVIOUS
  <1> USE DEF Start, CL!Init, CL!Empty, CL!NoSignature, CL!NewFunction
  <1>1. <<>> \in Values /\ <<>> \in Seq(Compiled) /\ <<>> \in Seq([name : Names, sig : Sigs])
    BY DEF Values
  <1>2. Len(prog) \in Nat BY ProgramsAssumption
  <1>3. lib \in Libs BY <1>1 DEF Libs, Funs, Sigs
  <1>4. Typed BY <1>2, <1>3 DEF Typed, Building
  <1> QED BY <1>4 DEF Inv, Owned, Signed, Listed, Built, Building, Early, Late

(* The invariant holds in every state: at each place of emit_function the   *)
(* code owns the handles Owned lists, and the library holds what Signed,    *)
(* Listed and Built say.                                                    *)
THEOREM CodegenInvariance == CodegenSpec => []Inv
  <1>1. Inv /\ UNCHANGED codegenVars => Inv'
    BY DEF codegenVars, locals, Inv, Typed, Owned, Signed, Listed, Built, Whole, Arity, Function, Params
  <1> QED BY <1>1, StartInv, CallKeepsInv, PTL DEF CodegenSpec

(* No call of the generator breaks a rule of the library, for every program *)
(* of any number of functions and parameters (codegen.c:38-94).             *)
THEOREM CallsAreLegal == CodegenSpec => UsesLegally
  <1>1. Start => CL!Init BY DEF Start
  <1>2. UNCHANGED codegenVars => UNCHANGED CL!vars BY DEF codegenVars, CL!vars
  <1> QED BY <1>1, <1>2, CallIsLegal, CodegenInvariance, PTL DEF CodegenSpec, UsesLegally, CL!Spec

(* The generator implements ObjectFile: an object of all the functions in   *)
(* order, each returning what it says, or none (codegen.c:6-15, 86-94).     *)
THEOREM CodegenRefines == CodegenSpec => Implements
  <1>1. Start /\ pc = "emit" => Abstract!Init
    BY DEF Start, CL!Init, CL!Empty, Abstract!Init, SeenAll, Progress, Building
  <1>2. UNCHANGED codegenVars => UNCHANGED Abstract!vars
    BY DEF codegenVars, locals, Abstract!vars, SeenAll, Seen, Progress
  <1> QED BY <1>1, <1>2, CallSimulates, CodegenInvariance, PTL DEF CodegenSpec, Implements, Abstract!Spec
=============================================================================
