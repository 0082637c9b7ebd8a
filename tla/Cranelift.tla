----------------------------- MODULE Cranelift -----------------------------
(* What the Cranelift C library asks of its callers, as far as mini-cc uses *)
(* it. The library is external (src/mini-cc/headers/craneliftc.h only       *)
(* declares it): the rules are those the calls and comments of codegen.c    *)
(* rely on. A handle is owned by the caller from the call that makes it to  *)
(* the call that consumes it; a builder borrows its function and context    *)
(* until it is finalized. The specification is the most general caller that *)
(* keeps the rules, for one function under construction at a time.          *)
EXTENDS Naturals, Sequences

CONSTANTS Names,      \* the names a function can be declared under
          Immediates  \* the integers an iconst can carry

VARIABLES live,  \* the handles the caller owns
          lib    \* the signature and function being built, and the module

Handles == {"module", "sig", "abi", "ufn", "fn", "fbctx", "builder", "text"}
NoSignature == [params |-> 0, returns |-> 0]
NewFunction(sig) == [sig |-> sig, block |-> "none", appended |-> FALSE,
                     sealed |-> FALSE, vals |-> <<>>, ret |-> 0]
Empty == [sig |-> NoSignature, fun |-> NewFunction(NoSignature), declared |-> <<>>,
          defined |-> <<>>, object |-> <<>>]

(* A call: the handles it needs, those of them it consumes, the handle it   *)
(* makes, what else must hold, and the library's state after it.            *)
Entry(needs, frees, makes, right, after) ==
    [needs |-> needs, frees |-> frees, makes |-> makes, right |-> right, after |-> after]

Legal(c) ==
    /\ c.needs \subseteq live
    /\ c.makes \cap live = {}
    /\ "builder" \in live => c.needs \cap {"fn", "fbctx"} = {}
    /\ c.right

Effect(c) == live' = (live \ c.frees) \cup c.makes /\ lib' = c.after

New(s, h) == Entry({}, {}, {h}, TRUE, s)

WithSig(s, sig) == [s EXCEPT !.sig = sig]
WithFun(s, fun) == [s EXCEPT !.fun = fun]
WithDeclared(s, d) == [s EXCEPT !.declared = Append(@, d)]
WithDefined(s, d) == [s EXCEPT !.defined = Append(@, d)]

Signature_new(s) == Entry({}, {}, {"sig"}, TRUE, WithSig(s, NoSignature))
params_push(s) ==
    Entry({"sig", "abi"}, {"abi"}, {}, TRUE,
          WithSig(s, [params |-> s.sig.params + 1, returns |-> s.sig.returns]))
returns_push(s) ==
    Entry({"sig", "abi"}, {"abi"}, {}, TRUE,
          WithSig(s, [params |-> s.sig.params, returns |-> s.sig.returns + 1]))

declare_function(s, name) ==
    Entry({"module", "sig"}, {}, {}, \A d \in 1..Len(s.declared) : s.declared[d].name # name,
          WithDeclared(s, [name |-> name, sig |-> s.sig]))

with_name_signature(s) ==
    Entry({"ufn", "sig"}, {"ufn", "sig"}, {"fn"}, TRUE,
          WithFun(s, NewFunction(s.sig)))

Builder_new(s) == Entry({"fn", "fbctx"}, {}, {"builder"}, TRUE, s)

Building(right, s) == Entry({"builder"}, {}, {}, right, s)

create_block(s) ==
    Building(s.fun.block = "none", WithFun(s, [s.fun EXCEPT !.block = "made"]))
append_params(s) ==
    Building(s.fun.block = "made" /\ ~s.fun.appended,
             WithFun(s, [s.fun EXCEPT !.appended = TRUE,
                                  !.vals = [k \in 1..s.fun.sig.params |-> "param"]]))
switch_to_block(s) ==
    Building(s.fun.block = "made", WithFun(s, [s.fun EXCEPT !.block = "open"]))
seal_block(s) ==
    Building(s.fun.block # "none" /\ ~s.fun.sealed,
             WithFun(s, [s.fun EXCEPT !.sealed = TRUE]))
iconst(s, n) ==
    Building(s.fun.block = "open", WithFun(s, [s.fun EXCEPT !.vals = Append(@, n)]))
block_params(s, k) == Building(s.fun.appended /\ k < s.fun.sig.params, s)
return_(s, v) ==
    Building(s.fun.block = "open" /\ v \in 1..Len(s.fun.vals) /\ s.fun.sig.returns = 1,
             WithFun(s, [s.fun EXCEPT !.block = "filled", !.ret = v]))
finalize(s) ==
    Entry({"builder"}, {"builder"}, {}, s.fun.block = "filled" /\ s.fun.sealed, s)

dispose(s) == Entry({"fbctx"}, {"fbctx"}, {}, TRUE, s)
display(s) == Entry({"fn"}, {}, {"text"}, TRUE, s)
cstr_free(s) == Entry({"text"}, {"text"}, {}, TRUE, s)

(* The function must be whole, and have the signature its id was declared   *)
(* with; ids are given in order, and none is defined twice.                 *)
define_function(s, id) ==
    Entry({"module", "fn"}, {"fn"}, {},
          /\ id \in 1..Len(s.declared)
          /\ id = Len(s.defined) + 1
          /\ s.declared[id].sig = s.fun.sig
          /\ s.fun.block = "filled",
          WithDefined(s, [name |-> s.declared[id].name, params |-> s.fun.sig.params,
                          vals |-> s.fun.vals, ret |-> s.fun.ret]))

finish_and_emit(s, ok) ==
    Entry({"module"}, {"module"}, {}, Len(s.defined) = Len(s.declared),
          IF ok THEN [s EXCEPT !.object = s.defined] ELSE s)

Makes(c) == Legal(c) /\ Effect(c)

vars == <<live, lib>>

Init == live = {} /\ lib = Empty

Next ==
    \/ \E h \in {"module", "abi", "ufn", "fbctx"} : Makes(New(lib, h))
    \/ Makes(Signature_new(lib)) \/ Makes(params_push(lib)) \/ Makes(returns_push(lib))
    \/ \E name \in Names : Makes(declare_function(lib, name))
    \/ Makes(with_name_signature(lib)) \/ Makes(Builder_new(lib))
    \/ Makes(create_block(lib)) \/ Makes(append_params(lib))
    \/ Makes(switch_to_block(lib)) \/ Makes(seal_block(lib))
    \/ \E n \in Immediates : Makes(iconst(lib, n))
    \/ \E k \in 0..lib.fun.sig.params : Makes(block_params(lib, k))
    \/ \E v \in 1..Len(lib.fun.vals) : Makes(return_(lib, v))
    \/ Makes(finalize(lib)) \/ Makes(dispose(lib))
    \/ Makes(display(lib)) \/ Makes(cstr_free(lib))
    \/ \E id \in 1..Len(lib.declared) : Makes(define_function(lib, id))
    \/ \E ok \in BOOLEAN : Makes(finish_and_emit(lib, ok))

Spec == Init /\ [][Next]_vars
=============================================================================
