# Verification of the compilers in this repository

The repository holds two small C compilers:

* **minicc** (`qbebasedcompiler/`): its own lexer, parser, semantic analysis and
  an emitter of QBE IL, and a driver that runs `cpp`, `qbe`, `as` and `ld`. All
  files are included into one translation unit (`src/main.c`).
* **mini-cc** (`mini-cc/`): libclang as the frontend, a lowering to an AST of its
  own, and code generation through the C API of Cranelift.

Both are sequential programs; several compilers may run on one directory, and
the driver hands files to processes it starts. What is hard here is not
concurrency inside the program but state that is threaded through recursion by
hand (scopes, the break/continue stack, label numbers drawn from the counter of
the temporaries), tables of fixed size, files that outlive the run that wrote
them, and failures of tools and of the file system.

## The system's parts

| part | state | operations | models |
|---|---|---|---|
| lexer, `Lexer.c` | position, line, start of the line, error flag | `next_token` | `Lexer` |
| parser, `parser.c` | two tokens of look-ahead, the calls that are active | recursive descent | `Parser`; `LabelKey` in `QbeStmt` |
| AST, `ast.c` | arena blocks | `new_node`, `new_type`, `list_append` | nodes and types in `Parser`, `SemaExpr` |
| semantic analysis, `sema.c` | chain of scopes, two counters, numbers and types stored in nodes | `sema_program`, `sema_stmt`, `sema_expr` | `SemaScopes` (names), `SemaExpr` (types) |
| emitter, `qbe.c` | `qbe_tmp`, `qbe_ctx`, `qbe_labels`, `qbe_strings`, what is printed | `qbe_emit`, `qbe_stmt`, `qbe_expr_val`, `qbe_collect_strings` | `QbeStmt` (statements), `QbeExpr` (expressions) |
| command line, `driver.c` | the array `extra`, flags, names | the loop of `driver_main` | `DriverArgs` |
| pipeline, `driver.c` | files in the current directory, exit status | the rest of `driver_main` | `Driver` |
| mini-cc bridge, AST and sema | a tree of its own | `clang_bridge_parse`, `sema_check` | `Bridge` |
| mini-cc code generator | handles of Cranelift | `codegen_emit` | `Codegen`, `ObjectFile`, `Cranelift` |
| mini-cc main | exit status | `main` | `MiniCc` |

The lexer feeds the parser one token at a time; the parser builds a tree; sema
writes types and symbol numbers into it; the emitter reads them. Nothing but the
tree is shared, so each part is modelled on the trees (or texts) that the part
before it can produce, and each model names in its header how it abstracts them.
The driver connects these to the tools through files named after the input.

What makes each part correct:

* lexer: nothing of the source is lost, tokens are as long as C says, positions
  are right;
* sema: an identifier is resolved to the declaration C's scope rules give it,
  numbers identify variables, what is rejected is wrong;
* emitter: every jump has its target in the same function, no label is printed
  twice, blocks end in one jump or return, break and continue see the statement
  that encloses them, printing ends;
* parser: an accepted file is all in the tree, each token in its place, operators
  bind and names are typed as in C, and parsing ends;
* expressions: types are C's, QBE takes the IL, and the IL computes what C says;
* mini-cc: the tree says what the file does, every handle is used while it is
  owned, an object has all functions or is not written;
* driver: exit status 0 means that the file asked for is there, whole, and made
  from the source that was read; nothing else is touched; runs end.

## Modules

`QbeStmt` - **the statement emitter.** The recursion of `qbe_stmt` is a stack of
frames; an action is the code between two recursive calls (`While` up to the
body, `EndWhile` after it). The variables are the code's: `tmp` is `qbe_tmp`,
`ctx` is `qbe_ctx` up to `qbe_ctx_depth`, `labels` is `qbe_labels`, `out` is what
was printed. A body is a tree numbered in source order. An expression is its
*shape*: what it prints of labels and how far it advances `qbe_tmp`; a run of
instructions is one line. The compound that is the body of a switch is elided.
Names of labels are of one to four characters: what the code compares a label with
are the first bytes of its statement's node (`LabelKey`), of which these see the kind.
The queue of the switch prepass and the label table are constants (`QueueCap`,
`LabelCap`), 128 and 256 in the code.

`SemaScopes` - **name resolution.** `scopes` is the chain of scopes, symbols
newest last. A *group* is the compound without braces that the parser makes of a
declaration of several variables (`parser.c:299`); the analysis gives it a scope like
any compound (`sema.c:316`), C does not. The actions are the two passes of `sema_program` and the cases of
`sema_stmt`; a scope is left (`LeaveScope`) when the next node lies outside the
statement that opened it, which is where the recursion returns. `refs` and
`decls` record the numbers that the code stores in the nodes. `Allocated`, `Uses`
and `UseId` are what `qbe_emit` makes of them. A callee that is a pointer to a function
(`sema.c:168`) is left out: no declaration that the parser accepts gives one a name.

`Lexer` - **the lexer.** One action per piece of trivia, one (`Token`) for a token;
the `lex_*` functions are operators that give kind and end of the token at a
place. Pointers are indices. There is no recursion: runs of characters are
defined by the first place where they stop.

`DriverArgs` - **the argument loop**, one action per branch; `Driver` - **the
pipeline**, one action per stage. A file is its stage, the version of the source
it was made from, and whether it is whole. `Tool` is a tool that succeeds, or
fails and leaves its output as it was, gone or cut short. `Killed` and `Edit` are
the environment. The variables `seen`, `unseen`, `clash` and `torn` are history
that only the properties read: the input as the preprocessor read it; a fault the
code does not look at (`fread`, what is written to the `.qbe` file or to stdout,
`rename`); another run or an edit of the same files meanwhile; a DLL
whose copy was cut short, or that two runs had both found missing.

`Parser` - **the parser.** `goals` is the stack of active calls, each with what it
still has to do; a step is the code of one parse function between two calls, one
token taken or one node built. The tokens of the file are chosen as
`parse_advance` reads them, from the words of the file's vocabulary, so that all
files of a length are parsed without writing them down. A token is its kind, a
literal its kind and characters. Types are a basic type and the tokens that
derived it. `from`, `to` and `closed` (the tokens a node stands for) are history
for the properties.

`SemaExpr`, `QbeExpr` - **types and code of expressions**, as operators on trees:
`sema_expr` gives types and puts in casts, `qbe_expr_val` gives the instructions it
prints, the temporaries it draws and the number it returns (0 for an operator
without a case), `qbe_collect_strings` numbers the literals. `Il` is QBE as the
emitter relies on it: the classes that it refuses, and what an instruction does
to temporaries and memory. `CMeaning` is C: the type and the value of an
expression, written without regard to the code. `Expressions` is the pipeline of
these: an expression is analysed, emitted, taken or refused by QBE, and then run
one instruction a step; at the end type, value, memory and calls are compared
with `CMeaning`.

`Bridge` - **mini-cc's front**: cursors of libclang to trees, by the lowering
functions, and the check of `sema.c`. A cursor that converts (`UnexposedExpr`) has the
type it converts to where that can change the value, a function the types of its
result and parameters; the bridge reads neither. `Codegen` - **its code generator**, one action
per call into the library, written so that a call has its effect whatever the
state of the library, as C has no choice. `Cranelift` is external: the rules for
calls that the code and its comments rely on (a handle is owned until a call
consumes it, a builder borrows its function), as the most general caller.
`ObjectFile` is the abstract specification: an object with all the functions of a
program, or none. `MiniCc` composes bridge, check and code generator into `main`.
`Codegen` implements `Cranelift` (`UsesLegally`) and `ObjectFile` (`Implements`) with
the refinement mapping

    compiled <- what has been defined in the module, as name, arity and result
    object   <- the same of what was written
    status   <- running from the creation of the module to the end of the last
                function, then written or failed by the exit status

so that all calls but `define_function`, the first, the exits and the last one
stutter.

`Trees` builds every small tree over given statement forms (recursive, used by MC
modules only). The modules whose names begin with `MC` give the instances. `QbeStmtProofs`,
`SemaScopesProofs`, `LexerProofs`, `ParserProofs`, `DriverArgsProofs`, `DriverProofs` and
`CodegenProofs` hold the theorems about the module they are named after, `SetsAndLists`
lemmas about sets of numbers and about sequences that several of them need.

Operators whose comment begins with "Faulty:" are variants of the definition
after them, each with one plausible mistake. `PROJECT.json` ("mutants") lists
them with the property that tells them from the code.

## What the runs check

| run | instance | states |
|---|---|---|
| `QbeStmt` | bodies of 3 statements over 20 forms, of 4 over 7 control forms, of 2 over rare ones; of up to 6 with a case that a full queue leaves out; a table of 2 labels, a queue of 2 | 54 283 |
| `SemaScopes` | bodies of 3 statements over 12 forms, of 4 over scopes, declarations and uses; with globals, parameters and a function after it; declarations of several variables in any of these places | 51 779 |
| `Lexer` | texts of 6 characters over six alphabets, of 4 over four more | 284 602 |
| `DriverArgs` | 3 arguments over 12 words (one of them empty), 6 over 6; room for 5 options | 280 474 |
| `Driver` | two plans: one compiler, six commands, two runs, one edit, every fault; two compilers at once, three commands whose inputs share a name and whose outputs a directory, kills and failed writes | 379 224 |
| `Parser` | twelve vocabularies; up to 3 to 6 free words after a lead that puts the parser where they matter | 585 392 |
| `MiniCc` | files of one function with a body of one of 63 statements, alone or before a return, or of up to 3 over 10 of them; files of three functions, on ints or pointers, and a global; five command lines | 110 093 |
| `Expressions` | one operator over 13 variables of all types, two or three operators over 19 operands; two memories; 8 908 executions end | 211 534 |

Each bound is the smallest at which the case it is about occurs: a queue of 2
overflows at the third statement of a switch, two labels fill the table, four nested
statements put a switch in a loop with a break behind it, room for five options
takes two pairs with their terminator and stops at the third, six characters hold an unclosed comment with a
newline and a star. Two runs are what a leftover needs, one edit makes it stale.
Six words hold two nested ifs with one else, four binary operators are more than
two levels of precedence with one repeated, three literals fill a table of two
(`MaxStrings`). Bytes of two bits (`ByteBits`) make a word of 8 bits and a long of 16:
wide enough that sign, cutting and scaling by 4 and 8 differ, small enough that
TLC's integers hold every product. Three functions are one before and one after
the one that fails.

**Emitter.** `JumpsResolve`, `NoDuplicateLabels`, `CtxMatchesNesting`,
`BlocksWellFormed` and `FunctionCloses` say that the IL of a function is what QBE
accepts. The model keeps the known ways in which it is not, and each property
names them as an exception (`KnownGap`, `Overflowing`, `DeadCode`), so that it
holds of the rest: break and continue of `for` and `do`, goto, cases of nested
compounds, switches longer than the prepass queue, source with unreachable
statements. `FunctionCloses` would not hold if a walk over a list of statements forgot
to go on: its mutant is a declaration in the list of a switch after which the loop looks at
the same statement again.

**Name resolution.** `ResolvesInnermost` compares the scope chain with scope rules
read off the tree, where the names of a group belong to the block around it;
`RejectsRightly` says what is analysed and that a rejection
has a cause; `ScopesMatchNesting` that no scope is left over; `NamesFaithful` that no two variables
of a function share a number (`NumbersDistinct`) and that the number printed for a use
is that of the variable meant.
Exceptions: statements that `sema_stmt` skips, arguments after a converted one,
locals of inner blocks (no stack space), parameters without a name, and globals,
for which see the finding. And names declared several at once (`Lost`): the scope of
the group is left with it, so that `int a, b; return a;` is rejected, or `a` means an
outer one. The exception is exact: it is the uses after the group whose declaration by
C's rules stands in it, and the other names of an expression with such a use (`Muddled`),
which may have been converted or not analysed because of it.

**Lexer.** `OnlyTriviaDropped` (the tokens and trivia cover the source),
`PositionsRight`, `LongestPunctuator`, `NumbersWhole`, `LiteralsClosed`.
`NumbersWhole` has a grammar of the numbers that begin with a digit, and says that a
number token is the longest text there which the grammar has: no digit, exponent or
suffix is left unread. The grammar is the lexer's where this takes more than C: `0x` and
`0x1p` without digits, rows of suffixes such as `1uuu`. Numbers that begin with their point are
not read as numbers at all (`PointFirst`). `PositionsRight` leaves out the columns on the last line of a
comment of several lines, and lines after a newline that a backslash precedes in a
literal, which the code counts wrongly. An
unclosed comment is trivia to the end of the file for the lexer; the parser never
reads its error flag.

**Parser.** `TreesNest`: the nodes built so far are trees over the source; the kids of
a node are disjoint pieces of it in order, and no node is a kid of two.
`SpellsSource`: what a node of an accepted file has between its kids is what C's
production has there. `BindsAsC`:
the level of each operand is one its operator takes, an else belongs to the
nearest if. `TypesAsDeclared`, `LiteralsDecoded`: types of names, values and types of
literals. `LostOnlyNameless`: what an accepted file loses. `Settles`: parsing ends.
What the code does differently is named at each property and excepted: several
brackets are applied in reverse; in a local declaration stars and brackets stay
for the variables after; a parameter node keeps the basic type alone; a declarator
without a name is dropped with its brackets; before a token that no declaration
takes the loop over declarations goes round for ever; an unsigned hexadecimal
literal is a long; `\a \b \f \v` in a string are letters; prefixes and long escapes
are not read. The parser accepts less than C: a local `int *p` (the name must come
first), `sizeof (a)[0]`, a typedef's name (never registered).

**Expressions.** `TypesAsC`, `Compiles` (QBE takes what C allows, and refuses exactly
the forms in `NotTaken`) and `Computes` (type, value, memory, calls, each side effect
once). The gaps are operators of the module, by node: pointers that step by the
wrong size (`StepsWrong`: `p[i]` by the size of `p`; an array plus a number, `p += i`,
`p++` and `p - i` by bytes), narrow objects as words (`NarrowAsWord`), signed
operations on unsigned numbers (`SignLost`), `i /= l` (`CutTooSoon`), conditions by
their low word (`LongTested`), arguments that are not converted, literals under a
label (`NotCollected`), unary `- + ! ~ ++ --`, which print nothing (`Unprinted`), and an
index or a cast of a class QBE refuses (`WordStep`, `WordToPointer`).

**mini-cc.** `ProgramFaithful`: the tree printed or compiled is that of the file, and
a file is called malformed only with cause. Gaps (`Loses`): unsupported statements
are dropped, the condition of an if or while is what the first child of its cursor
says, several variables of one declaration lose the statements after, an
initializer that is not the first child of its variable is lost, and a conversion that
changes a value is passed over. `UsesLegally` has none. `Implements` is about programs as
the bridge hands them over, from which the types are gone: a function on pointers
is compiled as one on 32-bit integers and passes. `ProgramFaithful`, which compares
the object with the file, names this as a gap (`TypesLost`).

**Driver.** `ReadAsMeant` compares the loop over the arguments with a reading that
does not scan. `SuccessDelivers` is the property of the pipeline: with exit status
0 the output is complete and of the version read, whatever earlier runs left
behind, if no fault occurred that the code does not look at (`fread` of the
preprocessed text, `fprintf`, `fputs`, `fclose`, `rename`) and nobody else wrote the same
names meanwhile.
`OnlyIntermediates`: a run that fails early leaves output and sources alone.
`DllIntact`: unless a copy was cut short or two runs raced for it, a DLL that is there
is whole and not written again. `RunEnds`: runs end, if tools and frontend return.

### Where the code does not do what it says

Four runs end in a violation on purpose; `PROJECT.json` ("findings") quotes the
comment and the line for each.

* `QbeBreakResolves`: break and continue in a `for` or `do` jump to labels of a `while`.
* `QbeGotoResolves`: a label's name is overwritten by its statement (a union), so
  goto and label never agree.
* `DriverStartup`: five results of `driver_bin_file` are one static buffer; `ld` gets `crtn.o` five times.
* `SemaGlobals`: a global or a called function is printed as the local of the same number.

Two more are named exceptions of properties that otherwise hold:

* `PointFirst`, in `NumbersWhole`: the test of the lexer has `.5` in its row of floating
  literals (`test.c:18`); the lexer takes any point for an operator (`Lexer.c:388`) and
  reads `.` and `5`.
* `TypesLost`, in `ProgramFaithful`: the comment of the code generator says "All params and
  return value are I32 ... Anything else prints an error and exits" (`codegen.c:12` and 14). No
  code looks at a type (`clang_bridge.c:281-290`), and `char *f(char *s) { return s; }` is
  compiled on 32-bit integers.

### Fairness

Liveness is checked for the emitter (`FunctionCloses`), the parser (`Settles`) and the
driver (`RunEnds`). The parser is one thread in one call: weak fairness of `Next`; the
loop before a token that no declaration takes is the one exception.
The emitter is one thread that does nothing but go on once a function is begun:
weak fairness of `EmitStep`; starting another function is not assumed. The driver
waits for its tools in `waitpid`: weak fairness of the steps of a run that is under
way assumes that tools return, and that the frontend, which is one step there, does
(`Settles` says where it does not); kills, edits and starts of runs are not fair.
`DriverArgs` and `Lexer` state weak fairness of their only thread; no liveness is
claimed of them. `MiniCc` and `Expressions` state safety only.

Deadlock is checked in the runs of `QbeStmt` and `SemaScopes`, where the end is a
step of its own. The others stop when the program has returned.

## What is proved

All theorems hold for every value of the constants. They assume what the modules
state of their constants, which TLC evaluates in the runs: `QbeAssumption` and
`SemaAssumption` (bodies are trees with the children their kinds have, which the
grammar gives; the capacities are positive), `LexerAssumption` (sources are
sequences of characters), `ArgsAssumption` (arguments are strings, and none is
NULL), `DriverAssumption` (commands have one of the modes of the driver; a plan has
commands, and a number of runs and of edits) and `ProgramsAssumption` (programs
are sequences of functions with distinct names, as clang lets through; what is
returned as a literal is a number the library has a constant for). Every invariant of the
runs `QbeStmt`, `SemaScopes`, `Lexer`, `DriverArgs` and `Driver` is a theorem, and so
are the action properties `OnlyIntermediates` and `DllIntact` and the refinements
`UsesLegally` and `Implements`.

| theorem | property | argument |
|---|---|---|
| `QbeStmtProofs!TypeCorrect` | `TypeOK` | inductive as it stands |
| `QbeStmtProofs!JumpsAlwaysResolve` | `JumpsResolve` | what frames owe |
| `QbeStmtProofs!BreaksSeeTheirStatement` | `CtxMatchesNesting` | the depth kept in frames |
| `QbeStmtProofs!LabelsAreFresh` | `NoDuplicateLabels` | who drew a number prints it |
| `QbeStmtProofs!BlocksAreWellFormed` | `BlocksWellFormed` | what can have been printed last |
| `SemaScopesProofs!AnalysisTypes` | `TypeOK` | inductive as it stands |
| `SemaScopesProofs!ScopesAreBlocks` | `ScopesMatchNesting` | scopes are the blocks around the node |
| `SemaScopesProofs!NumbersAreDistinct` | `NumbersDistinct`, part of `NamesFaithful` | numbers are below the counters |
| `SemaScopesProofs!IdentifiersMeanTheInnermost` | `ResolvesInnermost` | what a scope holds, but for names lost with a group |
| `SemaScopesProofs!RejectionsAreRight` | `RejectsRightly` | what has been analysed |
| `SemaScopesProofs!NamesAreFaithful` | `NamesFaithful` | the four before |
| `LexerProofs!LexerStaysInBuffer` | `TypeOK` | every `lex_*` ends inside the buffer |
| `LexerProofs!OperatorsAreLongest` | `LongestPunctuator` | the cases of `lex_punctuator` |
| `LexerProofs!NumbersAreWhole` | `NumbersWhole` | where runs of characters stop: nothing longer is a number |
| `LexerProofs!NothingIsLost` | `OnlyTriviaDropped` | tokens and trivia tile the source |
| `LexerProofs!PositionsCount` | `PositionsRight` | the line counts the newlines passed |
| `LexerProofs!LiteralsEnd` | `LiteralsClosed` | runs of backslashes |
| `ParserProofs!ParserTypes` | `TypeOK` | what each place of a call leaves to do (`Stands`) |
| `ParserProofs!ParserBinds` | `BindsAsC` | the least level a call gives (`Gives`) and where it stops (`Stop`) |
| `ParserProofs!ParserNests` | `TreesNest` | what the kids of each active call cover (`Laid`) |
| `DriverArgsProofs!ArgumentsStayInBounds` | `TypeOK` | inductive as it stands |
| `DriverArgsProofs!PairsStayWhole` | `PairsWhole` | `extra` ends behind an operand (`Whole`) |
| `DriverArgsProofs!LinesReadAsMeant` | `ReadAsMeant` | what the arguments before `i` come to |
| `DriverProofs!DriverTypes` | `TypeOK` | inductive as it stands |
| `DriverProofs!RunsTouchOnlyIntermediates` | `OnlyIntermediates` | what each stage writes |
| `DriverProofs!SuccessIsDelivery` | `SuccessDelivers` | the file a stage left for the next |
| `DriverProofs!DllsStayIntact` | `DllIntact` | who may be at the stage `copy` |
| `CodegenProofs!CallsAreLegal` | `UsesLegally` | the handles before each call |
| `CodegenProofs!CodegenRefines` | `Implements` | what the module has defined |

**Emitter.** `JumpsResolve` is not inductive: while a function is being printed most
of its jumps go forward. The invariant `Inv` (theorem `Invariance`) says of every
jump printed that its target has been printed, is a known gap, or is *owed*: by the
call that is pending on a frame of the stack and will print it before it returns
(the end of an if or loop, the else branch, a case label of a switch whose
statement has not been visited), which ties the context stack to the frames (the
depth kept in a frame, and that the entry of a loop has the id of the loop's
frame). When the stack is empty nothing is owed. One lemma per action shows that
what it prints discharges what the frame owed and that what it opens is owed by
the new frame.

For `NoDuplicateLabels` the invariant `LabelInv` says that the numbers of the frames
and of all labels printed are below `tmp`, that no two frames have the same number,
and that no label which a frame has still to print (`Due`) has been printed. For
`BlocksWellFormed` the invariant `BlockInv` says what the last line may be at each
place: a jump or a return only after a statement that `ends_in_terminator` sees as
closing its block, or behind the dispatch of a switch, and every line follows on
the one before. `ends_in_terminator` recurses into the last statement of a compound;
the proof uses that what it computes is the kind of the statement where that
descent stops (`Falls`); a statement for which it errs could be taken to be the one with the largest
number, whose children, numbered after it, are right.

**Name resolution.** The proofs follow the phases of the module: the frames of the
scope chain are the blocks around the node that is analysed, in their order
(`Shape`, `Nesting`); the numbers given so far differ and are below their counters
(`Numbering`); a scope holds what has been declared in its block, and nothing of a
block that is left, in source order (`Contents`); so walking the chain from the innermost scope
finds the last visible declaration of the name, if none has been lost with a group, and every use that is passed and
not skipped has been resolved (`Resolved`); and every declaration passed has a
number (`AllDeclared`).

**Lexer.** `TypeOK` is inductive. It needs that every `lex_*` function ends after
where it began and not after the end of the buffer (`TokenInside`), which rests on
one lemma about a forward search (`FirstInRange`) and, for each look-ahead, on the
terminator being none of the characters that are asked for (`PeekInside`).
`LiteralsClosed` needs that the scan's flag for an escape is set exactly after an
odd run of backslashes: the lemmas on runs in `SetsAndLists` find, for a place where the
two differ, an earlier one.

**Parser.** None of the three is inductive: a frame of `goals` has steps left and kids
so far, and without knowing which of these belong together nothing keeps a call from
returning a kid it does not have. The invariant `Inv` (theorem `ParserInv`) says of
the innermost call where in its function it may be, by its kind: what is left to do
and what the kids it has so far are (`Stands`). Of every other call it says which
call it waits for, and that the kid this one returns is all it lacks (`Awaits`). For
`BindsAsC` a call has two numbers: the least level of C's grammar of a node it
returns (`Gives`), and the precedence below which the token is at which it returns
(`Stop`), so that the left operand of a binary operator is of the operator's
level, the right one of the next, and an `if` that returns without an else is not
followed by one. `Binds` says the same of each node built, in terms of the tokens
read. What of the state this is said against is a record (`World`): the levels and
first tokens of nodes, the kinds of tokens. A step makes the world later (`Later`), which lowers
no level; a lemma for each action shows that the innermost call stands, and lemmas on
`Awaits` that the call below may wait for what it became. Closing a parenthesis
around a node raises its level to that of a primary expression; it may then begin
before its operator, and this is what `BindsAsC` allows for at `sizeof`, whose
operand in parentheses is of any level. The attempt to prove this found arms of a
`CASE` in `Level` and in `Terminals` that overlapped, where TLC takes the first: they
are now disjoint.

For `TreesNest` a second invariant, `Nested`, which uses the first, says of the nodes
what the property says (`Nest`) and of the calls how they lie (`Laid`): the kids of an
active call are pieces of what it has read, in order, before the place where the call
above it began (`Own`); no node has them yet; and they were built before the kids of
the calls above (`Older`), so that one node is never held by two calls. A node that
is built takes the kids of its call (`Builds`); a closing parenthesis and a declaration
widen a node that only their call holds (`Widens`), which is why the node around it is
never too narrow. Nodes change hands in two ways: a return gives one to the call
below, and an operator found after its operand takes all the kids of the call that
parsed it (`Wrap`), which is left with none.

**Command line.** The invariant `Scanned` says what the variables hold when the
arguments before `i` have been read: the last name given, the options in the order
they came as far as `extra` had room, the flags that occurred. The reading that
the property compares with takes the line as a whole; `AllRead` is the two at
the end of the line.

**Pipeline.** `RunsCarryTheirInput` says for each stage of a run which of its files
are there and what is in them: the file of the stage before is whole and of the
version that the run has read, unless `unseen` or `clash` records why not. The
steps of the other runs keep this, since two runs under way that have a file in
common are marked by `clash` (`Apart`). For `DllIntact` the invariant `DllKept` says
that what is there of a DLL is whole, or a part that one run is at the stage of copying.

**Code generator.** `CodegenInvariance` says, for each call that may come
next, which handles are alive (`Owned`), what the signature holds (`Signed`), that the
functions before this one are declared and defined in order (`Listed`), and what the
function under construction holds: its parameters are its first values, and the
value returned is one its source may return (`Built`). From it every call has what
the library asks, and `define_function` is the abstract `Compile`; that a function
is not defined twice needs the distinct names of the assumption.

Where a definition recurses over data (a scan, a descent in a tree), the prover
has no induction scheme to offer. `SetsAndLists` takes its place: a set of numbers that
is not empty has a least and, if bounded, a greatest element, so a counterexample
can be taken to be the first.

Only model-checked, and why:

* `SpellsSource`, `TypesAsDeclared`, `LostOnlyNameless` of `Parser`: no proof. They
  compare a tree or a type with the tokens as a whole, by sequences selected from it
  and by counts, which as they are stated call for induction over data; the same holds of
  `LiteralsDecoded`: what `decode_int` and `decode_str` compute is a fold over a sequence.
* `TypesAsC`, `Compiles`, `Computes` of `Expressions`, `TypeOK` and `ProgramFaithful` of
  `MiniCc`: these modules declare recursive operators (trees of expressions and of
  cursors), which cost the prover its SMT backend.
* `FunctionCloses`, `Settles`, `RunEnds`: liveness.
* the four properties that the code violates.

## What is not modelled

* Structs, unions and enums: the parser takes the keyword for a specifier and
  reads no body of one; sema types a member int, the emitter has no case for it. Void
  and the values of floating numbers: their classes are checked, they are never computed.
* Statements and expressions at once: in `QbeStmt` an expression is one shape, in
  `Expressions` there is no statement around it.
* The writes past `qbe_ctx` (64 entries) and `arg_tmps` (32): what lies behind the
  arrays, and so what the write changes, is not in the source.
* The bytes of string data as they are printed, the arena, `driver_find_own_dir` and
  `driver_tool_path`, the printing and release of trees in mini-cc, its probe, the
  vendored toolchain.

## Plan

Done: the emitter's statements, names, the command line, the lexer, the pipeline
and mini-cc's code generator, with a proof of every invariant; the parser, with a
proof of its types, of how operators bind and that its trees nest; expressions and
the rest of mini-cc checked.

1. `Parser`: `LostOnlyNameless`, from the tokens that the kids of a call cover, for
   which `Laid` says where they are.
2. An abstract emitter, which prints a structured statement as a whole, implemented
   by `QbeStmt` for bodies without gaps; `Expressions` with statements around it.
3. `MiniCc` without recursive operators in the modules it extends, so that
   `ProgramFaithful` can be proved of its steps.

Order: first what a user's program depends on (emitter, names), then what one run
does to another (driver), then the front of the compiler, then mini-cc, whose code
generator is at its first stage.
