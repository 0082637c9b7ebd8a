------------------------------- MODULE Bridge -------------------------------
(* The front of mini-cc: clang_bridge.c, which lowers the cursors of        *)
(* libclang to the nodes of ast.c, and the check of sema.c. A cursor is     *)
(* [k, v, kids, init]: its kind, its spelling or operator, its children in  *)
(* the order libclang visits them, and for a variable the child that is its *)
(* initializer (0 if none), which the bridge does not know: a type or the   *)
(* size of an array is a child as well. An UnexposedExpr is an implicit     *)
(* conversion: v is the type it converts to where that can change the value *)
(* and "" where it cannot. A function has the types of its result and of    *)
(* its parameters, which the bridge does not ask for. A node is [k, v,      *)
(* kids], a statement has the chains of its sub-statements besides; a chain *)
(* (the list through next) is a sequence. Positions, and the release of the *)
(* nodes, are left out.                                                     *)
EXTENDS Naturals, Sequences, SequencesExt

Expr(k, v, kids) == [k |-> k, v |-> v, kids |-> kids]
Null == Expr("Null", "", <<>>)
Stmt(k, v, kids, subs) == [k |-> k, v |-> v, kids |-> kids, subs |-> subs]

(* ------------------------------ expressions ----------------------------- *)
BinOps == {"+", "-", "*", "/", "%", "==", "!=", "<", "<=", ">", ">=", "&&", "||", "="}
UnOps == {"-", "!"}
Expressions == {"IntegerLiteral", "DeclRefExpr", "BinaryOperator", "UnaryOperator",
                "CallExpr", "ParenExpr", "UnexposedExpr", "CharacterLiteral"}

RECURSIVE lower_expr(_)

(* expr_visitor: the first child and no other.                              *)
FirstChild(c) == IF c.kids = <<>> THEN Null ELSE lower_expr(c.kids[1])

lower_binop(c) ==
    IF c.v \notin BinOps \/ Len(c.kids) # 2 THEN Null
    ELSE LET sides == <<lower_expr(c.kids[1]), lower_expr(c.kids[2])>>
         IN  IF Null \in {sides[1], sides[2]} THEN Null ELSE Expr("BinOp", c.v, sides)

lower_unop(c) ==
    LET operand == FirstChild(c)
    IN  IF c.v \notin UnOps \/ operand = Null THEN Null ELSE Expr("UnOp", c.v, <<operand>>)

(* The arguments follow the callee; one that is not supported stays NULL.   *)
lower_call(c) == Expr("Call", c.v, [j \in 1..Len(c.kids) - 1 |-> lower_expr(c.kids[j + 1])])

(* A conversion is passed over like a parenthesis, whatever it converts to. *)
lower_expr(c) ==
    CASE c.k = "IntegerLiteral" -> Expr("Int", c.v, <<>>)
      [] c.k = "DeclRefExpr" -> Expr("Var", c.v, <<>>)
      [] c.k = "BinaryOperator" -> lower_binop(c)
      [] c.k = "UnaryOperator" -> lower_unop(c)
      [] c.k = "CallExpr" -> lower_call(c)
      [] c.k \in {"ParenExpr", "UnexposedExpr"} -> FirstChild(c)
      [] OTHER -> Null

(* ------------------------------ statements ------------------------------ *)
(* A list has a head and a tail; what is pushed may be a chain of several   *)
(* statements, and the tail is then set to the first of them, so that the   *)
(* next push cuts off the rest.                                             *)
PushKeepsTail(l, s) ==
    IF s = <<>> THEN l
    ELSE IF l.chain = <<>> THEN [chain |-> s, tail |-> 1]
    ELSE [chain |-> SubSeq(l.chain, 1, l.tail) \o s, tail |-> l.tail]
stmtlist_push(l, s) ==
    IF s = <<>> THEN l
    ELSE IF l.chain = <<>> THEN [chain |-> s, tail |-> 1]
    ELSE [chain |-> SubSeq(l.chain, 1, l.tail) \o s, tail |-> l.tail + 1]

NoStmts == [chain |-> <<>>, tail |-> 0]

(* The condition's own children are visited, so that it is its first child  *)
(* that becomes the condition.                                              *)
Condition(c) == FirstChild(c.kids[1])

lower_return(c) == <<Stmt("Return", "", <<FirstChild(c)>>, <<>>)>>
lower_decl_stmt(c) == Stmt("Decl", c.v, <<FirstChild(c)>>, <<>>)

RECURSIVE lower_stmt(_)

lower_block(kids) ==
    FoldLeft(LAMBDA l, c : stmtlist_push(l, lower_stmt(c)), NoStmts, kids).chain

lower_if(c) ==
    <<Stmt("If", "", <<Condition(c)>>,
           <<lower_stmt(c.kids[2]), IF Len(c.kids) >= 3 THEN lower_stmt(c.kids[3]) ELSE <<>> >>)>>

lower_while(c) == <<Stmt("While", "", <<Condition(c)>>, <<lower_stmt(c.kids[2])>>)>>

lower_stmt(c) ==
    CASE c.k = "CompoundStmt" -> <<Stmt("Block", "", <<>>, <<lower_block(c.kids)>>)>>
      [] c.k = "ReturnStmt" -> lower_return(c)
      [] c.k = "DeclStmt" ->
            FoldLeft(LAMBDA l, d : IF d.k = "VarDecl" THEN stmtlist_push(l, <<lower_decl_stmt(d)>>)
                                   ELSE l,
                     NoStmts, c.kids).chain
      [] c.k = "IfStmt" -> lower_if(c)
      [] c.k = "WhileStmt" -> lower_while(c)
      [] c.k \in Expressions -> <<Stmt("Expr", "", <<lower_expr(c)>>, <<>>)>>
      [] OTHER -> <<>>

(* ------------------------------- functions ------------------------------ *)
(* Definitions of functions in the file itself, in order; of a parameter    *)
(* the name is taken and no type.                                           *)
Defines(t) == t.main /\ t.k = "FunctionDecl" /\ t.kids # <<>>

top_level_visitor(tops) ==
    LET defs == SelectSeq(tops, Defines)
    IN  [d \in 1..Len(defs) |-> [name |-> defs[d].v, params |-> defs[d].params,
                                 body |-> lower_block(defs[d].kids[1].kids)]]

(* --------------------------------- sema.c ------------------------------- *)
RECURSIVE verify_expr(_)
verify_expr(e) == e # Null /\ \A j \in 1..Len(e.kids) : verify_expr(e.kids[j])

(* The initializer of a declaration may be missing.                         *)
RECURSIVE verify_stmt(_)
verify_stmt(chain) ==
    \A j \in 1..Len(chain) :
        LET s == chain[j]
        IN  /\ \A e \in 1..Len(s.kids) :
                   verify_expr(s.kids[e]) \/ (s.k = "Decl" /\ s.kids[e] = Null)
            /\ \A b \in 1..Len(s.subs) : verify_stmt(s.subs[b])

sema_check(p) == \A d \in 1..Len(p) : verify_stmt(p[d].body)
=============================================================================
