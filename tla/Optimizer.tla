----------------------------- MODULE Optimizer -----------------------------
(***************************************************************************)
(* The optimizer of syntax trees (pkg/compiler/optimizer.go) that          *)
(* CompileRoute runs before it compiles.  Trees are those of the           *)
(* Interpreter module.                                                     *)
(*                                                                         *)
(* Every case of the optimizer but three is written for nodes that are     *)
(* pointers.  The parser makes values, and of these the three cases leave  *)
(* the statement and the tables as they are: a parsed program is compiled  *)
(* unchanged.  The operators are those for trees made of pointers.         *)
(*                                                                         *)
(* The optimizer keeps three tables: what it knows to be constant, what is *)
(* a copy of which variable, and which variable holds which expression.    *)
(* Floats are left out.                                                    *)
(***************************************************************************)
EXTENDS Values, SequencesExt

NoTables == [constants |-> NoFields, copies |-> NoFields, expressions |-> NoFields]

Without(table, names) == Restrict(table, DOMAIN table \ names)

Entered(table, n, v) == [k \in DOMAIN table \cup {n} |-> IF k = n THEN v ELSE table[k]]

----------------------------------------------------------------------------
(* Expressions *)

Literal(v) == <<"lit", v>>

IsLiteral(e, type) == e[1] = "lit" /\ Is(e[2], type)

\* The end of a chain of copies.
RECURSIVE Root(_, _, _)
Root(n, copies, visited) ==
  IF n \in visited \/ n \notin DOMAIN copies THEN n ELSE Root(copies[n], copies, visited \cup {n})

FoldInts(op, m, n) ==
  CASE op = "add"              -> IntValue(m + n)
    [] op = "sub"              -> IntValue(m - n)
    [] op = "mul"              -> IntValue(m * n)
    [] op = "div" /\ n # 0     -> IntValue(Quo(m, n))
    [] op = "mod" /\ n # 0     -> IntValue(Rem(m, n))
    [] op = "eq"               -> BoolValue(m = n)
    [] op = "ne"               -> BoolValue(m # n)
    [] op = "lt"               -> BoolValue(m < n)
    [] op = "le"               -> BoolValue(m <= n)
    [] op = "gt"               -> BoolValue(m > n)
    [] op = "ge"               -> BoolValue(m >= n)
    [] OTHER                   -> Fail

FoldBools(op, a, b) ==
  CASE op = "and" -> BoolValue(a /\ b)
    [] op = "or"  -> BoolValue(a \/ b)
    [] op = "eq"  -> BoolValue(a = b)
    [] op = "ne"  -> BoolValue(a # b)
    [] OTHER      -> Fail

\* Fail when two literals cannot be folded.
FoldLiterals(op, a, b) ==
  CASE Both(a, b, "int")   -> FoldInts(op, a[2], b[2])
    [] Both(a, b, "bool")  -> FoldBools(op, a[2], b[2])
    [] OTHER               -> Fail

\* One operand is the literal v, the other is e; << >> when there is nothing to simplify.
Simplified(op, v, e, literalIsLeft, level) ==
  CASE op = "add" /\ v = IntValue(0)                              -> e
    [] op = "sub" /\ v = IntValue(0) /\ ~literalIsLeft            -> e
    [] op = "mul" /\ v = IntValue(0)                              -> Literal(IntValue(0))
    [] op = "mul" /\ v = IntValue(1)                              -> e
    [] op = "mul" /\ v = IntValue(2) /\ level = "aggressive"      -> <<"bin", "add", e, e>>
    [] op = "div" /\ v = IntValue(1) /\ ~literalIsLeft            -> e
    [] op = "and" /\ v = BoolValue(TRUE)                          -> e
    [] op = "and" /\ v = BoolValue(FALSE)                         -> Literal(BoolValue(FALSE))
    [] op = "or" /\ v = BoolValue(TRUE)                           -> Literal(BoolValue(TRUE))
    [] op = "or" /\ v = BoolValue(FALSE)                          -> e
    [] OTHER                                                      -> << >>

FoldBinary(op, l, r, level) ==
  LET folded     == IF l[1] = "lit" /\ r[1] = "lit" THEN FoldLiterals(op, l[2], r[2]) ELSE Fail
      simplified == CASE l[1] = "lit" /\ r[1] # "lit" -> Simplified(op, l[2], r, TRUE, level)
                      [] r[1] = "lit" /\ l[1] # "lit" -> Simplified(op, r[2], l, FALSE, level)
                      [] OTHER                        -> << >>
  IN  CASE folded # Fail      -> Literal(folded)
        [] simplified # << >> -> simplified
        [] OTHER              -> <<"bin", op, l, r>>

\* Unary operators, calls, indexing and matches are not looked into.
RECURSIVE OptimizeExpression(_, _, _)
OptimizeExpression(e, t, level) ==
  CASE e[1] = "var"    -> LET n == Root(e[2], t.copies, {}) IN IF n \in DOMAIN t.constants THEN Literal(t.constants[n]) ELSE <<"var", n>>
    [] e[1] = "bin"    -> FoldBinary(e[2], OptimizeExpression(e[3], t, level), OptimizeExpression(e[4], t, level), level)
    [] e[1] = "object" -> <<"object", [i \in DOMAIN e[2] |-> <<e[2][i][1], OptimizeExpression(e[2][i][2], t, level)>>]>>
    [] e[1] = "array"  -> <<"array", [i \in DOMAIN e[2] |-> OptimizeExpression(e[2][i], t, level)]>>
    [] e[1] = "field"  -> <<"field", OptimizeExpression(e[2], t, level), e[3]>>
    [] OTHER           -> e

----------------------------------------------------------------------------
(* What statements modify and expressions use *)

\* A switch is not looked into.
RECURSIVE Modified(_)
Modified(stmts) ==
  UNION {LET s == stmts[i] IN
         CASE s[1] \in {"assign", "reassign"} -> {s[2]}
           [] s[1] = "if"                     -> Modified(s[3]) \cup Modified(s[4])
           [] s[1] = "while"                  -> Modified(s[3])
           [] s[1] = "for"                    -> (({s[2]} \cup {s[3]}) \ {<< >>}) \cup Modified(s[5])
           [] OTHER                           -> {} : i \in DOMAIN stmts}

RECURSIVE Used(_)
Used(e) ==
  CASE e[1] = "var"              -> {e[2]}
    [] e[1] = "bin"              -> Used(e[3]) \cup Used(e[4])
    [] e[1] = "object"           -> UNION {Used(e[2][i][2]) : i \in DOMAIN e[2]}
    [] e[1] = "array"            -> UNION {Used(e[2][i]) : i \in DOMAIN e[2]}
    [] e[1] = "field"            -> Used(e[2])
    [] e[1] = "un"               -> Used(e[3])
    [] e[1] = "index"            -> Used(e[2]) \cup Used(e[3])
    [] e[1] = "call"             -> UNION {Used(e[3][i]) : i \in DOMAIN e[3]}
    [] OTHER                     -> {}

Keyed(e) == e[1] \in {"lit", "var"}

\* What identifies an expression of operators; << >> for any other.
RECURSIVE ExprKey(_)
ExprKey(e) ==
  LET part(x) == IF Keyed(x) THEN x ELSE ExprKey(x) IN
  IF e[1] = "bin" /\ part(e[3]) # << >> /\ part(e[4]) # << >> THEN <<"bin", e[2], part(e[3]), part(e[4])>> ELSE << >>

----------------------------------------------------------------------------
(* Statements.  Optimizing gives the statements that stand for one, the    *)
(* tables after it and whether it ends its block.                          *)

Optimized(out, t) == [out |-> out, tables |-> t, ended |-> FALSE]

InvalidatedCopies(t, names) == [t EXCEPT !.copies = Without(@, names)]

\* Names that are no longer known; expressions are looked for under the wrong keys and stay.
Invalidated(t, names) == [t EXCEPT !.constants = Without(@, names), !.copies = Without(@, names)]

OptimizeCopy(s, e, t) ==
  Optimized(<<<<s[1], s[2], e>>>>, [t EXCEPT !.copies = Entered(@, s[2], e[2]), !.constants = Without(@, {s[2]})])

\* The variable that holds the expression already stands for it.
OptimizeCommon(s, key, t) ==
  LET held == t.expressions[key] IN
  Optimized(<<<<s[1], s[2], <<"var", held>>>>>>, [t EXCEPT !.copies = Entered(@, s[2], held), !.constants = Without(@, {s[2]})])

OptimizeValue(s, e, t, key) ==
  Optimized(<<<<s[1], s[2], e>>>>,
            [t EXCEPT !.copies = Without(@, {s[2]}),
                      !.expressions = IF key = << >> THEN @ ELSE Entered(@, key, s[2]),
                      !.constants = IF e[1] = "lit" THEN Entered(@, s[2], e[2]) ELSE Without(@, {s[2]})])

OptimizeAssign(s, t, level) ==
  LET e   == OptimizeExpression(s[3], t, level)
      key == IF level = "aggressive" THEN ExprKey(e) ELSE << >>
  IN  CASE e[1] = "var"                    -> OptimizeCopy(s, e, t)
        [] key \in DOMAIN t.expressions    -> OptimizeCommon(s, key, t)
        [] OTHER                           -> OptimizeValue(s, e, t, key)

RECURSIVE OptimizeAll(_, _, _)

\* A constant condition leaves one of the branches in the place of the statement.
OptimizeIf(s, t, level) ==
  LET c     == OptimizeExpression(s[2], t, level)
      first == OptimizeAll(s[3], t, level)
      other == OptimizeAll(s[4], first.tables, level)
  IN  IF IsLiteral(c, "bool")
      THEN LET kept == OptimizeAll(IF c[2][2] THEN s[3] ELSE s[4], t, level) IN Optimized(kept.out, kept.tables)
      ELSE Optimized(<<<<"if", c, first.out, other.out>>>>, other.tables)

\* Assignments whose value no statement of the loop changes are moved before it.
Invariant(s, modified, condition) == s[1] = "assign" /\ Used(s[3]) \cap modified = {} /\ s[2] \notin Used(condition)

OptimizeWhile(s, t, level) ==
  LET modified   == Modified(s[3])
      moves(b)   == level = "aggressive" /\ Invariant(b, modified, s[2])
      moved      == OptimizeAll(SelectSeq(s[3], moves), Invalidated(t, modified), level)
      body       == OptimizeAll(SelectSeq(s[3], LAMBDA b : ~moves(b)), moved.tables, level)
  IN  Optimized(moved.out \o <<<<"while", OptimizeExpression(s[2], moved.tables, level), body.out>>>>, body.tables)

OptimizeFor(s, t) == Optimized(<<s>>, Invalidated(t, Modified(<<s>>)))

OptimizeSwitch(s, t) ==
  Optimized(<<s>>, Invalidated(t, UNION {Modified(s[3][i][2]) : i \in DOMAIN s[3]} \cup Modified(s[4])))

OptimizeStatement(s, t, level) ==
  CASE s[1] \in {"assign", "reassign"} -> OptimizeAssign(s, t, level)
    [] s[1] = "return"                 -> [Optimized(<<<<"return", OptimizeExpression(s[2], t, level)>>>>, t) EXCEPT !.ended = TRUE]
    [] s[1] = "if"                     -> OptimizeIf(s, t, level)
    [] s[1] = "while"                  -> OptimizeWhile(s, t, level)
    [] s[1] = "for"                    -> OptimizeFor(s, t)
    [] s[1] = "switch"                 -> OptimizeSwitch(s, t)
    [] OTHER                           -> Optimized(<<s>>, t)

\* What follows a return of the same block is left out.
OptimizeAll(stmts, t, level) ==
  LET step(done, s) ==
        IF done.ended THEN done
        ELSE LET r == OptimizeStatement(s, done.tables, level) IN [r EXCEPT !.out = done.out \o @]
  IN  FoldLeft(step, Optimized(<< >>, t), stmts)

OptimizeStatements(stmts, level) == OptimizeAll(stmts, NoTables, level).out

----------------------------------------------------------------------------
(* Passes that no other package calls *)

\* Self-assignments go, and of two assignments in a row to the same variable the first.
RECURSIVE HasCall(_)
HasCall(e) ==
  CASE e[1] = "call"   -> TRUE
    [] e[1] = "bin"    -> HasCall(e[3]) \/ HasCall(e[4])
    [] e[1] = "object" -> \E i \in DOMAIN e[2] : HasCall(e[2][i][2])
    [] e[1] = "array"  -> \E i \in DOMAIN e[2] : HasCall(e[2][i])
    [] OTHER           -> FALSE

RECURSIVE Peephole(_)
Peephole(stmts) ==
  CASE stmts = << >> -> << >>
    [] stmts[1][1] = "assign" /\ stmts[1][3] = <<"var", stmts[1][2]>> -> Peephole(Tail(stmts))
    [] /\ Len(stmts) > 1 /\ stmts[1][1] = "assign" /\ stmts[2][1] = "assign"
       /\ stmts[1][2] = stmts[2][2] /\ ~HasCall(stmts[1][3])          -> <<stmts[2]>> \o Peephole(SubSeq(stmts, 3, Len(stmts)))
    [] OTHER                                                          -> <<stmts[1]>> \o Peephole(Tail(stmts))

\* The inliner: a call's arguments take the place of the parameters.
RECURSIVE SubstituteExpr(_, _)
SubstituteExpr(e, args) ==
  CASE e[1] = "var"    -> IF e[2] \in DOMAIN args THEN args[e[2]] ELSE e
    [] e[1] = "bin"    -> <<"bin", e[2], SubstituteExpr(e[3], args), SubstituteExpr(e[4], args)>>
    [] e[1] = "object" -> <<"object", [i \in DOMAIN e[2] |-> <<e[2][i][1], SubstituteExpr(e[2][i][2], args)>>]>>
    [] e[1] = "array"  -> <<"array", [i \in DOMAIN e[2] |-> SubstituteExpr(e[2][i], args)]>>
    [] e[1] = "field"  -> <<"field", SubstituteExpr(e[2], args), e[3]>>
    [] e[1] = "call"   -> <<"call", e[2], [i \in DOMAIN e[3] |-> SubstituteExpr(e[3][i], args)]>>
    [] OTHER           -> e

RECURSIVE Substitute(_, _)
Substitute(stmts, args) ==
  [i \in DOMAIN stmts |-> LET s == stmts[i] IN
     CASE s[1] \in {"assign", "reassign"} -> <<s[1], s[2], SubstituteExpr(s[3], args)>>
       [] s[1] = "return"                 -> <<"return", SubstituteExpr(s[2], args)>>
       [] s[1] = "if"                     -> <<"if", SubstituteExpr(s[2], args), Substitute(s[3], args), Substitute(s[4], args)>>
       [] s[1] = "while"                  -> <<"while", SubstituteExpr(s[2], args), Substitute(s[3], args)>>
       [] OTHER                           -> s]

InlineCall(fn, es) ==
  Substitute(fn.body, [n \in {fn.params[i].name : i \in 1..Min({Len(es), Len(fn.params)})} |-> es[SelectInSeq(fn.params, LAMBDA p : p.name = n)]])

RECURSIVE CountStatements(_)
CountStatements(stmts) ==
  FoldLeft(LAMBDA n, s : n + 1 + (CASE s[1] = "if"    -> CountStatements(s[3]) + CountStatements(s[4])
                                    [] s[1] = "while" -> CountStatements(s[3])
                                    [] s[1] = "for"   -> CountStatements(s[5])
                                    [] OTHER          -> 0), 0, stmts)

RECURSIVE Calls(_)
Calls(e) ==
  CASE e[1] = "call"   -> {e[2]} \cup UNION {Calls(e[3][i]) : i \in DOMAIN e[3]}
    [] e[1] = "bin"    -> Calls(e[3]) \cup Calls(e[4])
    [] e[1] = "object" -> UNION {Calls(e[2][i][2]) : i \in DOMAIN e[2]}
    [] e[1] = "array"  -> UNION {Calls(e[2][i]) : i \in DOMAIN e[2]}
    [] e[1] = "field"  -> Calls(e[2])
    [] OTHER           -> {}

RECURSIVE CallsIn(_)
CallsIn(stmts) ==
  UNION {LET s == stmts[i] IN
         CASE s[1] \in {"assign", "reassign"} -> Calls(s[3])
           [] s[1] \in {"return", "expr"}     -> Calls(s[2])
           [] s[1] = "if"                     -> Calls(s[2]) \cup CallsIn(s[3]) \cup CallsIn(s[4])
           [] s[1] = "while"                  -> Calls(s[2]) \cup CallsIn(s[3])
           [] OTHER                           -> {} : i \in DOMAIN stmts}

MaxInlined == 10

ShouldInline(name, fn) == name \notin CallsIn(fn.body) /\ CountStatements(fn.body) <= MaxInlined
=============================================================================
