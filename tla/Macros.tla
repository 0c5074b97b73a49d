------------------------------- MODULE Macros -------------------------------
(***************************************************************************)
(* Macros (pkg/compiler/macros.go; pkg/interpreter/macros.go repeats it).  *)
(* A macro is a record of its parameters and of its body, a sequence of    *)
(* nodes: statements as in module Interpreter, routes <<"route", path,     *)
(* body>> and invocations <<"invoke", name, args>>.  Invoked, it stands    *)
(* for its body with the arguments in the place of the parameters: where   *)
(* they are read as variables, and in strings, paths and the names of      *)
(* assignments as ${p}.  An item that defines one is <<"macro", name,      *)
(* params, body>>.                                                         *)
(*                                                                         *)
(* The arguments of an invocation hold no ${p} themselves: which of them   *)
(* is put in first is the order of a Go map.                               *)
(***************************************************************************)
EXTENDS GoLibrary

CONSTANT MaxMacroExpansionDepth

ASSUME DepthAssumption == MaxMacroExpansionDepth \in Nat \ {0}

----------------------------------------------------------------------------
(* Substitution.  subs is a function from parameters to expressions.       *)

\* The text an argument is in a string, if it is one that can be put there.
HasText(e) == e[1] = "var" \/ (e[1] = "lit" /\ e[2][1] \in {"string", "int"})

ArgumentText(e) ==
  CASE e[1] = "var"       -> e[2]
    [] Is(e[2], "string") -> e[2][2]
    [] OTHER              -> IntText(e[2][2])

Placeholder(p) == <<"$", "{">> \o p \o <<"}">>

SubstituteString(s, subs) ==
  FoldLeft(LAMBDA text, p : Replaced(text, Placeholder(p), ArgumentText(subs[p])), s, SetToSeq({p \in DOMAIN subs : HasText(subs[p])}))

RECURSIVE SubstituteExpr(_, _)

SubstituteExprs(es, subs) == [i \in DOMAIN es |-> SubstituteExpr(es[i], subs)]

\* Calls lose their type arguments; a match, an async block, a try, a pipe and a closure stay as they are.
SubstituteParts(e, subs) ==
  CASE e[1] = "bin"                   -> <<"bin", e[2], SubstituteExpr(e[3], subs), SubstituteExpr(e[4], subs)>>
    [] e[1] = "un"                    -> <<"un", e[2], SubstituteExpr(e[3], subs)>>
    [] e[1] \in {"call", "generic"}   -> <<"call", e[2], SubstituteExprs(e[3], subs)>>
    [] e[1] = "field"                 -> <<"field", SubstituteExpr(e[2], subs), e[3]>>
    [] e[1] = "index"                 -> <<"index", SubstituteExpr(e[2], subs), SubstituteExpr(e[3], subs)>>
    [] e[1] = "object"                -> <<"object", [i \in DOMAIN e[2] |-> <<e[2][i][1], SubstituteExpr(e[2][i][2], subs)>>]>>
    [] e[1] = "array"                 -> <<"array", SubstituteExprs(e[2], subs)>>
    [] OTHER                          -> e

SubstituteExpr(e, subs) ==
  CASE e[1] = "var"                       -> IF e[2] \in DOMAIN subs THEN subs[e[2]] ELSE e
    [] e[1] = "lit" /\ Is(e[2], "string") -> <<"lit", StringValue(SubstituteString(e[2][2], subs))>>
    [] e[1] = "unquote"                   -> SubstituteExpr(e[2], subs)
    [] OTHER                              -> SubstituteParts(e, subs)

RECURSIVE SubstituteNode(_, _)

\* An invocation among the statements of a block is a value of another Go type, which stays as it is.
SubstituteStatements(stmts, subs) ==
  [i \in DOMAIN stmts |-> IF stmts[i][1] = "invoke" THEN stmts[i] ELSE SubstituteNode(stmts[i], subs)]

SubstituteStatement(n, subs) ==
  CASE n[1] \in {"assign", "reassign"} -> <<n[1], SubstituteString(n[2], subs), SubstituteExpr(n[3], subs)>>
    [] n[1] \in {"return", "expr"}     -> <<n[1], SubstituteExpr(n[2], subs)>>
    [] n[1] = "if"                     -> <<"if", SubstituteExpr(n[2], subs), SubstituteStatements(n[3], subs), SubstituteStatements(n[4], subs)>>
    [] n[1] = "while"                  -> <<"while", SubstituteExpr(n[2], subs), SubstituteStatements(n[3], subs)>>
    [] n[1] = "for"                    -> <<"for", n[2], n[3], SubstituteExpr(n[4], subs), SubstituteStatements(n[5], subs)>>
    [] n[1] = "invoke"                 -> <<"invoke", n[2], SubstituteExprs(n[3], subs)>>
    [] OTHER                           -> n

\* The interpreter leaves a route as it is, and then has no use for it.
SubstituteNode(n, subs) ==
  IF n[1] = "route" THEN <<"route", SubstituteString(n[2], subs), SubstituteStatements(n[3], subs)>> ELSE SubstituteStatement(n, subs)

----------------------------------------------------------------------------
(* Expansion *)

\* The macros that the items of a file define.
RegisterMacros(items) ==
  LET macros == SelectSeq(items, LAMBDA item : item[1] = "macro")
  IN  [n \in {macros[i][2] : i \in DOMAIN macros} |->
         LET m == macros[Max({i \in DOMAIN macros : macros[i][2] = n})] IN [params |-> m[3], body |-> m[4]]]

Expansion(nodes) == [failed |-> FALSE, nodes |-> nodes]
NotExpanded      == [failed |-> TRUE, nodes |-> << >>]

Followed(a, b) == IF a.failed \/ b.failed THEN NotExpanded ELSE Expansion(a.nodes \o b.nodes)

SubstitutionsFirst(params, args) == [p \in {params[i] : i \in DOMAIN params} |-> args[1]]  \* Mutant: the first argument for all.

\* Of parameters of the same name the last one counts.
Substitutions(params, args) ==
  [p \in {params[i] : i \in DOMAIN params} |-> args[Max({i \in DOMAIN params : params[i] = p})]]

RECURSIVE ExpandMacroWithDepth(_, _, _)

ExpandNode(macros, node, depth) ==
  IF node[1] = "invoke" THEN ExpandMacroWithDepth(macros, node, depth + 1) ELSE Expansion(<<node>>)

ExpandMacroWithDepth(macros, inv, depth) ==
  IF depth >= MaxMacroExpansionDepth \/ inv[2] \notin DOMAIN macros \/ Len(inv[3]) # Len(macros[inv[2]].params) THEN NotExpanded
  ELSE LET macro == macros[inv[2]]
           subs  == Substitutions(macro.params, inv[3])
       IN  FoldLeft(LAMBDA all, node : Followed(all, ExpandNode(macros, SubstituteNode(node, subs), depth)), Expansion(<< >>), macro.body)

\* What a macro gives holds no invocations but those inside blocks.
ExpandMacroInvocation(macros, inv) == ExpandMacroWithDepth(macros, inv, 0)

IsItem(node) == node[1] \in {"route", "type"}

IsStatement(node) == ~IsItem(node)
=============================================================================
