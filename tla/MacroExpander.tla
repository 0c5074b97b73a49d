---------------------------- MODULE MacroExpander ----------------------------
(***************************************************************************)
(* The expansion of a whole module (pkg/compiler/macros.go ExpandModule).  *)
(* A module is the sequence of its items: macros, invocations, routes and  *)
(* <<"type", name>>; a body may hold invocations too, in a tree that was   *)
(* not made by the parser.                                                 *)
(***************************************************************************)
EXTENDS Macros

KeptStatements(expanded) == [expanded EXCEPT !.nodes = SelectSeq(@, IsStatement)]
KeptItems(expanded)      == [expanded EXCEPT !.nodes = SelectSeq(@, IsItem)]

RECURSIVE ExpandStatement(_, _)

\* The nodes of an invocation among statements take its place, but for those that are no statements.
ExpandStatements(macros, stmts) ==
  FoldLeft(LAMBDA all, s : Followed(all, IF s[1] = "invoke" THEN KeptStatements(ExpandMacroInvocation(macros, s)) ELSE ExpandStatement(macros, s)),
           Expansion(<< >>), stmts)

\* The statement with its blocks expanded, or the failure of one of them.
Rebuilt(blocks, stmt) == IF \E i \in DOMAIN blocks : blocks[i].failed THEN NotExpanded ELSE Expansion(<<stmt>>)

WithBlocks(s, blocks) == Rebuilt(blocks, [i \in DOMAIN s |-> IF i \in DOMAIN blocks THEN blocks[i].nodes ELSE s[i]])

ExpandBlocks(macros, s, at) == WithBlocks(s, [i \in at |-> ExpandStatements(macros, s[i])])

WithCases(s, cases, default) ==
  Rebuilt(Append(cases, default), <<"switch", s[2], [i \in DOMAIN cases |-> <<s[3][i][1], cases[i].nodes>>], default.nodes>>)

ExpandSwitch(macros, s) ==
  WithCases(s, [i \in DOMAIN s[3] |-> ExpandStatements(macros, s[3][i][2])], ExpandStatements(macros, s[4]))

ExpandStatement(macros, s) ==
  CASE s[1] = "if"     -> ExpandBlocks(macros, s, {3, 4})
    [] s[1] = "while"  -> ExpandBlocks(macros, s, {3})
    [] s[1] = "for"    -> ExpandBlocks(macros, s, {5})
    [] s[1] = "switch" -> ExpandSwitch(macros, s)
    [] OTHER           -> Expansion(<<s>>)

ExpandItem(macros, item) ==
  IF item[1] = "route"
  THEN WithBlocks(item, [i \in {3} |-> ExpandStatements(macros, item[3])])
  ELSE Expansion(<<item>>)

\* What a macro gives in the place of an item is not expanded again.
ExpandModuleItem(macros, item) ==
  CASE item[1] = "macro"  -> Expansion(<< >>)
    [] item[1] = "invoke" -> KeptItems(ExpandMacroInvocation(macros, item))
    [] OTHER              -> ExpandItem(macros, item)

\* A macro may be invoked before it is defined.
ExpandModule(items) ==
  LET macros == RegisterMacros(items)
  IN  FoldLeft(LAMBDA all, item : Followed(all, ExpandModuleItem(macros, item)), Expansion(<< >>), items)

\* The names behind the colons of a path.
Colon(part) == SelectInSeq(part, LAMBDA c : c = ":")

ExtractRouteParamNames(path) ==
  LET parts == Split(path, <<"/">>)
  IN  {SubSeq(parts[i], Colon(parts[i]) + 1, Len(parts[i])) : i \in {i \in DOMAIN parts : Colon(parts[i]) # 0}} \ {<< >>}
=============================================================================
