------------------------------ MODULE Formatter ------------------------------
(***************************************************************************)
(* The formatter (pkg/formatter/formatter.go): it writes a syntax tree as  *)
(* compact or expanded source text.  Unlike the transformer it never sees  *)
(* the text the tree was parsed from.  Spaces and indentation are left     *)
(* out: they separate no two lexemes the lexers would join, except the two *)
(* minus signs of a negated negation.                                      *)
(*                                                                         *)
(* What the parser never builds is left out: lambdas, type arguments of    *)
(* calls, database queries and the statements of WebSockets, which are     *)
(* calls to it.  Of a rate limit the form n/unit is written here.          *)
(***************************************************************************)
EXTENDS Parser

\* write, writeln: names, keywords, symbols, ends of lines.
Write(xs) ==
  [i \in DOMAIN xs |-> CASE xs[i] = "\n"                   -> Newline
                         [] xs[i] \in DOMAIN CompactSymbol -> <<"sym", xs[i]>>
                         [] OTHER                          -> <<"word", xs[i]>>]

\* What begins an item or a statement.
ExpandedMark ==
  ":" :> "type" @@ "@" :> "route" @@ "$" :> "let" @@ ">" :> "return" @@ "+" :> "middleware" @@ "%" :> "use"
    @@ "~" :> "handle" @@ "*" :> "cron" @@ "!" :> "command" @@ "&" :> "queue" @@ "?" :> "validate" @@ "=" :> "func"

Mark(mode, s) == Write(<<IF mode = "expanded" THEN ExpandedMark[s] ELSE s>>)

Between(separator, texts) ==
  FlattenSeq([i \in DOMAIN texts |-> IF i = 1 THEN texts[i] ELSE Write(<<separator>>) \o texts[i]])

Commas(texts) == Between(",", texts)

Quoted(chars) == <<<<"str", chars>>>>

PathText(path) == <<<<"path", path>>>>

RECURSIVE formatType(_)
RECURSIVE formatPattern(_)

\* Expressions and statements contain each other: both recursions go through this one.
RECURSIVE formatNode(_, _, _)

formatExpr(mode, e) == formatNode("expression", mode, e)

formatStatement(mode, s) == formatNode("statement", mode, s)

----------------------------------------------------------------------------
(* Literals, types and patterns *)

escapeString(chars) == [i \in DOMAIN chars |-> IF chars[i] = "newline" THEN "\\n" ELSE chars[i]]

formatLiteral(v) ==
  CASE v[1] = "int"    -> <<<<"int", v[2]>>>>
    [] v[1] = "string" -> Quoted(escapeString(v[2]))
    [] v[1] = "bool"   -> Write(<<IF v[2] THEN "true" ELSE "false">>)
    [] v[1] = "null"   -> Write(<<"null">>)

formatTypes(ts) == [i \in DOMAIN ts |-> formatType(ts[i])]

formatType(t) ==
  CASE t[1] = "named"    -> Write(t[2])
    [] t[1] = "list"     -> formatType(t[2]) \o Write(<<"[", "]">>)
    [] t[1] = "optional" -> formatType(t[2]) \o Write(<<"?">>)
    [] t[1] = "generic"  -> formatType(t[2]) \o Write(<<"<">>) \o Commas(formatTypes(t[3])) \o Write(<<">">>)
    [] t[1] = "function" -> Write(<<"(">>) \o Commas(formatTypes(t[2])) \o Write(<<")", "->">>) \o formatType(t[3])
    [] t[1] = "union"    -> Between("|", formatTypes(t[2]))

\* A field that binds its own name has no pattern.
formatPatternField(f) == Write(f[1]) \o IF f[2] = <<"bind">> THEN << >> ELSE Write(<<":">>) \o formatPattern(f[2])

formatPattern(p) ==
  CASE p[1] = "lit"    -> formatLiteral(p[2])
    [] p[1] = "var"    -> Write(p[2])
    [] p[1] = "any"    -> Write(<<"_">>)
    [] p[1] = "object" -> Write(<<"{">>) \o Commas([i \in DOMAIN p[2] |-> formatPatternField(p[2][i])]) \o Write(<<"}">>)
    [] p[1] = "array"  -> Write(<<"[">>) \o
                          Commas([i \in DOMAIN p[2] |-> formatPattern(p[2][i])] \o
                                 IF p[3] = << >> THEN << >> ELSE <<Write(<<"...">> \o p[3])>>) \o Write(<<"]">>)

----------------------------------------------------------------------------
(* Expressions *)

OpString ==
  [add |-> "+", sub |-> "-", mul |-> "*", div |-> "/", mod |-> "%", eq |-> "==", ne |-> "!=", lt |-> "<", le |-> "<=",
   gt |-> ">", ge |-> ">=", and |-> "&&", or |-> "||"]

\* An operator is written close to its operand: a minus before a minus and a name makes a flag of them.
formatUnary(op, text) ==
  IF op = "neg" /\ Len(text) > 1 /\ text[1] = <<"sym", "-">> /\ text[2][1] = "word"
  THEN <<<<"flag", text[2][2]>>>> \o SubSeq(text, 3, Len(text))
  ELSE Write(<<IF op = "neg" THEN "-" ELSE "!">>) \o text

\* Mutant: the operands in the wrong order.
formatSwapped(mode, op, left, right) ==
  formatExpr(mode, right) \o Write(<<OpString[op]>>) \o formatExpr(mode, left)

\* No parentheses, whatever the operands are.
formatBinaryOp(mode, op, left, right) ==
  formatExpr(mode, left) \o Write(<<OpString[op]>>) \o formatExpr(mode, right)

formatFunctionCall(mode, name, args) ==
  Write(name \o <<"(">>) \o Commas([i \in DOMAIN args |-> formatExpr(mode, args[i])]) \o Write(<<")">>)

\* More than three fields get a line each.
formatObject(mode, fields) ==
  LET text(i) == Write(fields[i][1] \o <<":">>) \o formatExpr(mode, fields[i][2])
      comma(i) == IF i < Len(fields) THEN <<",">> ELSE << >>
  IN  IF Len(fields) <= 3 THEN Write(<<"{">>) \o Commas([i \in DOMAIN fields |-> text(i)]) \o Write(<<"}">>)
      ELSE Write(<<"{", "\n">>) \o FlattenSeq([i \in DOMAIN fields |-> text(i) \o Write(Append(comma(i), "\n"))]) \o Write(<<"}">>)

formatArray(mode, elements) ==
  Write(<<"[">>) \o Commas([i \in DOMAIN elements |-> formatExpr(mode, elements[i])]) \o Write(<<"]">>)

formatBlock(mode, stmts) ==
  Write(<<"{", "\n">>) \o FlattenSeq([i \in DOMAIN stmts |-> formatStatement(mode, stmts[i])]) \o Write(<<"}">>)

formatAsync(mode, body) == Write(<<"async">>) \o formatBlock(mode, body)

formatCase(mode, c) ==
  formatPattern(c[1]) \o (IF c[2] = NoExpr THEN << >> ELSE Write(<<"when">>) \o formatExpr(mode, c[2])) \o
  Write(<<"=>">>) \o formatExpr(mode, c[3]) \o Write(<<"\n">>)

formatMatch(mode, value, cases) ==
  Write(<<"match">>) \o formatExpr(mode, value) \o Write(<<"{", "\n">>) \o
  FlattenSeq([i \in DOMAIN cases |-> formatCase(mode, cases[i])]) \o Write(<<"}">>)

\* Of pipes and try expressions nothing is written.
formatExpression(mode, e) ==
  CASE e[1] = "lit"    -> formatLiteral(e[2])
    [] e[1] = "var"    -> Write(e[2])
    [] e[1] = "bin"    -> formatBinaryOp(mode, e[2], e[3], e[4])
    [] e[1] = "un"     -> formatUnary(e[2], formatExpr(mode, e[3]))
    [] e[1] = "field"  -> formatExpr(mode, e[2]) \o Write(<<".">> \o e[3])
    [] e[1] = "index"  -> formatExpr(mode, e[2]) \o Write(<<"[">>) \o formatExpr(mode, e[3]) \o Write(<<"]">>)
    [] e[1] = "call"   -> formatFunctionCall(mode, e[2], e[3])
    [] e[1] = "object" -> formatObject(mode, e[2])
    [] e[1] = "array"  -> formatArray(mode, e[2])
    [] e[1] = "match"  -> formatMatch(mode, e[2], e[3])
    [] e[1] = "async"  -> formatAsync(mode, e[2])
    [] e[1] = "await"  -> Write(<<"await">>) \o formatExpr(mode, e[2])
    [] OTHER           -> << >>

----------------------------------------------------------------------------
(* Statements *)

Line(text) == Append(text, Newline)

formatAssign(mode, target, value) == Line(Mark(mode, "$") \o Write(target \o <<"=">>) \o formatExpr(mode, value))

formatReassign(mode, target, value) == Line(Write(target \o <<"=">>) \o formatExpr(mode, value))

formatReturn(mode, value) == Line(Mark(mode, ">") \o formatExpr(mode, value))

formatValidation(mode, f, args) == Line(Mark(mode, "?") \o formatFunctionCall(mode, f, args))

formatIf(mode, condition, then, else) ==
  Line(Write(<<"if">>) \o formatExpr(mode, condition) \o formatBlock(mode, then) \o
       IF else = << >> THEN << >> ELSE Write(<<"else">>) \o formatBlock(mode, else))

formatWhile(mode, condition, body) ==
  Line(Write(<<"while">>) \o formatExpr(mode, condition) \o formatBlock(mode, body))

formatFor(mode, key, name, iterable, body) ==
  Line(Write(<<"for">> \o (IF key = << >> THEN << >> ELSE Append(key, ",")) \o name \o <<"in">>) \o
       formatExpr(mode, iterable) \o formatBlock(mode, body))

formatSwitch(mode, value, cases, default) ==
  Line(Write(<<"switch">>) \o formatExpr(mode, value) \o Write(<<"{", "\n">>) \o
       FlattenSeq([i \in DOMAIN cases |->
         Line(Write(<<"case">>) \o formatExpr(mode, cases[i][1]) \o formatBlock(mode, cases[i][2]))]) \o
       (IF default = << >> THEN << >> ELSE Line(Write(<<"default">>) \o formatBlock(mode, default))) \o Write(<<"}">>))

\* Of the other statements nothing is written.
formatOneStatement(mode, s) ==
  CASE s[1] = "assign"   -> formatAssign(mode, s[2], s[3])
    [] s[1] = "reassign" -> formatReassign(mode, s[2], s[3])
    [] s[1] = "return"   -> formatReturn(mode, s[2])
    [] s[1] = "if"       -> formatIf(mode, s[2], s[3], s[4])
    [] s[1] = "while"    -> formatWhile(mode, s[2], s[3])
    [] s[1] = "for"      -> formatFor(mode, s[2], s[3], s[4], s[5])
    [] s[1] = "switch"   -> formatSwitch(mode, s[2], s[3], s[4])
    [] s[1] = "expr"     -> Line(formatExpr(mode, s[2]))
    [] s[1] = "validate" -> formatValidation(mode, s[2], s[3])
    [] OTHER             -> << >>

formatNode(what, mode, node) == IF what = "expression" THEN formatExpression(mode, node) ELSE formatOneStatement(mode, node)

----------------------------------------------------------------------------
(* Items *)

Required(required) == IF required THEN Write(<<"!">>) ELSE << >>

Typing(type) == IF type = NoType THEN << >> ELSE Write(<<":">>) \o formatType(type)

DefaultText(mode, e) == IF e = NoExpr THEN << >> ELSE Write(<<"=">>) \o formatExpr(mode, e)

Result(type) == IF type = NoType THEN << >> ELSE Write(<<"->">>) \o formatType(type)

\* <T, U: Type>
Angled(texts) == IF texts = << >> THEN << >> ELSE Write(<<"<">>) \o Commas(texts) \o Write(<<">">>)

Fields(members) == SelectSeq(members, LAMBDA m : m[1] = "field")

formatTypeDef(mode, item) ==
  LET params == item[3]
      field(f) == Line(Write(f.name) \o Typing(f.type) \o Required(f.required))
  IN  Mark(mode, ":") \o Write(item[2]) \o
      Angled([i \in DOMAIN params |-> Write(params[i][1]) \o Typing(params[i][2])]) \o Write(<<"{", "\n">>) \o
      FlattenSeq([i \in DOMAIN Fields(item[5]) |-> field(Fields(item[5])[i][2])]) \o Write(<<"}", "\n">>)

formatAuth(mode, auth) ==
  IF auth = <<"none">> THEN << >> ELSE Line(Mark(mode, "+") \o Write(<<"auth", "(">> \o auth \o <<")">>))

formatRateLimit(mode, rate) ==
  IF rate = <<"none">> THEN << >>
  ELSE Line(Mark(mode, "+") \o Write(<<"ratelimit", "(">>) \o <<<<"int", rate[1]>>>> \o PathText(<<"/">> \o rate[2]) \o Write(<<")">>))

formatInjections(mode, injections) ==
  FlattenSeq([i \in DOMAIN injections |-> Line(Mark(mode, "%") \o Write(injections[i][1]) \o Typing(injections[i][2]))])

\* concurrency(n), retries(n), timeout(n)
formatSetting(mode, name, n) ==
  IF n = 0 THEN << >> ELSE Line(Mark(mode, "+") \o Write(<<name, "(">>) \o <<<<"int", n>>>> \o Write(<<")">>))

formatStatements(mode, stmts) == FlattenSeq([i \in DOMAIN stmts |-> formatStatement(mode, stmts[i])])

\* The query parameters are written behind the path.
formatQuery(mode, q) == Write(<<"?">> \o q[1]) \o Typing(q[2]) \o Required(q[3]) \o DefaultText(mode, q[4])

formatRoute(mode, item) ==
  LET parts == item[5] IN
  Mark(mode, "@") \o Write(<<item[2]>>) \o PathText(item[3]) \o
  FlattenSeq([i \in DOMAIN parts.queries |-> formatQuery(mode, parts.queries[i])]) \o Result(item[4]) \o
  Write(<<"{", "\n">>) \o formatAuth(mode, parts.auth) \o formatRateLimit(mode, parts.rate) \o
  formatInjections(mode, parts.injections) \o formatStatements(mode, parts.body) \o Write(<<"}", "\n">>)

formatParam(mode, p) ==
  (IF p.flag THEN <<<<"flag", p.name[1]>>>> ELSE Write(p.name)) \o Typing(p.type) \o Required(p.required) \o
  DefaultText(mode, p.default)

formatCommand(mode, item) ==
  Mark(mode, "!") \o Write(item[2]) \o (IF item[3] = << >> THEN << >> ELSE Quoted(item[3])) \o
  FlattenSeq([i \in DOMAIN item[4] |-> formatParam(mode, item[4][i])]) \o formatBlock(mode, item[6]) \o Write(<<"\n">>)

\* The body of a task.
formatTask(mode, parts) ==
  Write(<<"{", "\n">>) \o formatInjections(mode, parts.injections) \o formatStatements(mode, parts.body) \o Write(<<"}", "\n">>)

formatCronTask(mode, item) == Mark(mode, "*") \o Quoted(item[2]) \o Write(item[3]) \o formatTask(mode, item[5])

formatEventHandler(mode, item) ==
  Mark(mode, "~") \o Quoted(item[2]) \o Write(IF item[3] THEN <<"async">> ELSE << >>) \o formatTask(mode, item[4])

formatQueueWorker(mode, item) ==
  LET parts == item[3] IN
  Mark(mode, "&") \o Quoted(item[2]) \o Write(<<"{", "\n">>) \o formatSetting(mode, "concurrency", parts.concurrency) \o
  formatSetting(mode, "retries", parts.retries) \o formatSetting(mode, "timeout", parts.timeout) \o Tail(Tail(formatTask(mode, parts)))

formatFunction(mode, item) ==
  LET params == item[4] IN
  Mark(mode, "=") \o Write(item[2]) \o Angled([i \in DOMAIN item[3] |-> Write(item[3][i][1])]) \o
  Write(<<"(">>) \o Commas([i \in DOMAIN params |-> Write(params[i].name) \o Typing(params[i].type)]) \o Write(<<")">>) \o
  Result(item[5]) \o formatBlock(mode, item[6]) \o Write(<<"\n">>)

\* The keyword is in capitals in either mode.
formatWebSocketRoute(mode, item) ==
  LET event(e) == Line(Write(<<"on">> \o e[1]) \o formatBlock(mode, e[2])) IN
  Mark(mode, "@") \o Write(<<"WS">>) \o PathText(item[2]) \o Write(<<"{", "\n">>) \o
  FlattenSeq([i \in DOMAIN item[3] |-> event(item[3][i])]) \o Write(<<"}", "\n">>)

As(alias) == Write(IF alias = << >> THEN << >> ELSE <<"as">> \o alias)

formatImport(item) ==
  IF item[1] = "import" THEN Line(Write(<<"import">>) \o Quoted(item[2]) \o As(item[3]))
  ELSE Line(Write(<<"from">>) \o Quoted(item[2]) \o Write(<<"import", "{">>) \o
            Commas([i \in DOMAIN item[3] |-> Write(item[3][i][1]) \o As(item[3][i][2])]) \o Write(<<"}">>))

formatModuleDecl(item) == Line(Write(<<"module">>) \o Quoted(item[2]))

\* A comment stands for the body.
formatMacroDef(item) ==
  Write(<<"macro", "!">> \o item[2] \o <<"(">>) \o Commas([i \in DOMAIN item[3] |-> Write(item[3][i])]) \o
  Write(<<")", "{", "\n">>) \o <<<<"comment", << >>>>, Newline>> \o Write(<<"}", "\n">>)

\* Of the other items nothing is written.
formatItem(mode, item) ==
  CASE item[1] = "typedef"            -> formatTypeDef(mode, item)
    [] item[1] = "route"              -> formatRoute(mode, item)
    [] item[1] = "command"            -> formatCommand(mode, item)
    [] item[1] = "cron"               -> formatCronTask(mode, item)
    [] item[1] = "event"              -> formatEventHandler(mode, item)
    [] item[1] = "queue"              -> formatQueueWorker(mode, item)
    [] item[1] = "function"           -> formatFunction(mode, item)
    [] item[1] = "socket"             -> formatWebSocketRoute(mode, item)
    [] item[1] \in {"import", "from"} -> formatImport(item)
    [] item[1] = "module"             -> formatModuleDecl(item)
    [] item[1] = "macro"              -> formatMacroDef(item)
    [] OTHER                          -> << >>

\* A blank line between the items.
Format(mode, tree) == Between("\n", [i \in DOMAIN tree[2] |-> formatItem(mode, tree[2][i])])
=============================================================================
