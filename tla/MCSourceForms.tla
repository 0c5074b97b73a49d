----------------------------- MODULE MCSourceForms -----------------------------
(***************************************************************************)
(* An instance of SourceForms.  The programs are of two kinds: routes      *)
(* whose statements are written from a tree by the printer below, with no  *)
(* more parentheses than the precedence of the operators asks for, so that *)
(* the tree the author means is known without the parser; and texts of the *)
(* other items, meant as the parser reads their compact form.              *)
(***************************************************************************)
EXTENDS SourceForms

----------------------------------------------------------------------------
(* The printer *)

Lexeme(x) ==
  CASE x \in DOMAIN CompactSymbol -> <<"sym", x>>
    [] x = "\n"                   -> Newline
    [] x \in {"1", "2"}           -> <<"int", IF x = "1" THEN 1 ELSE 2>>
    [] OTHER                      -> <<"word", x>>

Text(xs) == [i \in DOMAIN xs |-> Lexeme(xs[i])]

Symbol == [add |-> "+", sub |-> "-", mul |-> "*", div |-> "/", eq |-> "==", lt |-> "<", gt |-> ">", and |-> "&&", or |-> "||",
           not |-> "!", neg |-> "-"]

Binding == [or |-> 1, and |-> 2, eq |-> 3, lt |-> 3, gt |-> 3, add |-> 4, sub |-> 4, mul |-> 5, div |-> 5]

\* How tight the outermost operator of an expression holds it together.
Strength(e) ==
  CASE e[1] \in {"await", "try"} -> -1
    [] e[1] = "pipe"             -> 0
    [] e[1] = "bin"              -> Binding[e[2]]
    [] e[1] = "un"               -> 6
    [] OTHER                     -> 7

RECURSIVE Written(_)
RECURSIVE WithCommas(_)

Inside(min, e) == IF Strength(e) < min THEN Text(<<"(">>) \o Written(e) \o Text(<<")">>) ELSE Written(e)

WithCommas(es) ==
  IF Len(es) < 2 THEN FlattenSeq([i \in DOMAIN es |-> Written(es[i])])
  ELSE Written(es[1]) \o Text(<<",">>) \o WithCommas(Tail(es))

Literals == [int |-> <<"int", 1>>, string |-> <<"str", <<"s", "\\n">>>>, null |-> <<"word", "null">>]

Written(e) ==
  CASE e[1] = "lit"   -> IF e[2][1] = "bool" THEN Text(<<IF e[2][2] THEN "true" ELSE "false">>) ELSE <<Literals[e[2][1]]>>
    [] e[1] = "var"   -> Text(e[2])
    [] e[1] = "bin"   -> Inside(Binding[e[2]], e[3]) \o Text(<<Symbol[e[2]]>>) \o Inside(Binding[e[2]] + 1, e[4])
    [] e[1] = "un"    -> Text(<<Symbol[e[2]]>>) \o Inside(6, e[3])
    [] e[1] = "pipe"  -> Inside(0, e[2]) \o Text(<<"|>">>) \o Inside(1, e[3])
    [] e[1] = "field" -> Written(e[2]) \o Text(<<".">> \o e[3])
    [] e[1] = "index" -> Written(e[2]) \o Text(<<"[">>) \o Written(e[3]) \o Text(<<"]">>)
    [] e[1] = "call"  -> Text(e[2] \o <<"(">>) \o WithCommas(e[3]) \o Text(<<")">>)
    [] e[1] = "array" -> Text(<<"[">>) \o WithCommas(e[2]) \o Text(<<"]">>)
    [] e[1] = "await" -> Text(<<"await">>) \o Written(e[2])
    [] e[1] = "try"   -> Text(<<"try">>) \o Written(e[2])

Marks == [compact |-> [let |-> "$", return |-> ">", validate |-> "?", route |-> "@"],
          expanded |-> [let |-> "let", return |-> "return", validate |-> "validate", route |-> "route"]]

RECURSIVE WrittenBlock(_, _)

WrittenStatement(form, s) ==
  CASE s[1] = "assign"   -> Text(<<Marks[form].let>> \o s[2] \o <<"=">>) \o Written(s[3])
    [] s[1] = "reassign" -> Text(s[2] \o <<"=">>) \o Written(s[3])
    [] s[1] = "return"   -> Text(<<Marks[form].return>>) \o Written(s[2])
    [] s[1] = "validate" -> Text(<<Marks[form].validate>> \o s[2] \o <<"(">>) \o WithCommas(s[3]) \o Text(<<")">>)
    [] s[1] = "expr"     -> Written(s[2])
    [] s[1] = "if"       -> Text(<<"if">>) \o Written(s[2]) \o WrittenBlock(form, s[3]) \o
                              IF s[4] = << >> THEN << >> ELSE Text(<<"else">>) \o WrittenBlock(form, s[4])
    [] s[1] = "while"    -> Text(<<"while">>) \o Written(s[2]) \o WrittenBlock(form, s[3])
    [] s[1] = "for"      -> Text(<<"for">> \o s[2] \o <<",">> \o s[3] \o <<"in">>) \o Written(s[4]) \o WrittenBlock(form, s[5])

WrittenBlock(form, stmts) ==
  Text(<<"{", "\n">>) \o FlattenSeq([i \in DOMAIN stmts |-> Append(WrittenStatement(form, stmts[i]), Newline)]) \o Text(<<"}">>)

RouteText(form, stmts) ==
  Text(<<Marks[form].route, "GET">>) \o <<<<"path", <<"/", "a", "/", ":", "b">>>>>> \o WrittenBlock(form, stmts)

RouteTree(stmts) ==
  <<"module", <<<<"route", "GET", <<"/", "a", "/", ":", "b">>, NoType, [NoParts EXCEPT !.body = stmts]>>>>>>

RouteProgram(form, stmts) == <<RouteText(form, stmts), RouteTree(stmts)>>

----------------------------------------------------------------------------
(* Routes: every pair of operators, and every kind of statement *)

A == <<"var", <<"a">>>>
B == <<"var", <<"b">>>>
One == <<"lit", IntValue(1)>>

Operators == {"sub", "mul", "div", "lt", "eq", "and", "or"}

Operands ==
  <<A, <<"un", "not", A>>, <<"un", "neg", One>>, <<"pipe", A, B>>, <<"await", A>>, <<"try", B>>,
    <<"call", <<"f">>, <<B, <<"bin", "or", A, B>>>>>>, <<"call", <<"a", ".", "f">>, << >>>>,
    <<"index", <<"field", A, <<"f">>>>, <<"bin", "add", B, One>>>>, <<"array", <<A, <<"lit", NullValue>>>>>>,
    <<"lit", StringValue(<<"s", "newline">>)>>, <<"bin", "sub", A, B>>, <<"bin", "mul", A, B>>, <<"bin", "div", A, B>>,
    <<"bin", "lt", A, B>>, <<"bin", "eq", A, B>>, <<"bin", "and", A, B>>, <<"bin", "or", A, B>>>>

\* One operand to the left of an operator, three of them to its right.
Chunk(k) == SubSeq(Operands, 3 * k - 2, 3 * k)
Chunks == 1..(Len(Operands) \div 3)

Nested(op, e, k) == [i \in 1..3 |-> <<"assign", <<"a">>, <<"bin", op, e, Chunk(k)[i]>>>>]

Prefixed(op, k) == [i \in 1..3 |-> <<"return", <<"un", op, Chunk(k)[i]>>>>]

Piped(e, k) == [i \in 1..3 |-> <<"reassign", <<"b">>, <<"pipe", e, Chunk(k)[i]>>>>]

Assign == <<"assign", <<"a">>, One>>
ReturnA == <<"return", A>>

Inner == {<<Assign>>, <<ReturnA, Assign>>, <<<<"if", A, <<ReturnA>>, <<Assign>>>>>>,
          <<<<"while", <<"bin", "lt", A, One>>, <<Assign, <<"expr", <<"call", <<"f">>, <<A>>>>>>>>>>>>}

Bodies ==
  {Nested(op, Operands[i], k) : op \in Operators, i \in DOMAIN Operands, k \in Chunks}
    \cup {Prefixed(op, k) : op \in {"not", "neg"}, k \in Chunks}
    \cup {Piped(Operands[i], k) : i \in DOMAIN Operands, k \in Chunks}
    \cup {<<<<"if", A, b, c>>, ReturnA>> : b \in Inner, c \in Inner \cup {<< >>}}
    \cup {<<<<"for", <<"a">>, <<"b">>, A, b>>, <<"validate", <<"f">>, <<A, One>>>>>> : b \in Inner}

----------------------------------------------------------------------------
(* Other items *)

Str == <<"str", <<"s">>>>
PathOf(ps) == <<"path", ps>>

\* A comment, with a brace and an apostrophe in it.
Comment == <<"comment", <<"'", "{">>>>

TypeText ==
  <<Comment, Newline>> \o
  Text(<<":", "User", "<", "T", ",", "U", ":", "A", ">", "{", "\n",
         "id", ":", "int", "!", "\n",
         "name", ":", "str", "|", "List", "[", "T", "]", "|", "[", "int", "]", "\n",
         "f", ":", "(", "int", ")", "->", "str", "?", "\n",
         "get", "(", "a", ":", "int", "=", "1", ")", "->", "U", "{", "\n", ">", "a", "\n", "}", "\n", "}">>)

QueueText ==
  Text(<<"&">>) \o <<Str>> \o
  Text(<<"{", "\n", "+", "retries", "(", "2", ")", "\n", "%", "db", ":", "Database", "\n", "if", "a", "{", "\n", "$", "a",
         "=", "a", "+", "1", "\n", "}", "else", "if", "b", "{", "\n", ">", "a", "\n", "}", "\n", "}">>)

CronText ==
  Text(<<"*">>) \o <<Str>> \o Text(<<"job", "tz">>) \o <<Str>> \o
  Text(<<"{", "\n", "$", "a", ".", "b", "[", "1", "]", ".", "c", "=", "{", "x", ":", "1", ",", "\n", "y", ":", "[", "]", "}",
         "\n", ">", "a", "\n", "}">>)

EventText ==
  Text(<<"~", "user", ".", "created", "async", "{", "\n", "$", "a", ":", "int", "\n", "}", "\n", "\n",
         "@", "static">>) \o <<PathOf(<<"/", "files">>), Str>>

CommandText ==
  Text(<<"!", "serve">>) \o <<Str>> \o
  Text(<<"port", ":", "int", "=", "1", "-", "verbose", "->", "str", "{", "\n",
         "switch", "a", "{", "\n", "case", "1", "{", "\n", "$", "b", "=", "2", "\n", "}", "\n",
         "default", "{", "\n", ">", "null", "\n", "}", "\n", "}", "\n", "}">>)

FunctionText ==
  Text(<<"!", "f", "<", "T", ">", "(", "a", ":", "T", "!", ",", "b", ":", "int", "=", "1", ")", ":", "T", "{", "\n",
         ">", "match", "a", "{", "\n", "{", "x", ":", "[", "1", ",", "...", "r", "]", "}", "when", "b", "=>", "r", "\n",
         "_", "=>", "a", "\n", "}", "\n", "}">>)

RouteMiddlewareText ==
  Text(<<"@", "POST">>) \o <<PathOf(<<"/", "in", "/", ":", "id">>)>> \o
  Text(<<"->", "User", "|", "Error", "{", "\n", "+", "auth", "(", "jwt", ")", "\n", "+", "ratelimit", "(", "1">>) \o
  <<PathOf(<<"/", "min">>)>> \o
  Text(<<")", "\n", "+", "log", "(", "a", "=", "1", ")", "\n", "<", "input", ":", "User", "\n", "?", "page", ":", "int",
         "=", "1", "\n", "?", "check", "(", "a", ")", "\n", "%", "db", ":", "Database", "\n",
         "$", "q", "=", "db", ".", "users", ".", "get", "(", "id", ")", "\n", ">", "async", "{", "\n", ">", "q", "\n", "}",
         "\n", "}">>)

SocketText ==
  Text(<<"@", "ws">>) \o <<PathOf(<<"/", "chat">>)>> \o
  Text(<<"{", "\n", "on", "connect", "{", "\n", "ws", ".", "join", "(", "a", ")", "\n", "}", "\n", "\n",
         "on", "message", "{", "\n", "}", "\n", "}">>)

ModuleText ==
  Text(<<"module">>) \o <<Str>> \o Text(<<"\n", "import">>) \o <<Str>> \o Text(<<"as", "m", "\n", "from">>) \o <<Str>> \o
  Text(<<"import", "{", "a", "as", "b", ",", "\n", "c", "}", "\n", "const", "X", ":", "int", "=", "1", "\n",
         "macro", "!", "m", "(", "p", ",", "q", ")", "{", "\n", "@", "GET">>) \o <<PathOf(<<"/", "p">>)>> \o
  Text(<<"{", "\n", ">", "p", "\n", "}", "\n", "n", "!", "(", "q", ")", "\n", "}", "\n", "m", "!", "(", "1", ",", "X", ")">>)

InterfaceText ==
  Text(<<"trait", "T", "{", "\n", "f", "(", "a", ":", "int", ")", "->", "str", "\n", "}", "\n",
         "provider", "P", "<", "T", ">", "{", "\n", "g", "(", ")", "\n", "}", "\n",
         "contract", "C", "{", "\n", "@", "GET">>) \o <<PathOf(<<"/", "users", "/", ":", "id">>)>> \o
  Text(<<"->", "User", "!", "|", "Error", "\n", "}", "\n",
         "@", "rpc", "S", "{", "\n", "Get", "(", "stream", "A", ")", "->", "stream", "B", "\n", "}", "\n",
         "@", "rpc", "Get", "(", "a", ":", "A", ")", "->", "stream", "B", "{", "\n", "+", "auth", "(", "jwt", ")", "\n",
         "yield", "a", "\n", "}", "\n",
         "@", "query", "user", "(", "id", ":", "int", "!", ")", "->", "User", "{", "\n", "%", "db", ":", "Db", "\n", ">", "id",
         "\n", "}", "\n", "test">>) \o <<Str>> \o
  Text(<<"{", "\n", "assert", "(", "f", "(", "1", ")", "==", "2", ",", "a", ")", "\n", "}">>)

\* Items the formatter can write, several in a file.
FormattedText ==
  Text(<<"module">>) \o <<Str>> \o Text(<<"\n", "import">>) \o <<Str>> \o Text(<<"as", "m", "\n", "from">>) \o <<Str>> \o
  Text(<<"import", "{", "a", "as", "b", ",", "c", "}", "\n",
         ":", "User", "<", "T", ",", "U", ":", "m", ".", "A", ">", "{", "\n",
         "id", ":", "int", "!", "\n",
         "name", ":", "m", ".", "A", "|", "List", "[", "T", ",", "str", "[", "]", "]", "|", "[", "int", "]", "!", "\n",
         "f", ":", "(", "int", ",", "T", "?", ")", "->", "str", "?", "\n", "}", "\n",
         "@", "POST">>) \o <<PathOf(<<"/", "in", "/", ":", "id">>)>> \o
  Text(<<"->", "User", "|", "Error", "{", "\n", "%", "db", ":", "Database", "\n", "+", "ratelimit", "(", "1">>) \o
  <<PathOf(<<"/", "min">>)>> \o
  Text(<<")", "\n", "+", "auth", "(", "jwt", ",", "admin", ")", "\n",
         "$", "q", ".", "r", "=", "{", ":", "x", "=", "1", ",", "y", ":", "a", ",", "\n", "z", ":", "[", "]", ",", "u", ":", "{", "}", "}", "\n",
         "?", "check", "(", "q", ".", "r", "[", "1", "]", ")", "\n", ">", "async", "{", "\n", ">", "await", "a", "+", "1", "\n", "}",
         "\n", "}", "\n",
         "module">>) \o <<Str>>

FormattedTasks ==
  Text(<<"!", "serve">>) \o <<Str>> \o
  Text(<<"port", ":", "int", "=", "1", "host", ":", "str", "!", "{", "\n",
         "switch", "a", "{", "\n", "case", "1", "{", "\n", "$", "b", "=", "2", "\n", "}", "\n",
         "default", "{", "\n", ">", "null", "\n", "}", "\n", "}", "\n",
         ">", "match", "a", "{", "\n", "{", "x", ":", "[", "1", ",", "...", "r", "]", ",", "y", "}", "when", "b", "=>", "r", ",",
         "_", "=>", "match", "b", "{", "\n", "null", "=>", "a", "\n", "}", "\n", "}", "\n", "}", "\n",
         "module">>) \o <<Str>>

FormattedWorkers ==
  Text(<<"&", "user", ".", "created", "{", "\n", "+", "retries", "(", "2", ")", "\n", "+", "concurrency", "(", "1", ")", "\n",
         "if", "a", "{", "\n", "for", "x", "in", "a", "{", "\n", "f", "(", "x", ")", "\n", "}", "\n", "}", "\n", "}", "\n",
         "*">>) \o <<Str>> \o
  Text(<<"job", "\n", "~", "user", "async", "{", "\n", "%", "db", ":", "Database", "\n", ">", "null", "\n", "}", "\n",
         "macro", "!", "m", "(", "p", ",", "q", ")", "{", "\n", "}">>)

ItemTexts ==
  {FormattedText, FormattedTasks, FormattedWorkers, TypeText, QueueText, CronText, EventText, CommandText, FunctionText, RouteMiddlewareText, SocketText, ModuleText,
   InterfaceText}

\* Every item is written correctly, so that a tree is meant.
ItemPrograms == {<<t, Tree(CompactLexer, t)>> : t \in ItemTexts}

ASSUME ItemsParse == \A p \in ItemPrograms : p[2] # NoTree

Compact == {RouteProgram("compact", b) : b \in Bodies} \cup ItemPrograms

Expanded == {RouteProgram("expanded", <<<<"if", A, b, << >>>>, ReturnA>>) : b \in Inner}

----------------------------------------------------------------------------
(* Programs that do not survive their conversion *)

\* if a { $ b = 1 }, on one line.
OneLineText ==
  Text(<<"@", "GET">>) \o <<PathOf(<<"/", "a">>)>> \o
  Text(<<"{", "\n", "if", "a", "{", "$", "b", "=", "1", "}", "\n", ">", "b", "\n", "}">>)

\* A field that has the name of a keyword of the other form.
ReservedText ==
  Text(<<"@", "GET">>) \o <<PathOf(<<"/", "a">>)>> \o Text(<<"{", "\n", ">", "a", ".", "type", "\n", "}">>)

\* A string with an escape sequence that one lexer knows.
EscapeText ==
  Text(<<"@", "GET">>) \o <<PathOf(<<"/", "a">>)>> \o
  Text(<<"{", "\n", ">">>) \o <<<<"str", <<"\\u0041">>>>>> \o Text(<<"\n", "}">>)

Unportable == {<<t, Tree(CompactLexer, t)>> : t \in {OneLineText, ReservedText, EscapeText}}
=============================================================================
