------------------------------- MODULE Parser -------------------------------
(***************************************************************************)
(* The recursive descent parser (pkg/parser/parser.go): from the tokens of *)
(* SourceText to the syntax trees of module Interpreter.                   *)
(*                                                                         *)
(* Parse(what, ts) applies the function that parses `what' to the tokens   *)
(* ts that are left (p.tokens[p.position:], EOF the last) and gives the    *)
(* tree and the tokens behind it, or an error.  Positions, error texts,    *)
(* floats and the limit on nesting are left out.  Names are sequences of   *)
(* symbols.  Trees the interpreter's model does not have: <<"pipe", l, r>>,*)
(* <<"indexassign", e, e>>, <<"validate", f, es>>, <<"yield", e>>,         *)
(* <<"assert", e, e>>.                                                     *)
(***************************************************************************)
EXTENDS SourceText, Values

\* An error is found at the tokens ts.
Error(ts) == [ok |-> FALSE, rest |-> ts]

Parsed(node, ts) == [ok |-> TRUE, node |-> node, rest |-> ts]

\* Go on with the tree and the tokens behind it, or return the error.
Then(r, F(_, _)) == IF r.ok THEN F(r.node, r.rest) ELSE r

\* Go on behind what was parsed, its tree is not needed.
ThenSkip(r, F(_)) == IF r.ok THEN F(r.rest) ELSE r

Build(r, F(_)) == IF r.ok THEN Parsed(F(r.node), r.rest) ELSE r

Type(ts) == Head(ts)[1]

Literal(ts) == Head(ts)[2]

\* peek(1); behind EOF there is EOF.
PeekType(ts) == IF Len(ts) > 1 THEN ts[2][1] ELSE "EOF"

IsWord(ts, w) == Type(ts) = "IDENT" /\ Literal(ts) = <<w>>

\* advance
Advance(ts) == IF Type(ts) = "EOF" THEN ts ELSE Tail(ts)

\* expect
Expect(type, ts) == IF Type(ts) = type THEN Parsed(type, Advance(ts)) ELSE Error(ts)

\* expectIdent
Ident(ts) == IF Type(ts) = "IDENT" THEN Parsed(Literal(ts), Advance(ts)) ELSE Error(ts)

SkipNewlines(ts) == SubSeq(ts, SelectInSeq(ts, LAMBDA t : t[1] # "NEWLINE"), Len(ts))

RECURSIVE Parse(_, _)
RECURSIVE List(_, _, _, _, _)
RECURSIVE Many(_, _, _)
RECURSIVE Binary(_, _, _)
RECURSIVE Pipes(_, _)
RECURSIVE Postfix(_, _, _)
RECURSIVE LValue(_, _)
RECURSIVE Target(_, _)
RECURSIVE Cases(_, _)
RECURSIVE SwitchCases(_, _, _)
RECURSIVE TypeName(_, _, _)
RECURSIVE Union(_, _)
RECURSIVE AnnotationStrings(_, _)
RECURSIVE AnnotationParams(_, _)
RECURSIVE Annotations(_, _)
RECURSIVE Dashes(_, _, _)
RECURSIVE Path(_, _, _)
RECURSIVE SocketEvents(_, _)
RECURSIVE CommandParams(_, _)
RECURSIVE Parts(_, _, _)
RECURSIVE Dots(_, _)
RECURSIVE ContractPath(_, _)
RECURSIVE MoreTypes(_, _)
RECURSIVE Items(_, _)

\* The ways to write a list: "inline" and "lines" allow a comma behind the last part, the latter newlines
\* around the parts as well; "strict" does not, and "nonempty" wants at least one part.
Lines(mode, ts) == IF mode = "lines" THEN SkipNewlines(ts) ELSE ts

MayClose(mode, parts) == mode \in {"inline", "lines"} \/ (mode = "strict" /\ parts = << >>)

Close(close, mode, parts, ts) == Build(Expect(close, Lines(mode, ts)), LAMBDA t : parts)

AfterPart(what, close, mode, parts, ts) ==
  IF Type(ts) = "COMMA" /\ ~(what = "element" /\ Last(parts)[1] = "rest")
  THEN List(what, close, mode, parts, Advance(ts))
  ELSE Close(close, mode, parts, ts)

\* The parts up to the closing token.
List(what, close, mode, parts, ts) ==
  IF Type(Lines(mode, ts)) \in {close, "EOF"} /\ MayClose(mode, parts) THEN Close(close, mode, parts, ts)
  ELSE Then(Parse(what, Lines(mode, ts)), LAMBDA part, us : AfterPart(what, close, mode, Append(parts, part), us))

\* Parts up to a closing brace; newlines may but need not separate them.
Many(what, parts, ts) ==
  IF Type(SkipNewlines(ts)) \in {"RBRACE", "EOF"} THEN Build(Expect("RBRACE", SkipNewlines(ts)), LAMBDA t : parts)
  ELSE Then(Parse(what, SkipNewlines(ts)), LAMBDA part, us : Many(what, Append(parts, part), us))

Block(ts) == Many("statement", << >>, ts)

\* An opening brace, on this line or a later one, and the statements of its block.
Braced(ts) == ThenSkip(Expect("LBRACE", SkipNewlines(ts)), LAMBDA us : Block(us))

----------------------------------------------------------------------------
(* Expressions *)

\* currentBinaryOp
BinaryOp ==
  [PLUS |-> <<"add", 10>>, MINUS |-> <<"sub", 10>>, STAR |-> <<"mul", 20>>, SLASH |-> <<"div", 20>>,
   PERCENT |-> <<"mod", 20>>, EQ_EQ |-> <<"eq", 5>>, NOT_EQ |-> <<"ne", 5>>, LESS |-> <<"lt", 5>>,
   LESS_EQ |-> <<"le", 5>>, GREATER |-> <<"gt", 5>>, GREATER_EQ |-> <<"ge", 5>>, AND |-> <<"and", 3>>, OR |-> <<"or", 2>>]

\* Operators that bind at least as tight as min are taken from left to right.  In the default of a
\* command parameter (flags) a minus before a name or another minus begins the next flag.
Continues(min, flags, ts) ==
  /\ Type(ts) \in DOMAIN BinaryOp
  /\ BinaryOp[Type(ts)][2] >= min
  /\ ~(flags /\ Type(ts) = "MINUS" /\ PeekType(ts) \in {"MINUS", "IDENT"})

\* Operand and operators of a binary expression whose left part is already there.
Binary(min, flags, left) ==
  IF ~Continues(min, flags, left.rest) THEN left
  ELSE LET op == BinaryOp[Type(left.rest)] IN
       Then(Parse("unary", Advance(left.rest)), LAMBDA operand, ts :
         Then(Binary(op[2] + 1, flags, Parsed(operand, ts)), LAMBDA right, us :
           Binary(min, flags, Parsed(<<"bin", op[1], left.node, right>>, us))))

BinaryExpr(flags, ts) == Then(Parse("unary", ts), LAMBDA left, us : Binary(0, flags, Parsed(left, us)))

\* parsePipeExpr: pipes bind weakest, from left to right.
Pipes(left, ts) ==
  IF Type(ts) # "PIPE_OP" THEN Parsed(left, ts)
  ELSE Then(BinaryExpr(FALSE, Advance(ts)), LAMBDA right, us : Pipes(<<"pipe", left, right>>, us))

PipeExpr(ts) == Then(BinaryExpr(FALSE, ts), LAMBDA left, us : Pipes(left, us))

Unary(ts) ==
  CASE Type(ts) = "BANG"  -> Build(Parse("unary", Advance(ts)), LAMBDA e : <<"un", "not", e>>)
    [] Type(ts) = "MINUS" -> Build(Parse("unary", Advance(ts)), LAMBDA e : <<"un", "neg", e>>)
    [] OTHER              -> Parse("primary", ts)

\* The value of a literal token.
LiteralTypes == {"INTEGER", "STRING", "TRUE", "FALSE", "NULL"}

LiteralValue(t) ==
  CASE t[1] = "INTEGER" -> IntValue(t[2])
    [] t[1] = "STRING"  -> StringValue(t[2])
    [] t[1] = "NULL"    -> NullValue
    [] OTHER            -> BoolValue(t[1] = "TRUE")

Arguments(ts) == List("expr", "RPAREN", "inline", << >>, ts)

\* o.f(args): a call of "o.f" when o is a variable, of f with o as the first argument otherwise.
MethodCall(o, f, args) ==
  IF o[1] = "var" THEN <<"call", o[2] \o <<".">> \o f, args>> ELSE <<"call", f, <<o>> \o args>>

\* Fields, indices and calls behind a name.  A call of anything but a field calls the name itself.
AfterDot(name, e, f, ts) ==
  IF Type(ts) = "LPAREN"
  THEN Then(Arguments(Advance(ts)), LAMBDA args, us : Postfix(name, MethodCall(e, f, args), us))
  ELSE Postfix(name, <<"field", e, f>>, ts)

Postfix(name, e, ts) ==
  CASE Type(ts) = "DOT"      -> Then(Ident(Advance(ts)), LAMBDA f, us : AfterDot(name, e, f, us))
    [] Type(ts) = "LBRACKET" -> Then(Parse("expr", Advance(ts)), LAMBDA i, us :
                                  ThenSkip(Expect("RBRACKET", us), LAMBDA vs : Postfix(name, <<"index", e, i>>, vs)))
    [] Type(ts) = "LPAREN"   -> Then(Arguments(Advance(ts)), LAMBDA args, us : Postfix(name, <<"call", name, args>>, us))
    [] OTHER                 -> Parsed(e, ts)

\* A field of an object literal: name: value, or :name = value.
ObjectField(ts) ==
  LET symbol == Type(ts) = "COLON" IN
  Then(Ident(IF symbol THEN Advance(ts) ELSE ts), LAMBDA name, us :
    ThenSkip(Expect(IF symbol THEN "EQUALS" ELSE "COLON", us), LAMBDA vs :
      Build(Parse("expr", vs), LAMBDA e : <<name, e>>)))

Grouped(ts) ==
  Then(Parse("expr", ts), LAMBDA e, us : Build(Expect("RPAREN", us), LAMBDA t : e))

AsyncExpr(ts) == Build(Braced(ts), LAMBDA body : <<"async", body>>)

\* Both take all that follows, operators and pipes included.
AwaitExpr(ts) == Build(Parse("expr", ts), LAMBDA e : <<"await", e>>)
TryExpr(ts)   == Build(Parse("expr", ts), LAMBDA e : <<"try", e>>)

Primary(ts) ==
  CASE Type(ts) \in LiteralTypes -> Parsed(<<"lit", LiteralValue(Head(ts))>>, Advance(ts))
    [] Type(ts) = "IDENT"        -> Postfix(Literal(ts), <<"var", Literal(ts)>>, Advance(ts))
    [] Type(ts) = "LBRACE"       -> Build(List("objectfield", "RBRACE", "lines", << >>, Advance(ts)), LAMBDA fs : <<"object", fs>>)
    [] Type(ts) = "LPAREN"       -> Grouped(Advance(ts))
    [] Type(ts) = "LBRACKET"     -> Build(List("expr", "RBRACKET", "lines", << >>, Advance(ts)), LAMBDA es : <<"array", es>>)
    [] Type(ts) = "MATCH"        -> Parse("match", Advance(ts))
    [] Type(ts) = "ASYNC"        -> AsyncExpr(Advance(ts))
    [] Type(ts) = "AWAIT"        -> AwaitExpr(Advance(ts))
    [] Type(ts) = "TRY"          -> TryExpr(Advance(ts))
    [] OTHER                     -> Error(ts)

----------------------------------------------------------------------------
(* Match expressions and patterns *)

ObjectPatternField(ts) ==
  Then(Ident(ts), LAMBDA name, us :
    IF Type(us) = "COLON" THEN Build(Parse("pattern", Advance(us)), LAMBDA p : <<name, p>>)
    ELSE Parsed(<<name, <<"bind">>>>, us))

\* An element of an array pattern, or its rest, behind which no comma is taken.
ArrayElement(ts) ==
  IF Type(ts) = "DOTDOTDOT" THEN Build(Ident(Advance(ts)), LAMBDA name : <<"rest", name>>) ELSE Parse("pattern", ts)

ArrayPattern(parts) ==
  IF parts # << >> /\ Last(parts)[1] = "rest" THEN <<"array", Front(parts), Last(parts)[2]>> ELSE <<"array", parts, << >>>>

Pattern(ts) ==
  CASE Type(ts) \in LiteralTypes -> Parsed(<<"lit", LiteralValue(Head(ts))>>, Advance(ts))
    [] Type(ts) = "IDENT"        -> Parsed(IF IsWord(ts, "_") THEN <<"any">> ELSE <<"var", Literal(ts)>>, Advance(ts))
    [] Type(ts) = "LBRACE"       -> Build(List("patternfield", "RBRACE", "lines", << >>, Advance(ts)), LAMBDA fs : <<"object", fs>>)
    [] Type(ts) = "LBRACKET"     -> Build(List("element", "RBRACKET", "lines", << >>, Advance(ts)), LAMBDA ps : ArrayPattern(ps))
    [] OTHER                     -> Error(ts)

Guard(ts) == IF Type(ts) = "WHEN" THEN Parse("expr", Advance(ts)) ELSE Parsed(<<"none">>, ts)

SkipComma(ts) == IF Type(ts) = "COMMA" THEN Advance(ts) ELSE ts

Cases(cases, ts) ==
  IF Type(SkipNewlines(ts)) \in {"RBRACE", "EOF"} THEN Build(Expect("RBRACE", SkipNewlines(ts)), LAMBDA t : cases)
  ELSE Then(Parse("pattern", SkipNewlines(ts)), LAMBDA p, us :
         Then(Guard(us), LAMBDA g, vs :
           ThenSkip(Expect("FATARROW", vs), LAMBDA ws :
             Then(Parse("expr", ws), LAMBDA e, xs : Cases(Append(cases, <<p, g, e>>), SkipComma(xs))))))

\* parseMatchExpr, behind the keyword.
Match(ts) ==
  Then(Parse("expr", ts), LAMBDA v, us :
    ThenSkip(Expect("LBRACE", SkipNewlines(us)), LAMBDA vs :
      Build(Cases(<< >>, vs), LAMBDA cases : <<"match", v, cases>>)))

----------------------------------------------------------------------------
(* Statements *)

\* = expr
Value(ts) == ThenSkip(Expect("EQUALS", ts), LAMBDA us : Parse("expr", us))

\* parseLValueExpr: indices and fields behind the target of an assignment.
LValue(e, ts) ==
  CASE Type(ts) = "LBRACKET" -> Then(Parse("expr", Advance(ts)), LAMBDA i, us :
                                  ThenSkip(Expect("RBRACKET", us), LAMBDA vs : LValue(<<"index", e, i>>, vs)))
    [] Type(ts) = "DOT"      -> Then(Ident(Advance(ts)), LAMBDA f, us : LValue(<<"field", e, f>>, us))
    [] OTHER                 -> Parsed(e, ts)

IndexAssign(base, ts) ==
  Then(LValue(base, ts), LAMBDA target, us : Build(Value(us), LAMBDA e : <<"indexassign", target, e>>))

\* The fields behind the name of a $ statement belong to its target; an index among them makes it an
\* assignment to an element of the object named so far.
Target(name, ts) ==
  IF Type(ts) # "DOT" THEN Build(Value(ts), LAMBDA e : <<"assign", name, e>>)
  ELSE Then(Ident(Advance(ts)), LAMBDA f, us :
         IF Type(us) = "LBRACKET" THEN IndexAssign(<<"field", <<"var", name>>, f>>, us)
         ELSE Target(name \o <<".">> \o f, us))

\* A type annotation is parsed and forgotten; without a value the variable gets an empty string.
Annotated(name, ts, F(_)) ==
  IF Type(ts) # "COLON" THEN F(ts)
  ELSE ThenSkip(Parse("type", Advance(ts)), LAMBDA us :
         IF Type(us) = "EQUALS" THEN F(us) ELSE Parsed(<<"assign", name, <<"lit", StringValue(<< >>)>>>>, us))

\* $ statements.
Assignment(ts) ==
  Then(Ident(ts), LAMBDA name, us :
    Annotated(name, us, LAMBDA vs :
      IF Type(vs) = "LBRACKET" THEN IndexAssign(<<"var", name>>, vs) ELSE Target(name, vs)))

\* let statements of the compact syntax, which know neither fields nor indices.
LetStatement(ts) ==
  Then(Ident(ts), LAMBDA name, us :
    Annotated(name, us, LAMBDA vs : Build(Value(vs), LAMBDA e : <<"assign", name, e>>)))

Return(ts) == Build(Parse("expr", ts), LAMBDA e : <<"return", e>>)

Validation(ts) ==
  Then(Ident(ts), LAMBDA f, us :
    ThenSkip(Expect("LPAREN", us), LAMBDA vs : Build(Arguments(vs), LAMBDA args : <<"validate", f, args>>)))

\* else, on the line of the closing brace or a later one.
Else(ts) ==
  LET us == SkipNewlines(ts) IN
  IF ~IsWord(us, "else") THEN Parsed(<< >>, us)
  ELSE IF IsWord(SkipNewlines(Advance(us)), "if")
       THEN Build(Parse("if", Advance(SkipNewlines(Advance(us)))), LAMBDA s : <<s>>)
       ELSE Braced(Advance(us))

If(ts) ==
  Then(Parse("expr", ts), LAMBDA c, us :
    Then(Braced(us), LAMBDA then, vs :
      Build(Else(vs), LAMBDA else : <<"if", c, then, else>>)))

While(ts) == Then(Parse("expr", ts), LAMBDA c, us : Build(Braced(us), LAMBDA body : <<"while", c, body>>))

ForOver(key, name, ts) ==
  ThenSkip(Expect("IN", ts), LAMBDA us :
    Then(Parse("expr", us), LAMBDA e, vs :
      Build(Braced(vs), LAMBDA body : <<"for", key, name, e, body>>)))

For(ts) ==
  Then(Ident(ts), LAMBDA first, us :
    IF Type(us) = "COMMA" THEN Then(Ident(Advance(us)), LAMBDA second, vs : ForOver(first, second, vs))
    ELSE ForOver(<< >>, first, us))

\* The statements of several default blocks are joined.
SwitchCases(cases, default, ts) ==
  LET us == SkipNewlines(ts) IN
  CASE Type(us) \in {"RBRACE", "EOF"} -> Build(Expect("RBRACE", us), LAMBDA t : <<cases, default>>)
    [] Type(us) = "CASE"    -> Then(Parse("expr", Advance(us)), LAMBDA e, vs :
                                 Then(Braced(vs), LAMBDA body, ws : SwitchCases(Append(cases, <<e, body>>), default, ws)))
    [] Type(us) = "DEFAULT" -> Then(Braced(Advance(us)), LAMBDA body, ws : SwitchCases(cases, default \o body, ws))
    [] OTHER                -> Error(ts)

Switch(ts) ==
  Then(Parse("expr", ts), LAMBDA v, us :
    ThenSkip(Expect("LBRACE", SkipNewlines(us)), LAMBDA vs :
      Build(SwitchCases(<< >>, << >>, vs), LAMBDA parts : <<"switch", v, parts[1], parts[2]>>)))

AssertMessage(ts) == IF Type(ts) = "COMMA" THEN Parse("expr", Advance(ts)) ELSE Parsed(<<"none">>, ts)

AssertStatement(ts) ==
  ThenSkip(Expect("LPAREN", ts), LAMBDA us :
    Then(Parse("expr", us), LAMBDA c, vs :
      Then(AssertMessage(vs), LAMBDA message, ws :
        Build(Expect("RPAREN", ws), LAMBDA t : <<"assert", c, message>>))))

\* Only calls and fields are statements by themselves.
ExpressionStatement(ts) ==
  Then(Parse("expr", ts), LAMBDA e, us : IF e[1] \in {"call", "field"} THEN Parsed(<<"expr", e>>, us) ELSE Error(us))

Reassignment(ts) == Build(Value(Advance(ts)), LAMBDA e : <<"reassign", Literal(ts), e>>)

\* A name and a bracket: an assignment to an element, if what follows can be one.
ElementAssignment(ts) ==
  LET target == LValue(<<"var", Literal(ts)>>, Advance(ts)) IN
  IF target.ok /\ Type(target.rest) = "EQUALS" THEN IndexAssign(<<"var", Literal(ts)>>, Advance(ts))
  ELSE ExpressionStatement(ts)

\* A statement that begins with a name.
NamedStatement(ts) ==
  CASE IsWord(ts, "if")           -> If(Advance(ts))
    [] IsWord(ts, "let")          -> LetStatement(Advance(ts))
    [] IsWord(ts, "return")       -> Return(Advance(ts))
    [] IsWord(ts, "yield")        -> Build(Parse("expr", Advance(ts)), LAMBDA e : <<"yield", e>>)
    [] PeekType(ts) = "LBRACKET"  -> ElementAssignment(ts)
    [] PeekType(ts) = "EQUALS"    -> Reassignment(ts)
    [] OTHER                      -> ExpressionStatement(ts)

\* A statement that begins with a token of its own.
KeywordStatement(ts) ==
  CASE Type(ts) = "ASSERT"   -> AssertStatement(Advance(ts))
    [] Type(ts) = "WHILE"    -> While(Advance(ts))
    [] Type(ts) = "SWITCH"   -> Switch(Advance(ts))
    [] Type(ts) = "FOR"      -> For(Advance(ts))
    [] Type(ts) = "BREAK"    -> Parsed(<<"break">>, Advance(ts))
    [] Type(ts) = "CONTINUE" -> Parsed(<<"continue">>, Advance(ts))
    [] OTHER                 -> Error(ts)

Statement(ts) ==
  CASE Type(ts) = "QUESTION" -> Validation(Advance(ts))
    [] Type(ts) = "DOLLAR"   -> Assignment(Advance(ts))
    [] Type(ts) = "GREATER"  -> Return(Advance(ts))
    [] Type(ts) = "IDENT"    -> NamedStatement(ts)
    [] OTHER                 -> KeywordStatement(ts)

----------------------------------------------------------------------------
(* Types: <<"named", name>>, also of a type parameter, <<"generic", t, ts>>, <<"list", t>>,                *)
(* <<"optional", t>>, <<"union", ts>>, <<"function", ts, t>>.                                             *)

\* The two names of the string type are one.
NamedType(name) == <<"named", IF name = <<"string">> THEN <<"str">> ELSE name>>

\* A name, qualified by those behind dots if that is allowed here.
TypeName(name, dotted, ts) ==
  IF ~dotted \/ Type(ts) # "DOT" THEN Parsed(NamedType(name), ts)
  ELSE Then(Ident(Advance(ts)), LAMBDA part, us : TypeName(name \o <<".">> \o part, dotted, us))

TypeList(close, mode, ts) == Build(List("type", close, mode, << >>, ts), LAMBDA ps : [i \in DOMAIN ps |-> ps[i][1]])

FunctionType(ts) ==
  Then(TypeList("RPAREN", IF Type(ts) = "RPAREN" THEN "strict" ELSE "nonempty", ts), LAMBDA params, us :
    ThenSkip(Expect("ARROW", us), LAMBDA vs : Build(Parse("type", vs), LAMBDA result : <<"function", params, result[1]>>)))

ListType(ts) == Then(Parse("type", ts), LAMBDA t, us : Build(Expect("RBRACKET", us), LAMBDA x : <<"list", t[1]>>))

AngleArguments(t, ts) ==
  IF Type(ts) # "LESS" THEN Parsed(t, ts)
  ELSE Build(TypeList("GREATER", "nonempty", Advance(ts)), LAMBDA args : <<"generic", t, args>>)

\* T[] is a list of T, T[A] the generic type T of A.
BracketArguments(t, ts) ==
  CASE Type(ts) # "LBRACKET"       -> Parsed(t, ts)
    [] PeekType(ts) = "RBRACKET"   -> Parsed(<<"list", t>>, Advance(Advance(ts)))
    [] OTHER                       -> Build(TypeList("RBRACKET", "nonempty", Advance(ts)), LAMBDA args : <<"generic", t, args>>)

BaseType(dotted, ts) ==
  CASE Type(ts) = "LPAREN"   -> FunctionType(Advance(ts))
    [] Type(ts) = "LBRACKET" -> ListType(Advance(ts))
    [] Type(ts) = "IDENT"    -> Then(TypeName(Literal(ts), dotted, Advance(ts)), LAMBDA t, us :
                                  Then(AngleArguments(t, us), LAMBDA u, vs : BracketArguments(u, vs)))
    [] OTHER                 -> Error(ts)

Optional(t, ts) == IF Type(ts) = "QUESTION" THEN Parsed(<<"optional", t>>, Advance(ts)) ELSE Parsed(t, ts)

\* parseSingleType with dotted = FALSE
SingleType(dotted, ts) == Then(BaseType(dotted, ts), LAMBDA t, us : Optional(t, us))

\* The other types of a union have no qualified names.
Union(types, ts) ==
  IF Type(ts) # "PIPE" THEN Parsed(IF Len(types) = 1 THEN types[1] ELSE <<"union", types>>, ts)
  ELSE Then(SingleType(FALSE, Advance(ts)), LAMBDA t, us : Union(Append(types, t), us))

\* parseTypeWithContext: a type and whether an exclamation mark makes it required.
TypeExpr(ts) ==
  Then(SingleType(TRUE, ts), LAMBDA first, us :
    Then(Union(<<first>>, us), LAMBDA t, vs :
      IF Type(vs) = "BANG" THEN Parsed(<<t, TRUE>>, Advance(vs)) ELSE Parsed(<<t, FALSE>>, vs)))

----------------------------------------------------------------------------
(* Fields, methods and type definitions *)

NoExpr == <<"none">>
NoType == <<"untyped">>

\* validateDefaultType: a literal has to fit the type, other defaults are not looked at.
LiteralTypeName == [int |-> "int", string |-> "str", bool |-> "bool"]

DefaultFits(type, e) ==
  LET inner == IF type[1] = "optional" THEN type[2] ELSE type IN
  \/ e[1] # "lit"
  \/ inner \in {<<"named", <<"any">>>>, <<"named", <<"object">>>>}
  \/ inner = <<"named", <<"timestamp">>>> /\ e[2][1] \in {"int", "string"}
  \/ e[2][1] = "null" /\ type[1] = "optional"
  \/ e[2][1] # "null" /\ inner = <<"named", <<LiteralTypeName[e[2][1]]>>>>

Default(ts) == IF Type(ts) = "EQUALS" THEN Parse("expr", Advance(ts)) ELSE Parsed(NoExpr, ts)

\* Commas between the parameters of an annotation, and between the strings of an array in it, are skipped
\* wherever they stand.
AnnotationStrings(strings, ts) ==
  CASE Type(ts) = "COMMA"               -> AnnotationStrings(strings, Advance(ts))
    [] Type(ts) = "STRING"              -> AnnotationStrings(Append(strings, Literal(ts)), Advance(ts))
    [] Type(ts) \in {"RBRACKET", "EOF"} -> Parsed(<<"strings", strings>>, Advance(ts))
    [] OTHER                            -> Error(ts)

AnnotationParams(params, ts) ==
  CASE Type(ts) = "COMMA"                   -> AnnotationParams(params, Advance(ts))
    [] Type(ts) \in {"INTEGER", "STRING"}   -> AnnotationParams(Append(params, LiteralValue(Head(ts))), Advance(ts))
    [] Type(ts) = "LBRACKET"                -> Then(AnnotationStrings(<< >>, Advance(ts)), LAMBDA ss, us :
                                                 AnnotationParams(Append(params, ss), us))
    [] Type(ts) \in {"RPAREN", "EOF"}       -> Build(Expect("RPAREN", ts), LAMBDA t : params)
    [] OTHER                                -> Error(ts)

Annotation(ts) ==
  Then(Ident(ts), LAMBDA name, us :
    IF Type(us) = "LPAREN" THEN Build(AnnotationParams(<< >>, Advance(us)), LAMBDA params : <<name, params>>)
    ELSE Parsed(<<name, << >>>>, us))

Annotations(found, ts) ==
  IF Type(ts) # "AT" THEN Parsed(found, ts)
  ELSE Then(Annotation(Advance(ts)), LAMBDA a, us : Annotations(Append(found, a), us))

\* name: Type! @annotation(...) = default
Field(ts) ==
  Then(Ident(ts), LAMBDA name, us :
    ThenSkip(Expect("COLON", us), LAMBDA vs :
      Then(TypeExpr(vs), LAMBDA type, ws :
        Then(Annotations(<< >>, ws), LAMBDA as, xs :
          Then(Default(xs), LAMBDA e, ys :
            IF DefaultFits(type[1], e)
            THEN Parsed([name |-> name, type |-> type[1], required |-> type[2], annotations |-> as, default |-> e], ys)
            ELSE Error(ys))))))

Parameters(ts) == ThenSkip(Expect("LPAREN", ts), LAMBDA us : List("field", "RPAREN", "strict", << >>, us))

\* The type behind one of the tokens, if it is there.
ResultType(tokens, ts) ==
  IF Type(ts) \in tokens THEN Build(Parse("type", Advance(ts)), LAMBDA t : t[1]) ELSE Parsed(NoType, ts)

\* name(params) -> Type, of a trait.
Signature(ts) ==
  Then(Ident(ts), LAMBDA name, us :
    Then(Parameters(us), LAMBDA params, vs :
      Build(ResultType({"ARROW"}, vs), LAMBDA result : [name |-> name, params |-> params, result |-> result])))

\* Written again for providers.
ProviderMethod(ts) == Signature(ts)

Method(ts) ==
  Then(Signature(ts), LAMBDA sig, us :
    ThenSkip(Expect("LBRACE", us), LAMBDA vs : Build(Block(vs), LAMBDA body : <<"method", sig, body>>)))

Member(ts) == IF Type(ts) = "IDENT" /\ PeekType(ts) = "LPAREN" THEN Method(ts) ELSE Build(Field(ts), LAMBDA f : <<"field", f>>)

\* <T, U: Type, V extends Type>
TypeParameter(ts) ==
  Then(Ident(ts), LAMBDA name, us :
    IF Type(us) = "COLON" \/ IsWord(us, "extends")
    THEN Build(Parse("type", Advance(us)), LAMBDA t : <<name, t[1]>>)
    ELSE Parsed(<<name, NoType>>, us))

TypeParameters(ts) ==
  IF Type(ts) # "LESS" THEN Parsed(<< >>, ts) ELSE List("typeparameter", "GREATER", "nonempty", << >>, Advance(ts))

\* The traits a type implements, and the brace that opens its body.
Traits(ts) ==
  IF IsWord(ts, "impl") THEN List("ident", "LBRACE", "nonempty", << >>, Advance(ts))
  ELSE Build(Expect("LBRACE", ts), LAMBDA t : << >>)

\* parseTypeDef, behind the colon, and parseTypeDefWithoutColon.
TypeDef(ts) ==
  Then(Ident(ts), LAMBDA name, us :
    Then(TypeParameters(us), LAMBDA params, vs :
      Then(Traits(vs), LAMBDA traits, ws :
        Build(Many("member", << >>, ws), LAMBDA members : <<"typedef", name, params, traits, members>>))))

\* A name, its type parameters, and signatures in braces.
Contracted(kind, what, ts) ==
  Then(Ident(ts), LAMBDA name, us :
    Then(TypeParameters(us), LAMBDA params, vs :
      ThenSkip(Expect("LBRACE", vs), LAMBDA ws :
        Build(Many(what, << >>, ws), LAMBDA sigs : <<kind, name, params, sigs>>))))

Trait(ts)    == Contracted("trait", "signature", ts)
Provider(ts) == Contracted("provider", "providermethod", ts)

----------------------------------------------------------------------------
(* Routes *)

\* Keywords that may be a segment of a route's path.
SegmentTypes ==
  {"IDENT", "ASYNC", "AWAIT", "IMPORT", "FROM", "AS", "MODULE", "MATCH", "WHEN", "MACRO", "QUOTE", "TRUE", "FALSE",
   "NULL", "FOR", "WHILE", "SWITCH", "CASE", "DEFAULT", "IN", "TRY"}

\* Words joined by dashes, in the paths of routes only.
Dashes(segments, path, ts) ==
  CASE Type(ts) # "MINUS" \/ segments # SegmentTypes -> Parsed(path, ts)
    [] PeekType(ts) \in segments -> Dashes(segments, path \o Literal(ts) \o ts[2][2], Advance(Advance(ts)))
    [] OTHER -> Parsed(path \o Literal(ts), Advance(ts))

\* The words between the slashes; a colon makes one a parameter.  A path ends where no word follows.
Path(segments, path, ts) ==
  LET colon == Type(Advance(ts)) = "COLON" /\ segments # {"STATIC"}
      us == IF colon THEN Advance(Advance(ts)) ELSE Advance(ts)
      begun == path \o Literal(ts) \o IF colon THEN <<":">> ELSE << >>
      words == IF segments = {"STATIC"} THEN {"IDENT"} ELSE segments
  IN  CASE Type(ts) # "SLASH"       -> Parsed(path, ts)
        [] Type(us) \in words       -> Then(Dashes(segments, begun \o Literal(us), Advance(us)), LAMBDA p, vs : Path(segments, p, vs))
        [] OTHER                    -> Parsed(begun, us)

RoutePath(ts) ==
  CASE Type(ts) = "IDENT" -> Parsed(Literal(ts), Advance(ts))
    [] Type(ts) = "SLASH" -> Path(SegmentTypes, << >>, ts)
    [] OTHER              -> Error(ts)

\* Any case of the letters will do.
HTTPMethod ==
  [GET |-> "GET", get |-> "GET", POST |-> "POST", post |-> "POST", PUT |-> "PUT", put |-> "PUT",
   DELETE |-> "DELETE", delete |-> "DELETE", PATCH |-> "PATCH", patch |-> "PATCH"]

RouteKeyword == HTTPMethod @@ [SSE |-> "SSE", sse |-> "SSE"]

\* The method in brackets behind the path of a route without a method keyword.
BracketMethod(ts) ==
  IF Type(ts) # "LBRACKET" THEN Parsed("GET", ts)
  ELSE Then(Ident(Advance(ts)), LAMBDA name, us :
         IF Len(name) = 1 /\ name[1] \in DOMAIN HTTPMethod
         THEN Build(Expect("RBRACKET", us), LAMBDA t : HTTPMethod[name[1]])
         ELSE Error(us))

\* Tokens up to a closing parenthesis, whatever they are.
SkipToParen(ts) == SubSeq(ts, SelectInSeq(ts, LAMBDA t : t[1] \in {"RPAREN", "EOF"}), Len(ts))

\* + auth(type, ...)
AuthConfig(ts) ==
  ThenSkip(Expect("LPAREN", ts), LAMBDA us :
    Then(Ident(us), LAMBDA type, vs : Build(Expect("RPAREN", SkipToParen(vs)), LAMBDA t : type)))

\* + ratelimit(n/unit), or the same as a string, which is kept as it is.
RateLimit(ts) ==
  ThenSkip(Expect("LPAREN", ts), LAMBDA us :
    CASE Type(us) = "STRING"  -> Build(Expect("RPAREN", Advance(us)), LAMBDA t : Literal(us))
      [] Type(us) = "INTEGER" -> ThenSkip(Expect("SLASH", Advance(us)), LAMBDA vs :
                                   Then(Ident(vs), LAMBDA unit, ws :
                                     Build(Expect("RPAREN", ws), LAMBDA t : <<Literal(us), unit>>)))
      [] OTHER                -> Error(us))

\* Another middleware is read and forgotten.
OtherMiddleware(ts) ==
  IF Type(ts) # "LPAREN" THEN Parsed("ignored", ts)
  ELSE Parsed("ignored", IF Type(SkipToParen(ts)) = "EOF" THEN SkipToParen(ts) ELSE Advance(SkipToParen(ts)))

\* name: Type
Typed(ts) ==
  Then(Ident(ts), LAMBDA name, us :
    ThenSkip(Expect("COLON", us), LAMBDA vs : Build(Parse("type", vs), LAMBDA t : <<name, t[1], t[2]>>)))

\* ? name: Type = default
QueryParam(ts) ==
  Then(Typed(ts), LAMBDA param, us : Build(Default(us), LAMBDA e : param \o <<e>>))

Queries(ts) == PeekType(ts) = "IDENT" /\ Len(ts) > 2 /\ ts[3][1] = "COLON"

\* The body of a route, cron task, event handler, queue worker or resolver so far: its statements and what
\* the lines before, between and behind them declare.
NoParts == [auth |-> <<"none">>, rate |-> <<"none">>, timeout |-> 0, retries |-> 0, concurrency |-> 0,
            injections |-> << >>, input |-> NoType, queries |-> << >>, body |-> << >>]

Add(parts, part, x) == [parts EXCEPT ![part] = Append(@, x)]

RouteMiddleware(parts, ts) ==
  Then(Ident(ts), LAMBDA name, us :
    CASE name = <<"auth">>      -> Build(AuthConfig(us), LAMBDA a : [parts EXCEPT !.auth = a])
      [] name = <<"ratelimit">> -> Build(RateLimit(us), LAMBDA r : [parts EXCEPT !.rate = r])
      [] OTHER                  -> Build(OtherMiddleware(us), LAMBDA x : parts))

\* % name: Type
Injected(parts, ts) == Build(Typed(ts), LAMBDA i : Add(parts, "injections", <<i[1], i[2]>>))

BodyStatement(parts, ts) == Build(Parse("statement", ts), LAMBDA s : Add(parts, "body", s))

\* Types of tokens at which an error in a route's body is reported; at others the parser drops a token
\* and goes on.
Reported == {"QUESTION", "DOLLAR", "GREATER", "IDENT", "WHILE", "FOR", "SWITCH"}

Recovered(parts, r) == IF r.ok THEN r ELSE Parsed(parts, Advance(r.rest))

RoutePart(parts, ts) ==
  CASE Type(ts) = "PLUS"                    -> RouteMiddleware(parts, Advance(ts))
    [] Type(ts) = "PERCENT"                 -> Injected(parts, Advance(ts))
    [] Type(ts) = "LESS"                    -> Build(Typed(Advance(ts)), LAMBDA i : [parts EXCEPT !.input = i[2]])
    [] Type(ts) = "QUESTION" /\ Queries(ts) -> Build(QueryParam(Advance(ts)), LAMBDA q : Add(parts, "queries", q))
    [] Type(ts) \in Reported /\ ~(Type(ts) = "QUESTION" /\ Queries(ts)) -> BodyStatement(parts, ts)
    [] OTHER                                -> Recovered(parts, BodyStatement(parts, ts))

Route(method, ts) ==
  Then(RoutePath(ts), LAMBDA path, us :
    Then(IF method = "none" THEN BracketMethod(us) ELSE Parsed(method, us), LAMBDA verb, vs :
      Then(ResultType({"ARROW"}, vs), LAMBDA result, ws :
        ThenSkip(Expect("LBRACE", SkipNewlines(ws)), LAMBDA xs :
          Build(Parts("route", NoParts, xs), LAMBDA parts : <<"route", verb, path, result, parts>>)))))

----------------------------------------------------------------------------
(* WebSocket and static routes *)

SocketEvent(ts) ==
  Then(Ident(ts), LAMBDA name, us :
    IF name \in {<<"connect">>, <<"message">>, <<"disconnect">>, <<"error">>}
    THEN ThenSkip(Expect("LBRACE", us), LAMBDA vs : Build(Block(vs), LAMBDA body : <<name, body>>))
    ELSE Error(us))

\* on connect { ... } and so on; anything else has to be the closing brace.
SocketEvents(events, ts) ==
  LET us == SkipNewlines(ts) IN
  IF IsWord(us, "on") THEN Then(SocketEvent(Advance(us)), LAMBDA e, vs : SocketEvents(Append(events, e), vs))
  ELSE Build(Expect("RBRACE", us), LAMBDA t : events)

SocketRoute(ts) ==
  IF Type(ts) # "SLASH" THEN Error(ts)
  ELSE Then(Path({"IDENT"}, << >>, ts), LAMBDA path, us :
         ThenSkip(Expect("LBRACE", SkipNewlines(us)), LAMBDA vs :
           Build(SocketEvents(<< >>, vs), LAMBDA events : <<"socket", path, events>>)))

StaticRoute(ts) ==
  Then(Path({"STATIC"}, << >>, ts), LAMBDA path, us :
    IF Len(path) > 1 /\ Type(us) = "STRING" THEN Parsed(<<"static", path, Literal(us)>>, Advance(us)) ELSE Error(us))

----------------------------------------------------------------------------
(* Commands and functions *)

\* -name or --name is a flag.
Dash(ts) == IF Type(ts) = "MINUS" THEN Advance(ts) ELSE ts

ParamType(ts) == IF Type(ts) = "COLON" THEN Parse("type", Advance(ts)) ELSE Parsed(<<NoType, FALSE>>, ts)

FlagDefault(ts) == IF Type(ts) = "EQUALS" THEN BinaryExpr(TRUE, Advance(ts)) ELSE Parsed(NoExpr, ts)

CommandParam(flag, ts) ==
  Then(Ident(ts), LAMBDA name, us :
    Then(ParamType(us), LAMBDA type, vs :
      Build(FlagDefault(vs), LAMBDA e : [name |-> name, type |-> type[1], required |-> type[2], default |-> e, flag |-> flag])))

\* Parameters up to the arrow or the body; what is no name ends them too.
CommandParams(params, ts) ==
  LET us == SkipNewlines(ts)
      vs == Dash(Dash(us))
  IN  CASE Type(us) \in {"LBRACE", "ARROW", "EOF"} -> Parsed(params, us)
        [] Type(vs) # "IDENT"                      -> Parsed(params, vs)
        [] OTHER -> Then(CommandParam(us # vs, vs), LAMBDA p, ws : CommandParams(Append(params, p), ws))

Description(ts) == IF Type(ts) = "STRING" THEN Parsed(Literal(ts), Advance(ts)) ELSE Parsed(<< >>, ts)

\* validateFunctionParams: no required parameter behind an optional one.
Needed(param) == param.required /\ param.default = NoExpr

ParamsOrdered(params) == \A i, j \in DOMAIN params : i < j /\ Needed(params[j]) => Needed(params[i])

\* parseRegularFunction.  A function with type parameters goes on like one without them.
RegularFunction(name, types, ts) ==
  Then(Parameters(ts), LAMBDA params, us :
    IF ~ParamsOrdered(params) THEN Error(us)
    ELSE Then(ResultType({"COLON", "ARROW"}, us), LAMBDA result, vs :
           Build(Braced(vs), LAMBDA body : <<"function", name, types, params, result, body>>)))

GenericFunction(name, ts) == Then(TypeParameters(ts), LAMBDA types, us : RegularFunction(name, types, us))

\* parseCommand
Command(ts) ==
  Then(Ident(ts), LAMBDA name, us :
    CASE Type(us) = "LESS"   -> GenericFunction(name, us)
      [] Type(us) = "LPAREN" -> RegularFunction(name, << >>, us)
      [] OTHER -> Then(Description(us), LAMBDA text, vs :
                    Then(CommandParams(<< >>, vs), LAMBDA params, ws :
                      Then(ResultType({"ARROW"}, ws), LAMBDA result, xs :
                        Build(Braced(xs), LAMBDA body : <<"command", name, text, params, result, body>>)))))

----------------------------------------------------------------------------
(* Cron tasks, event handlers and queue workers *)

\* A closing parenthesis that is missing is not missed.
PassParen(ts) == IF Type(ts) = "RPAREN" THEN Advance(ts) ELSE ts

Setting == [cron |-> {"retries"}, event |-> {}, queue |-> {"concurrency", "retries", "timeout"}]

\* A setting without a number is passed over, and so is one of a queue that has another name.
Set(parts, name, n) == IF name \in Setting.queue THEN [parts EXCEPT ![name] = n] ELSE parts

Configure(kind, parts, name, ts) ==
  CASE Type(ts) # "LPAREN" \/ (kind = "cron" /\ name \notin Setting.cron) -> Parsed(parts, ts)
    [] PeekType(ts) = "INTEGER" -> Parsed(Set(parts, name, ts[2][2]), PassParen(Advance(Advance(ts))))
    [] OTHER                    -> Parsed(parts, PassParen(Advance(ts)))

Config(kind, parts, ts) ==
  IF Type(ts) = "IDENT" THEN Configure(kind, parts, Literal(ts)[1], Advance(ts)) ELSE Configure(kind, parts, "", ts)

\* Injections, settings, and the statements that begin with $, > or if.  (for and while are tested for as
\* names, but they are keywords, so that no task has a loop.)
TaskPart(kind, parts, ts) ==
  CASE Type(ts) = "PERCENT"                                  -> Injected(parts, Advance(ts))
    [] Type(ts) = "PLUS" /\ kind # "event"                   -> Config(kind, parts, Advance(ts))
    [] Type(ts) \in {"DOLLAR", "GREATER"} \/ IsWord(ts, "if") -> BodyStatement(parts, ts)
    [] OTHER                                                 -> Error(ts)

\* The body of a resolver or a gRPC handler: any statement, injections, and middleware, of which auth counts.
ResolverMiddleware(parts, ts) ==
  Then(Ident(ts), LAMBDA name, us :
    IF name = <<"auth">> THEN Build(AuthConfig(us), LAMBDA a : [parts EXCEPT !.auth = a])
    ELSE Build(OtherMiddleware(us), LAMBDA x : parts))

ResolverPart(parts, ts) ==
  CASE Type(ts) = "PLUS"    -> ResolverMiddleware(parts, Advance(ts))
    [] Type(ts) = "PERCENT" -> Injected(parts, Advance(ts))
    [] OTHER                -> BodyStatement(parts, ts)

Part(kind, parts, ts) ==
  CASE kind = "route"    -> RoutePart(parts, ts)
    [] kind = "resolver" -> ResolverPart(parts, ts)
    [] OTHER             -> TaskPart(kind, parts, ts)

Parts(kind, parts, ts) ==
  IF Type(SkipNewlines(ts)) \in {"RBRACE", "EOF"} THEN Build(Expect("RBRACE", SkipNewlines(ts)), LAMBDA t : parts)
  ELSE Then(Part(kind, parts, SkipNewlines(ts)), LAMBDA more, us : Parts(kind, more, us))

\* The body of a task may be missing.
TaskBody(kind, ts) ==
  IF Type(SkipNewlines(ts)) = "LBRACE" THEN Parts(kind, NoParts, Advance(SkipNewlines(ts)))
  ELSE Parsed(NoParts, SkipNewlines(ts))

Zone(ts) ==
  CASE ~IsWord(ts, "tz")         -> Parsed(<< >>, ts)
    [] PeekType(ts) = "STRING"   -> Parsed(ts[2][2], Advance(Advance(ts)))
    [] OTHER                     -> Parsed(<< >>, Advance(ts))

\* A name, then the time zone: tz alone is taken for a name.
CronName(ts) == IF Type(ts) = "IDENT" THEN Parsed(Literal(ts), Advance(ts)) ELSE Parsed(<< >>, ts)

Cron(ts) ==
  IF Type(ts) # "STRING" THEN Error(ts)
  ELSE Then(CronName(Advance(ts)), LAMBDA name, us :
         Then(Zone(us), LAMBDA zone, vs :
           Build(TaskBody("cron", vs), LAMBDA parts : <<"cron", Literal(ts), name, zone, parts>>)))

\* a.b.c; a dot without a name is part of it.
Dots(name, ts) ==
  CASE Type(ts) # "DOT"          -> Parsed(name, ts)
    [] PeekType(ts) = "IDENT"    -> Dots(name \o <<".">> \o ts[2][2], Advance(Advance(ts)))
    [] OTHER                     -> Dots(name \o <<".">>, Advance(ts))

TaskName(ts) ==
  CASE Type(ts) = "STRING" -> Parsed(Literal(ts), Advance(ts))
    [] Type(ts) = "IDENT"  -> Dots(Literal(ts), Advance(ts))
    [] OTHER               -> Error(ts)

Async(ts) == IF Type(ts) = "ASYNC" THEN Parsed(TRUE, Advance(ts)) ELSE Parsed(FALSE, ts)

EventHandler(ts) ==
  Then(TaskName(ts), LAMBDA name, us :
    Then(Async(us), LAMBDA async, vs :
      Build(TaskBody("event", vs), LAMBDA parts : <<"event", name, async, parts>>)))

QueueWorker(ts) ==
  Then(TaskName(ts), LAMBDA name, us : Build(TaskBody("queue", us), LAMBDA parts : <<"queue", name, parts>>))

----------------------------------------------------------------------------
(* Contracts, gRPC and GraphQL *)

ContractPath(path, ts) ==
  LET colon == PeekType(ts) = "COLON"
      us == IF colon THEN Advance(Advance(ts)) ELSE Advance(ts)
  IN  CASE Type(ts) = "SLASH" -> ContractPath(path \o Literal(ts) \o IF colon THEN <<":">> ELSE << >>, us)
        [] Type(ts) = "IDENT" -> ContractPath(path \o Literal(ts), Advance(ts))
        [] OTHER              -> Parsed(path, ts)

\* A union that goes on behind a required type.
MoreTypes(t, ts) ==
  IF Type(ts) # "PIPE" THEN Parsed(t, ts)
  ELSE Then(Parse("type", Advance(ts)), LAMBDA u, us :
         MoreTypes(<<"union", IF t[1] = "union" THEN Append(t[2], u[1]) ELSE <<t, u[1]>>>>, us))

Endpoint(ts) ==
  ThenSkip(Expect("AT", ts), LAMBDA us :
    Then(Ident(us), LAMBDA name, vs :
      IF Len(name) # 1 \/ name[1] \notin DOMAIN HTTPMethod THEN Error(vs)
      ELSE Then(ContractPath(<< >>, vs), LAMBDA path, ws :
             Then(ResultType({"ARROW"}, ws), LAMBDA t, xs :
               Build(IF t = NoType THEN Parsed(t, xs) ELSE MoreTypes(t, xs), LAMBDA u : <<HTTPMethod[name[1]], path, u>>)))))

Contract(ts) ==
  Then(Ident(ts), LAMBDA name, us :
    ThenSkip(Expect("LBRACE", us), LAMBDA vs :
      Build(Many("endpoint", << >>, vs), LAMBDA ends : <<"contract", name, ends>>)))

\* stream before a type
Streamed(ts) ==
  IF IsWord(ts, "stream") THEN Build(Parse("type", SkipNewlines(Advance(ts))), LAMBDA t : <<TRUE, t[1]>>)
  ELSE Build(Parse("type", ts), LAMBDA t : <<FALSE, t[1]>>)

GRPCMethod(ts) ==
  Then(Ident(ts), LAMBDA name, us :
    ThenSkip(Expect("LPAREN", us), LAMBDA vs :
      Then(Streamed(vs), LAMBDA in, ws :
        ThenSkip(Expect("RPAREN", ws), LAMBDA xs :
          ThenSkip(Expect("ARROW", xs), LAMBDA ys : Build(Streamed(ys), LAMBDA out : <<name, in, out>>))))))

StreamResult(ts) == IF Type(ts) = "ARROW" THEN Streamed(Advance(ts)) ELSE Parsed(<<FALSE, NoType>>, ts)

TypedParams(ts) == List("typed", "RPAREN", "inline", << >>, ts)

ResolverBody(ts) == ThenSkip(Expect("LBRACE", SkipNewlines(ts)), LAMBDA us : Parts("resolver", NoParts, us))

GRPCHandler(name, ts) ==
  Then(TypedParams(ts), LAMBDA params, us :
    Then(StreamResult(us), LAMBDA result, vs :
      Build(ResolverBody(vs), LAMBDA parts : <<"rpc", name, params, result, parts>>)))

GRPC(ts) ==
  Then(Ident(ts), LAMBDA name, us :
    IF Type(SkipNewlines(us)) = "LPAREN" THEN GRPCHandler(name, Advance(SkipNewlines(us)))
    ELSE ThenSkip(Expect("LBRACE", SkipNewlines(us)), LAMBDA vs :
           Build(Many("grpcmethod", << >>, vs), LAMBDA ms : <<"service", name, ms>>)))

GraphQLResolver(operation, ts) ==
  Then(Ident(ts), LAMBDA name, us :
    Then(IF Type(us) = "LPAREN" THEN TypedParams(Advance(us)) ELSE Parsed(<< >>, us), LAMBDA params, vs :
      Then(ResultType({"ARROW"}, vs), LAMBDA result, ws :
        Build(ResolverBody(ws), LAMBDA parts : <<operation, name, params, result, parts>>))))

----------------------------------------------------------------------------
(* Imports, constants, macros, tests; the items of a file *)

String(ts) == IF Type(ts) = "STRING" THEN Parsed(Literal(ts), Advance(ts)) ELSE Error(ts)

Alias(ts) == IF Type(ts) = "AS" THEN Ident(Advance(ts)) ELSE Parsed(<< >>, ts)

Import(ts) ==
  Then(String(ts), LAMBDA path, us : Build(Alias(us), LAMBDA alias : <<"import", path, alias>>))

ImportName(ts) == Then(Ident(ts), LAMBDA name, us : Build(Alias(us), LAMBDA alias : <<name, alias>>))

FromImport(ts) ==
  Then(String(ts), LAMBDA path, us :
    ThenSkip(Expect("IMPORT", us), LAMBDA vs :
      ThenSkip(Expect("LBRACE", vs), LAMBDA ws :
        Build(List("importname", "RBRACE", "lines", << >>, ws), LAMBDA names : <<"from", path, names>>))))

ModuleDecl(ts) == Build(String(ts), LAMBDA name : <<"module", name>>)

ConstDecl(ts) ==
  Then(Ident(ts), LAMBDA name, us :
    Then(ResultType({"COLON"}, us), LAMBDA type, vs : Build(Value(vs), LAMBDA e : <<"const", name, type, e>>)))

MacroInvocation(ts) ==
  Then(Ident(ts), LAMBDA name, us :
    ThenSkip(Expect("BANG", us), LAMBDA vs :
      ThenSkip(Expect("LPAREN", vs), LAMBDA ws : Build(Arguments(ws), LAMBDA args : <<"invoke", name, args>>))))

\* An item behind @ that is no route is a Go panic here.
MacroRoute(ts) == Then(Parse("at", ts), LAMBDA item, us : IF item[1] = "route" THEN Parsed(item, us) ELSE Error(us))

MacroNode(ts) ==
  CASE Type(ts) = "AT"    -> MacroRoute(Advance(ts))
    [] Type(ts) = "COLON" -> Parse("typedef", Advance(ts))
    [] Type(ts) = "IDENT" /\ PeekType(ts) = "BANG" /\ Literal(ts) \notin {<<"if">>, <<"let">>, <<"return">>} -> MacroInvocation(ts)
    [] Type(ts) \in {"DOLLAR", "GREATER", "QUESTION", "IDENT", "WHILE", "FOR", "SWITCH"} -> Parse("statement", ts)
    [] OTHER              -> Error(ts)

MacroDef(ts) ==
  ThenSkip(Expect("BANG", ts), LAMBDA us :
    Then(Ident(us), LAMBDA name, vs :
      ThenSkip(Expect("LPAREN", vs), LAMBDA ws :
        Then(List("ident", "RPAREN", "inline", << >>, ws), LAMBDA params, xs :
          ThenSkip(Expect("LBRACE", SkipNewlines(xs)), LAMBDA ys :
            Build(Many("macronode", << >>, ys), LAMBDA nodes : <<"macro", name, params, nodes>>))))))

TestBlock(ts) == Then(String(ts), LAMBDA name, us : Build(Braced(us), LAMBDA body : <<"test", name, body>>))

\* The keyword behind @.
AtItem(keyword, ts) ==
  CASE keyword \in {"ws", "websocket"}  -> SocketRoute(ts)
    [] keyword \in {"command", "cmd"}   -> Parse("command", ts)
    [] keyword \in {"cron", "schedule"} -> Parse("cron", ts)
    [] keyword \in {"event", "on"}      -> Parse("event", ts)
    [] keyword \in {"queue", "worker"}  -> Parse("queue", ts)
    [] keyword = "static"               -> StaticRoute(ts)
    [] keyword \in {"rpc", "grpc"}      -> GRPC(ts)
    [] keyword \in {"query", "mutation", "subscription"} -> GraphQLResolver(keyword, ts)
    [] keyword \in DOMAIN RouteKeyword  -> Route(RouteKeyword[keyword], ts)
    [] keyword = "route"                -> Route("none", ts)
    [] OTHER                            -> Error(ts)

At(ts) == Then(Ident(ts), LAMBDA keyword, us : IF Len(keyword) = 1 THEN AtItem(keyword[1], us) ELSE Error(us))

NamedItem(ts) ==
  CASE IsWord(ts, "test")        -> TestBlock(Advance(ts))
    [] IsWord(ts, "type")        -> TypeDef(Advance(ts))
    [] IsWord(ts, "contract")    -> Contract(Advance(ts))
    [] IsWord(ts, "trait")       -> Trait(Advance(ts))
    [] IsWord(ts, "provider")    -> Provider(Advance(ts))
    [] OTHER                     -> MacroInvocation(ts)

Item(ts) ==
  CASE Type(ts) = "IMPORT"    -> Import(Advance(ts))
    [] Type(ts) = "FROM"      -> FromImport(Advance(ts))
    [] Type(ts) = "MODULE"    -> ModuleDecl(Advance(ts))
    [] Type(ts) = "CONST"     -> ConstDecl(Advance(ts))
    [] Type(ts) = "COLON"     -> Parse("typedef", Advance(ts))
    [] Type(ts) = "AT"        -> Parse("at", Advance(ts))
    [] Type(ts) = "BANG"      -> Parse("command", Advance(ts))
    [] Type(ts) = "STAR"      -> Parse("cron", Advance(ts))
    [] Type(ts) = "TILDE"     -> Parse("event", Advance(ts))
    [] Type(ts) = "AMPERSAND" -> Parse("queue", Advance(ts))
    [] Type(ts) = "MACRO"     -> MacroDef(Advance(ts))
    [] Type(ts) = "IDENT"     -> NamedItem(ts)
    [] OTHER                  -> Error(ts)

Items(items, ts) ==
  LET us == SkipNewlines(ts) IN
  IF Type(us) = "EOF" THEN Parsed(items, us)
  ELSE Then(Item(us), LAMBDA item, vs : Items(Append(items, item), vs))

Parse(what, ts) ==
  CASE what = "expr"         -> PipeExpr(ts)
    [] what = "unary"        -> Unary(ts)
    [] what = "primary"      -> Primary(ts)
    [] what = "objectfield"  -> ObjectField(ts)
    [] what = "match"        -> Match(ts)
    [] what = "pattern"      -> Pattern(ts)
    [] what = "patternfield" -> ObjectPatternField(ts)
    [] what = "element"      -> ArrayElement(ts)
    [] what = "statement"    -> Statement(ts)
    [] what = "if"           -> If(ts)
    [] what = "type"         -> TypeExpr(ts)
    [] what = "field"        -> Field(ts)
    [] what = "member"       -> Member(ts)
    [] what = "signature"    -> Signature(ts)
    [] what = "providermethod" -> ProviderMethod(ts)
    [] what = "typeparameter" -> TypeParameter(ts)
    [] what = "ident"        -> Ident(ts)
    [] what = "typed"        -> Typed(ts)
    [] what = "endpoint"     -> Endpoint(ts)
    [] what = "grpcmethod"   -> GRPCMethod(ts)
    [] what = "importname"   -> ImportName(ts)
    [] what = "macronode"    -> MacroNode(ts)
    [] what = "at"           -> At(ts)
    [] what = "command"      -> Command(ts)
    [] what = "cron"         -> Cron(ts)
    [] what = "event"        -> EventHandler(ts)
    [] what = "queue"        -> QueueWorker(ts)
    [] what = "typedef"      -> TypeDef(ts)
    [] what = "items"        -> Items(<< >>, ts)

\* The syntax tree of a text; a lexer or parser error is none.
NoTree == <<"error">>

ModuleOf(r) == IF r.ok THEN <<"module", r.node>> ELSE NoTree

Tree(lexer, text) ==
  LET ts == Tokenize(lexer, text) IN IF ts = << >> THEN NoTree ELSE ModuleOf(Parse("items", ts))
=============================================================================
