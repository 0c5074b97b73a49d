----------------------------- MODULE SourceText -----------------------------
(***************************************************************************)
(* Glyph source text and its two lexers (pkg/parser/lexer.go,              *)
(* expanded_lexer.go), from words and symbols on: how characters make a    *)
(* word is left out.                                                       *)
(*                                                                         *)
(* A text is a sequence of lexemes: <<"word", w>>, <<"sym", s>>,           *)
(* <<"int", n>>, <<"str", chars>>, <<"path", pieces>> (slashes, colons,    *)
(* dashes and words without a space between them), <<"flag", w>> (--w),    *)
(* <<"comment", braces>> (its braces, all other text left out) and         *)
(* <<"nl", "">>.  A character of a    *)
(* string is a letter or an escape sequence: "\\n", which both lexers      *)
(* know, "\\u0041", which only the compact one knows (as it does \x, \0,   *)
(* \a, \b, \f, \v), and "\\q" for an unknown one.  A token is a pair of    *)
(* type and literal; no tokens at all stand for an error of the lexer.     *)
(***************************************************************************)
EXTENDS Naturals, SequencesExt

Newline == <<"nl", "">>

\* The keywords of readIdentifier that both lexers know.
StandardKeyword ==
  [true |-> "TRUE", false |-> "FALSE", null |-> "NULL", while |-> "WHILE", switch |-> "SWITCH", case |-> "CASE",
   default |-> "DEFAULT", for |-> "FOR", in |-> "IN", macro |-> "MACRO", quote |-> "QUOTE", match |-> "MATCH",
   when |-> "WHEN", async |-> "ASYNC", await |-> "AWAIT", import |-> "IMPORT", from |-> "FROM", as |-> "AS",
   module |-> "MODULE", const |-> "CONST", assert |-> "ASSERT", try |-> "TRY"]

CompactKeyword == StandardKeyword @@ [break |-> "BREAK", continue |-> "CONTINUE"]

\* Words that stand for symbols in the expanded syntax.
SymbolKeyword ==
  [route |-> "AT", type |-> "COLON", let |-> "DOLLAR", return |-> "GREATER", middleware |-> "PLUS",
   use |-> "PERCENT", expects |-> "LESS", validate |-> "QUESTION", handle |-> "TILDE", cron |-> "STAR",
   command |-> "BANG", queue |-> "AMPERSAND", func |-> "EQUALS"]

ExpandedKeyword == SymbolKeyword @@ StandardKeyword

\* nextToken; the expanded lexer takes the four symbols that only start items and statements as illegal.
CommonSymbol ==
  ":" :> "COLON" @@ "+" :> "PLUS" @@ "-" :> "MINUS" @@ "*" :> "STAR" @@ "/" :> "SLASH" @@ "(" :> "LPAREN"
    @@ ")" :> "RPAREN" @@ "{" :> "LBRACE" @@ "}" :> "RBRACE" @@ "[" :> "LBRACKET" @@ "]" :> "RBRACKET"
    @@ "," :> "COMMA" @@ "." :> "DOT" @@ "..." :> "DOTDOTDOT" @@ ">" :> "GREATER" @@ ">=" :> "GREATER_EQ"
    @@ "<" :> "LESS" @@ "<=" :> "LESS_EQ" @@ "!" :> "BANG" @@ "!=" :> "NOT_EQ" @@ "?" :> "QUESTION"
    @@ "&" :> "AMPERSAND" @@ "&&" :> "AND" @@ "|" :> "PIPE" @@ "||" :> "OR" @@ "|>" :> "PIPE_OP"
    @@ "=" :> "EQUALS" @@ "==" :> "EQ_EQ" @@ "=>" :> "FATARROW" @@ "->" :> "ARROW"

CompactSymbol == CommonSymbol @@ "@" :> "AT" @@ "$" :> "DOLLAR" @@ "%" :> "PERCENT" @@ "~" :> "TILDE"

CompactLexer == [name |-> "compact", keyword |-> CompactKeyword, symbol |-> CompactSymbol]
ExpandedLexer == [name |-> "expanded", keyword |-> ExpandedKeyword, symbol |-> CommonSymbol]

----------------------------------------------------------------------------
WordToken(lexer, w) == <<IF w \in DOMAIN lexer.keyword THEN lexer.keyword[w] ELSE "IDENT", <<w>>>>

\* The tokens after which a slash divides.
ValueTypes == {"IDENT", "INTEGER", "FLOAT", "STRING", "RPAREN", "RBRACKET", "TRUE", "FALSE"}

\* A slash and a letter start a path, unless a value comes before that is not the word route.
NoToken == <<"none", << >>>>

StartsPath(before) ==
  \/ before[1] \notin ValueTypes
  \/ before[1] \in {"IDENT", "STRING"} /\ before[2] = <<"route">>

\* readString: what a character of a literal stands for.
Unescaped(lexer, c) ==
  CASE c = "\\n"                                  -> <<"newline">>
    [] c = "\\u0041" /\ lexer.name = "compact"    -> <<"A">>
    [] c = "\\u0041" /\ lexer.name = "expanded"   -> <<"u0041">>
    [] c = "\\q" /\ lexer.name = "expanded"       -> <<"q">>
    [] OTHER                                      -> <<c>>

LegalString(lexer, chars) == lexer.name = "expanded" \/ \A i \in DOMAIN chars : chars[i] # "\\q"

\* The expanded lexer takes two minus signs and a word as one identifier.
FlagTokens(lexer, w) ==
  IF lexer.name = "expanded" THEN <<<<WordToken(lexer, w)[1], <<"--", w>>>>>>
  ELSE <<<<"MINUS", <<"-">>>>, <<"MINUS", <<"-">>>>, WordToken(lexer, w)>>

Symbols == {"/", ":", "-"}

PieceToken(lexer, c) == IF c \in Symbols THEN <<lexer.symbol[c], <<c>>>> ELSE WordToken(lexer, c)

\* The pieces of a path.  Where a path may start, a slash and all that follow are one identifier; elsewhere
\* the slash divides and the lexer goes on with what is behind it.
RECURSIVE PathTokens(_, _, _)

PathTokens(lexer, before, p) ==
  CASE p = << >> -> << >>
    [] p # << >> /\ p[1] = "/" /\ Len(p) > 1 /\ p[2] \notin Symbols /\ StartsPath(before) -> <<<<"IDENT", p>>>>
    [] OTHER -> <<PieceToken(lexer, p[1])>> \o PathTokens(lexer, PieceToken(lexer, p[1]), Tail(p))

Legal(lexer, l) ==
  /\ l[1] = "sym" => l[2] \in DOMAIN lexer.symbol
  /\ l[1] = "str" => LegalString(lexer, l[2])

\* The tokens of a lexeme behind a token; behind a comment there is a newline.
LexemeTokens(lexer, before, l) ==
  CASE l[1] = "word"    -> <<WordToken(lexer, l[2])>>
    [] l[1] = "sym"     -> <<<<lexer.symbol[l[2]], <<l[2]>>>>>>
    [] l[1] = "int"     -> <<<<"INTEGER", l[2]>>>>
    [] l[1] = "str"     -> <<<<"STRING", FlattenSeq([i \in DOMAIN l[2] |-> Unescaped(lexer, l[2][i])])>>>>
    [] l[1] = "path"    -> PathTokens(lexer, before, l[2])
    [] l[1] = "flag"    -> FlagTokens(lexer, l[2])
    [] l[1] = "nl"      -> <<<<"NEWLINE", << >>>>>>
    [] l[1] = "comment" -> << >>

\* No path follows a path.
Before(lexer, text, i) ==
  IF i = 1 \/ text[i - 1][1] = "comment" THEN NoToken ELSE Last(LexemeTokens(lexer, NoToken, text[i - 1]))

\* Tokenize
Tokenize(lexer, text) ==
  IF \E i \in DOMAIN text : ~Legal(lexer, text[i]) THEN << >>
  ELSE Append(FlattenSeq([i \in DOMAIN text |-> LexemeTokens(lexer, Before(lexer, text, i), text[i])]), <<"EOF", << >>>>)
=============================================================================
