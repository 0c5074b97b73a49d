----------------------------- MODULE SourceForms -----------------------------
(***************************************************************************)
(* The two forms of a source file and the commands that turn one into the  *)
(* other: glyph expand writes the .glyphx beside a .glyph, glyph compact   *)
(* the .glyph beside a .glyphx (cmd/glyph/commands_codegen.go,             *)
(* pkg/formatter/transformer.go).  The transformer never parses: it sees   *)
(* symbols, words and what comes before them on their line.  The formatter *)
(* (module Formatter) is the other way: it writes the tree of the one file *)
(* as the text of the other.  No command calls it.                         *)
(*                                                                         *)
(* A word that begins with an underscore, of which the transformer sees    *)
(* what is behind the underscore, is left out.                             *)
(***************************************************************************)
EXTENDS Formatter

CONSTANTS
  CompactPrograms,    \* pairs of a compact text and the tree its author means
  ExpandedPrograms    \* the same, of expanded texts

VARIABLES
  glyph,    \* the .glyph file
  glyphx,   \* the .glyphx file
  meant     \* the tree either file is to stand for

vars == <<glyph, glyphx, meant>>

----------------------------------------------------------------------------
(* pkg/formatter/transformer.go *)

symbolToKeyword ==
  "@" :> "route" @@ ":" :> "type" @@ "$" :> "let" @@ ">" :> "return" @@ "+" :> "middleware" @@ "%" :> "use"
    @@ "<" :> "expects" @@ "?" :> "validate" @@ "~" :> "handle" @@ "*" :> "cron" @@ "!" :> "command" @@ "&" :> "queue"
    @@ "=" :> "func"

keywordToSymbol == [w \in Range(symbolToKeyword) |-> CHOOSE s \in DOMAIN symbolToKeyword : symbolToKeyword[s] = w]

FirstOnLine(text, i) == i = 1 \/ text[i - 1] = Newline

\* The transformer reads characters: of a symbol of two it replaces the first.
FirstCharacter ==
  ">=" :> <<">", "=">> @@ "<=" :> <<"<", "=">> @@ "!=" :> <<"!", "=">> @@ "&&" :> <<"&", "&">> @@ "==" :> <<"=", "=">>
    @@ "=>" :> <<"=", ">">> @@ [s \in DOMAIN symbolToKeyword |-> <<s>>]

\* Mutant: every symbol is replaced.
shouldTransformAnySymbol(text, i) == TRUE

\* A symbol is replaced where it begins a line.
shouldTransformSymbol(text, i) == FirstOnLine(text, i)

ExpandLexeme(text, i) ==
  LET l == text[i] IN
  IF l[1] = "sym" /\ l[2] \in DOMAIN FirstCharacter /\ shouldTransformSymbol(text, i)
  THEN <<<<"word", symbolToKeyword[FirstCharacter[l[2]][1]]>>>> \o
         [j \in 1..(Len(FirstCharacter[l[2]]) - 1) |-> <<"sym", FirstCharacter[l[2]][j + 1]>>]
  ELSE <<l>>

ExpandSource(text) == FlattenSeq([i \in DOMAIN text |-> ExpandLexeme(text, i)])

\* isInsideBlock: braces are counted in comments too, and an apostrophe there hides all up to the next one.
\* A comment's content is a sequence of braces and apostrophes.
CountBrace(state, c) ==
  CASE c = "'"                    -> [state EXCEPT !.quoted = ~@]
    [] c = "{" /\ ~state.quoted   -> [state EXCEPT !.depth = @ + 1]
    [] c = "}" /\ ~state.quoted   -> [state EXCEPT !.depth = @ - 1]
    [] OTHER                      -> state

Braces(l) == CASE l[1] = "sym" -> <<l[2]>> [] l[1] = "comment" -> l[2] [] OTHER -> << >>

isInsideBlock(text, i) ==
  FoldLeft(CountBrace, [depth |-> 0, quoted |-> FALSE],
           FlattenSeq([j \in 1..(i - 1) |-> Braces(text[j])])).depth > 0

InBlockKeywords == {"let", "return", "middleware", "use", "expects", "validate"}

shouldTransformKeyword(text, i, w) ==
  w \in DOMAIN keywordToSymbol /\ (FirstOnLine(text, i) \/ (w \in InBlockKeywords /\ isInsideBlock(text, i)))

\* The words of a path are words too, but never the first on their line.
CompactWord(text, i, w) ==
  IF w \in InBlockKeywords /\ isInsideBlock(text, i) THEN keywordToSymbol[w] ELSE w

CompactLexeme(text, i) ==
  LET l == text[i] IN
  CASE l[1] = "word" /\ shouldTransformKeyword(text, i, l[2]) -> <<"sym", keywordToSymbol[l[2]]>>
    [] l[1] = "path" -> <<"path", [j \in DOMAIN l[2] |-> CompactWord(text, i, l[2][j])]>>
    [] OTHER         -> l

CompactSource(text) == [i \in DOMAIN text |-> CompactLexeme(text, i)]

----------------------------------------------------------------------------
(* What the formatter writes so that the parser can read it: not all of a tree is written, and nothing of  *)
(* it in parentheses.                                                                                     *)

Level(op) == BinaryOp[CompactSymbol[OpString[op]]][2]

\* How tight an expression holds together without parentheses.
Tightness(e) == CASE e[1] = "bin" -> Level(e[2]) [] e[1] = "await" -> 0 [] OTHER -> 30

RECURSIVE ReadableType(_, _)

\* Only one pair of brackets is read behind a type, and qualified names only at the beginning of a union.
ReadableType(dotted, t) ==
  CASE t[1] = "named"    -> dotted \/ Len(t[2]) = 1
    [] t[1] = "list"     -> t[2][1] \in {"named", "generic"} /\ ReadableType(dotted, t[2])
    [] t[1] = "optional" -> ReadableType(dotted, t[2])
    [] t[1] = "generic"  -> ReadableType(dotted, t[2]) /\ \A i \in DOMAIN t[3] : ReadableType(TRUE, t[3][i])
    [] t[1] = "function" -> \A u \in Range(t[2]) \cup {t[3]} : ReadableType(TRUE, u)
    [] t[1] = "union"    -> \A i \in DOMAIN t[2] : ReadableType(i = 1, t[2][i])
    [] t = NoType        -> TRUE

RECURSIVE Readable(_)

AllReadable(xs) == \A i \in DOMAIN xs : Readable(xs[i])

\* Of a case of a match: its guard, if there is one, and its value.
CaseParts(c) == IF c[2] = NoExpr THEN <<c[3]>> ELSE <<c[2], c[3]>>

\* An expression or a statement.  The remainder, and two minus signs before a name, have no expanded form.
Readable(x) ==
  CASE x[1] \in {"lit", "var"} -> TRUE
    [] x[1] = "bin" -> /\ x[2] # "mod"
                       /\ Tightness(x[3]) >= Level(x[2]) /\ Tightness(x[4]) > Level(x[2])
                       /\ AllReadable(<<x[3], x[4]>>)
    [] x[1] = "un"  -> formatExpr("compact", x)[1][1] # "flag" /\ Tightness(x[3]) = 30 /\ Readable(x[3])
    [] x[1] \in {"field", "await", "return", "expr"} -> Readable(x[2])
    [] x[1] = "index"  -> AllReadable(<<x[2], x[3]>>)
    [] x[1] \in {"call", "validate"} -> AllReadable(x[3])
    [] x[1] = "object" -> \A i \in DOMAIN x[2] : Readable(x[2][i][2])
    [] x[1] \in {"array", "async"} -> AllReadable(x[2])
    [] x[1] = "match"  -> Readable(x[2]) /\ \A i \in DOMAIN x[3] : AllReadable(CaseParts(x[3][i]))
    [] x[1] \in {"assign", "reassign"} -> Readable(x[3])
    [] x[1] = "if"     -> AllReadable(<<x[2]>> \o x[3] \o x[4])
    [] x[1] = "while"  -> AllReadable(<<x[2]>> \o x[3])
    [] x[1] = "for"    -> AllReadable(<<x[4]>> \o x[5])
    [] x[1] = "switch" -> /\ AllReadable(<<x[2]>> \o x[4])
                          /\ \A i \in DOMAIN x[3] : AllReadable(<<x[3][i][1]>> \o x[3][i][2])
    [] OTHER -> FALSE

ReadableParts(parts) ==
  /\ parts.queries = << >> /\ parts.input = NoType
  /\ \A i \in DOMAIN parts.injections : ReadableType(TRUE, parts.injections[i][2])
  /\ AllReadable(parts.body)

ReadableMember(m) ==
  m[1] = "field" /\ m[2].annotations = << >> /\ m[2].default = NoExpr /\ ReadableType(TRUE, m[2].type)

ReadableParam(p) ==
  /\ ~p.flag
  /\ ReadableType(TRUE, p.type)
  /\ p.default = NoExpr \/ Readable(p.default)

\* Functions and WebSocket routes are written as no item begins, the other items not at all.
ReadableItem(item) ==
  CASE item[1] = "typedef" -> /\ item[4] = << >>
                              /\ \A i \in DOMAIN item[3] : ReadableType(TRUE, item[3][i][2])
                              /\ \A i \in DOMAIN item[5] : ReadableMember(item[5][i])
    [] item[1] = "route"   -> ReadableType(TRUE, item[4]) /\ ReadableParts(item[5])
    [] item[1] = "command" -> /\ item[5] = NoType /\ AllReadable(item[6])
                              /\ \A i \in DOMAIN item[4] : ReadableParam(item[4][i])
    [] item[1] = "cron"    -> item[4] = << >> /\ item[5].retries = 0 /\ ReadableParts(item[5])
    [] item[1] = "event"   -> ReadableParts(item[4])
    [] item[1] = "queue"   -> ReadableParts(item[3])
    [] item[1] = "macro"   -> item[4] = << >>
    [] OTHER               -> item[1] \in {"import", "from", "module"}

ReadableTree(tree) == tree # NoTree /\ \A i \in DOMAIN tree[2] : ReadableItem(tree[2][i])

----------------------------------------------------------------------------
NoFile == << >>

Init ==
  /\ \E p \in CompactPrograms : glyph = p[1] /\ meant = [glyph |-> p[2], glyphx |-> NoTree]
  /\ glyphx = NoFile

\* glyph expand: read the one file, write the other.
expandFile ==
  /\ glyphx' = ExpandSource(glyph)
  /\ meant' = [meant EXCEPT !.glyphx = meant.glyph]
  /\ UNCHANGED glyph

\* glyph compact
compactFile ==
  /\ glyphx # NoFile
  /\ glyph' = CompactSource(glyphx)
  /\ meant' = [meant EXCEPT !.glyph = meant.glyphx]
  /\ UNCHANGED glyphx

\* The author of the expanded file writes another program.
EditExpanded ==
  /\ \E p \in ExpandedPrograms : glyphx' = p[1] /\ meant' = [meant EXCEPT !.glyphx = p[2]]
  /\ UNCHANGED glyph

\* The formatter writes the tree of the one file as the other.
FormatExpanded ==
  /\ \E tree \in {Tree(CompactLexer, glyph)} : ReadableTree(tree) /\ glyphx' = Format("expanded", tree)
  /\ meant' = [meant EXCEPT !.glyphx = meant.glyph]
  /\ UNCHANGED glyph

FormatCompact ==
  /\ glyphx # NoFile
  /\ \E tree \in {Tree(ExpandedLexer, glyphx)} : ReadableTree(tree) /\ glyph' = Format("compact", tree)
  /\ meant' = [meant EXCEPT !.glyph = meant.glyphx]
  /\ UNCHANGED glyphx

Next == expandFile \/ compactFile \/ EditExpanded \/ FormatExpanded \/ FormatCompact

Spec == Init /\ [][Next]_vars

----------------------------------------------------------------------------
(* Properties *)

\* Whatever files are converted into each other, and back, after edits of either: what the parser makes of
\* a file is the tree that the author of its last edit meant.
FilesMeanTheSame ==
  /\ Tree(CompactLexer, glyph) = meant.glyph
  /\ glyphx # NoFile => Tree(ExpandedLexer, glyphx) = meant.glyphx
=============================================================================
