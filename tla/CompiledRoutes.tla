--------------------------- MODULE CompiledRoutes ---------------------------
(***************************************************************************)
(* Programs of one route as setupRoutes (cmd/glyph/routes.go) prepares     *)
(* them.  A route that compiles reaches the VM with its bytecode; one with *)
(* a semantic error stops the program, and any other that does not compile *)
(* makes the program fall back to the interpreter.                         *)
(*                                                                         *)
(* A route is a record of the body that is written, the one that reaches   *)
(* the compiler (with its kind: a route, a module to be expanded, or       *)
(* another handler), the functions of the program, those of them that      *)
(* other modules gave it, the variables of one request, and the tier of    *)
(* its code: "baseline"; "optimizer" where the optimizer changed the tree,     *)
(* which may give a value where the written one fails; and "ssa" where the *)
(* JIT replaced the code of a route that is executed often (compileWithTier,*)
(* jit.go).  Functions are compiled with SSA from the start.  justified    *)
(* says whether what the optimizer takes for granted of the text is so.    *)
(***************************************************************************)
EXTENDS Compiler, Optimizer, GoLibrary

CONSTANTS MaxWhileIterations, MaxMacroExpansionDepth,
          MacroItems  \* the items that define the macros of a program

ASSUME WhileAssumption == MaxWhileIterations \in Nat \ {0}

S == INSTANCE SSA

X == INSTANCE MacroExpander

I == INSTANCE Interpreter WITH TypeDefs <- NoFields, TraitDefs <- NoFields, ConstantNames <- {}, MacroDefs <- X!RegisterMacros(MacroItems)

\* CompileRoute on the tree of the parser.
Parsed(body, params) ==
  [kind |-> "route", written |-> body, prepared |-> body, functions |-> NoFields, imported |-> NoFields,
   params |-> params, ws |-> "stats", tier |-> "baseline", justified |-> TRUE]

\* A route that comes out of a module once its macros are expanded; written is what stands for it.
FromModule(items, written, params) == [Parsed(written, params) EXCEPT !.kind = "module", !.prepared = items \o MacroItems]

\* A body of another kind of handler.
Handler(kind, body, params) == [Parsed(body, params) EXCEPT !.kind = kind]

\* An event of a WebSocket route.  The interpreter has no ws: what is written for it collects the calls.
Event(body, written, params) ==
  [Parsed(written, params) EXCEPT !.kind = "websocket", !.prepared = body, !.ws = "connection"]

\* A route that asks for statistics, and one with the answers.
Asking(body, written, params) == [Parsed(written, params) EXCEPT !.prepared = body]

\* A route that may call functions of other modules.
Importing(body, functions, params) ==
  LET fs == [n \in DOMAIN functions |-> <<"function", functions[n]>>]
  IN  [Parsed(body, params) EXCEPT !.functions = fs, !.imported = functions]

\* The route once it is executed often.
Hot(r) == [r EXCEPT !.tier = "ssa"]

----------------------------------------------------------------------------
(***************************************************************************)
(* What the passes take for granted.  A table of the optimizer holds what  *)
(* the text said last of a variable: what one branch noted counts behind   *)
(* the other one too, what a loop noted counts where the loop was not      *)
(* entered, and a copy still counts when its source has changed.  So the   *)
(* passes are right for texts in which what is noted of a variable that is *)
(* assigned more than once ends in time.                                   *)
(***************************************************************************)
Inner(s) ==
  CASE s[1] = "if"     -> s[3] \o s[4]
    [] s[1] = "while"  -> s[3]
    [] s[1] = "for"    -> s[5]
    [] s[1] = "switch" -> FlattenSeq([i \in DOMAIN s[3] |-> s[3][i][2]]) \o s[4]
    [] OTHER           -> << >>

\* The statements of a text in their order, those inside others included.
RECURSIVE Statements(_)
Statements(stmts) == FlattenSeq([i \in DOMAIN stmts |-> <<stmts[i]>> \o Statements(Inner(stmts[i]))])

Writes(stmts) == SelectSeq(Statements(stmts), LAMBDA s : s[1] \in {"assign", "reassign", "for"})

WrittenBy(s) == IF s[1] = "for" THEN {s[2], s[3]} ELSE {s[2]}

WrittenIn(stmts) == UNION {WrittenBy(w) : w \in Range(Writes(stmts))}

\* The body up to its first return.
Live(body) == LET r == SelectInSeq(body, LAMBDA s : s[1] = "return") IN IF r = 0 THEN body ELSE SubSeq(body, 1, r)

\* Variables that the text gives a value more than once.
Contested(body, params) ==
  LET ws == Writes(body)
  IN  (WrittenIn(body) \cap params) \cup UNION {WrittenBy(ws[i]) \cap WrittenBy(ws[j]) : <<i, j>> \in {p \in (DOMAIN ws) \X (DOMAIN ws) : p[1] # p[2]}}

\* Whatever is known of the variables in known, the expression becomes neither a literal nor a variable.
RECURSIVE Stays(_, _)
Stays(e, known) ==
  LET operand(x) ==
        CASE x[1] = "var" -> x[2] \notin known
          [] x[1] = "lit" -> x[2] # IntValue(0)
          [] OTHER        -> Stays(x, known)
  IN  IF e[1] = "bin"
      THEN e[2] \in {"add", "sub"} /\ operand(e[3]) /\ operand(e[4]) /\ ~(e[3][1] = "lit" /\ e[4][1] = "lit")
      ELSE e[1] \notin {"lit", "var"}

\* Nothing is noted of a contested variable in a branch or a loop, nothing becomes a copy of one, and
\* a loop or a switch writes none in a place where its passes do not look for it.
RECURSIVE FactsEnd(_, _, _, _)
FactsEnd(stmts, known, contested, nested) ==
  \A i \in DOMAIN stmts :
     LET s       == stmts[i]
         body    == Inner(s)
         dropped == Modified(body) \cap contested
     IN  CASE s[1] \in {"assign", "reassign"} ->
                Stays(s[3], known) \/ (Used(s[3]) \cap contested = {} /\ (nested => s[2] \notin contested))
           [] s[1] = "if"                     -> FactsEnd(body, known, contested, TRUE)
           [] s[1] \in {"for", "switch"}      -> WrittenIn(body) \cap contested \subseteq dropped
           [] s[1] = "while"                  ->
                WrittenIn(body) \cap contested \subseteq dropped /\ FactsEnd(body, known \ dropped, contested, TRUE)
           [] OTHER                           -> TRUE

\* An assignment that is moved out of a loop cannot fail and gives its variable its only value.
MayMove(body, params, contested) ==
  \A w \in Range(Statements(body)) : w[1] = "while" =>
     \A i \in DOMAIN w[3] : w[3][i][1] = "assign" =>
        \/ Used(w[3][i][3]) \cap Modified(w[3]) # {}
        \/ w[3][i][2] \notin contested /\ w[3][i][3][1] \in {"lit", "var", "array"} /\ Used(w[3][i][3]) \subseteq params

\* No expression of operators is assigned twice, or the variable that holds it keeps it and always has it.
MayShare(body, contested) ==
  \/ Len(SelectSeq(Writes(body), LAMBDA w : w[1] # "for" /\ w[3][1] = "bin")) <= 1
  \/ contested = {} /\ \A i \in DOMAIN body : body[i][1] \in {"if", "while"} => Len(Writes(SubSeq(body, i, Len(body)))) <= 1

OptimizerJustified(body, level, params) ==
  LET text      == Live(body)
      contested == Contested(text, params)
  IN  /\ FactsEnd(text, WrittenIn(text), contested, FALSE)
      /\ level = "aggressive" => MayMove(text, params, contested) /\ MayShare(text, contested)

\* Of two assignments in a row to a variable the second does not need the first.
PeepholeJustified(body) ==
  \A i \in 1..(Len(body) - 1) :
     body[i][1] = "assign" /\ body[i + 1][1] = "assign" /\ body[i][2] = body[i + 1][2] => body[i][2] \notin Used(body[i + 1][3])

\* The inlined body writes neither a parameter nor a variable of the arguments.
InlinerJustified(fn, es) ==
  WrittenIn(fn.body) \cap ({fn.params[i].name : i \in DOMAIN fn.params} \cup UNION {Used(es[i]) : i \in DOMAIN es}) = {}

----------------------------------------------------------------------------
(* Routes that the passes changed *)

\* CompileRoute on a tree that was not made by the parser.
OptimizedRoute(body, level, params) ==
  [Parsed(body, params) EXCEPT !.prepared = OptimizeStatements(body, level), !.tier = "optimizer",
                               !.justified = OptimizerJustified(body, level, DOMAIN params)]

PeepholeRoute(body, params) ==
  [Parsed(body, params) EXCEPT !.prepared = Peephole(body), !.tier = "optimizer", !.justified = PeepholeJustified(body)]

\* A route that returns a call of a function that may be inlined, and the inlined body.
InlinedRoute(f, fn, es, params) ==
  [Parsed(<<<<"return", <<"call", f, es>>>>>>, params) EXCEPT
     !.prepared = InlineCall(fn, es), !.functions = [n \in {f} |-> <<"function", fn>>], !.tier = "optimizer",
     !.justified = InlinerJustified(fn, es)]

----------------------------------------------------------------------------
(***************************************************************************)
(* Compile: the first route of the expanded module is compiled; types      *)
(* alone give code that only halts.                                        *)
(***************************************************************************)
CompileItems(items) ==
  LET First(kind) == SelectInSeq(items, LAMBDA item : item[1] = kind)
  IN  CASE First("route") # 0 -> CompileRoute(items[First("route")][3], X!ExtractRouteParamNames(items[First("route")][2]))
        [] First("type") # 0  -> CompileRoute(<< >>, {})
        [] OTHER              -> [err |-> "error", code |-> << >>]

CompileModule(items) == CompileItems(X!ExpandModule(items).nodes)

CompiledBody(kind, body, names) ==
  CASE kind = "route"     -> CompileRoute(body, names)
    [] kind = "module"    -> CompileModule(body)
    [] kind = "function"  -> CompileFunction(body, names)
    [] kind = "command"   -> CompileCommand(body, names)
    [] kind = "cron"      -> CompileCronTask(body)
    [] kind = "event"     -> CompileEventHandler(body)
    [] kind = "worker"    -> CompileQueueWorker(body)
    [] kind = "websocket" -> CompileWebSocketEvent(body, names)

Compiled(r) == [route |-> r, result |-> CompiledBody(r.kind, r.prepared, DOMAIN r.params)]

\* setupRoutes compiles the functions of the loaded modules for RegisterFunctionValue.
FunctionValue(fn) ==
  [params |-> [i \in DOMAIN fn.params |-> fn.params[i].name], code |-> S!CompileSSA(fn.body, "Return"), base |-> HeaderSize]

Code(c) == IF c.route.tier = "ssa" THEN S!CompileSSA(c.route.prepared, "Halt") ELSE c.result.code

\* What registerCompiledRoute gets for the routes that compile, and the interpreter's answer to the same request.
Served(routes) ==
  {[code |-> Code(c), base |-> HeaderSize, params |-> c.route.params, ws |-> c.route.ws, tier |-> c.route.tier, justified |-> c.route.justified,
    functions |-> [n \in DOMAIN c.route.imported |-> FunctionValue(c.route.imported[n])],
    answer |-> I!Interpret(c.route.written, c.route.functions, c.route.params)] :
      c \in {d \in {Compiled(r) : r \in routes} : d.result.err = "none"}}
=============================================================================
