------------------------------ MODULE Compiler ------------------------------
(***************************************************************************)
(* The baseline compiler (pkg/compiler/compiler.go, symbols.go) from a     *)
(* syntax tree (see Interpreter for its form) to instructions of the VM.   *)
(*                                                                         *)
(* An instruction is a pair <<opcode, operand>>, and a code address is the *)
(* index of an instruction.  The constant pool is left out: an operand     *)
(* carries the constant itself, as addConstant and readConstant give back  *)
(* the value that was put in.  HeaderSize stands for the bytes of the      *)
(* header and the constants, which buildBytecode adds to jump targets.     *)
(***************************************************************************)
EXTENDS Values, SequencesExt

CONSTANT HeaderSize

ASSUME HeaderAssumption == HeaderSize \in Nat \ {0}

(***************************************************************************)
(* The state of a compiler: the code, the names each open scope defines    *)
(* (innermost last), those of the handler's own scope that are injected    *)
(* and may be declared again, the counter of temporaries, the enclosing    *)
(* loops and how it failed.  A failed compiler changes no more: every      *)
(* method returns the error at once.                                       *)
(***************************************************************************)
NewCompiler(scopes, builtins) ==
  [code |-> << >>, scopes |-> scopes, builtins |-> builtins, labelCounter |-> 0, loopStack |-> << >>, err |-> "none"]

Failed(c) == c.err # "none"

Refuse(c, err) == IF Failed(c) THEN c ELSE [c EXCEPT !.err = err]

\* The offset of the next instruction.
Here(c) == Len(c.code) + 1

Emit(c, op, arg) == IF Failed(c) THEN c ELSE [c EXCEPT !.code = Append(@, <<op, arg>>)]

PatchJump(c, at, target) == IF Failed(c) THEN c ELSE [c EXCEPT !.code[at][2] = target]

\* The jump at an address leads to the next instruction.
PatchHere(c, at) == PatchJump(c, at, Here(c))

PatchAll(c, ats) == FoldLeft(PatchHere, c, ats)

----------------------------------------------------------------------------
(* Symbol table *)

Resolve(c, n) == \E i \in DOMAIN c.scopes : n \in c.scopes[i]

ResolveLocal(c, n) == n \in Last(c.scopes)

\* The scopes are the global one, the handler's and those of blocks.
InHandlerScope(c) == Len(c.scopes) = 2

IsBuiltin(c, n) == InHandlerScope(c) /\ n \in c.builtins

DefineSymbol(c, n) ==
  [c EXCEPT !.scopes[Len(c.scopes)] = @ \cup {n}, !.builtins = IF InHandlerScope(c) THEN @ \ {n} ELSE @]

EnterScope(c) == [c EXCEPT !.scopes = Append(@, {})]

ExitScope(c) == [c EXCEPT !.scopes = Front(@)]

\* Define a fresh temporary; its name is Temp(c, kind).
Temp(c, kind) == <<kind, c.labelCounter>>

NewTemp(c, kind) == [DefineSymbol(c, Temp(c, kind)) EXCEPT !.labelCounter = @ + 1]

----------------------------------------------------------------------------
(* Loops *)

PushLoop(c, continueTarget) == [c EXCEPT !.loopStack = Append(@, [continueTarget |-> continueTarget, breakJumps |-> << >>])]

\* Mutant: the breaks of a loop lead back to its start.
PopLoopToStart(c) ==
  IF Failed(c) THEN c
  ELSE FoldLeft(LAMBDA d, at : PatchJump(d, at, Last(c.loopStack).continueTarget),
                [c EXCEPT !.loopStack = Front(@)], Last(c.loopStack).breakJumps)

\* The breaks of the loop that ends here lead behind it.
PopLoop(c) ==
  IF Failed(c) THEN c ELSE PatchAll([c EXCEPT !.loopStack = Front(@)], Last(c.loopStack).breakJumps)

\* Jump back to the start; the failing condition at exit, and every break, lead behind that.
EndLoop(c, start, exit) == PopLoop(PatchHere(Emit(c, "Jump", start), exit))

CompileBreak(c) ==
  IF c.loopStack = << >> THEN Refuse(c, "semantic")
  ELSE [Emit(c, "Jump", 0) EXCEPT !.loopStack[Len(c.loopStack)].breakJumps = Append(@, Here(c))]

\* Mutant: a continue that jumps to itself.
CompileContinueHere(c) == IF c.loopStack = << >> THEN Refuse(c, "semantic") ELSE Emit(c, "Jump", Here(c))

CompileContinue(c) ==
  IF c.loopStack = << >> THEN Refuse(c, "semantic") ELSE Emit(c, "Jump", Last(c.loopStack).continueTarget)

----------------------------------------------------------------------------
(* Expressions *)

\* An async block holds statements, so both recursions go through this one.
RECURSIVE CompileNode(_, _, _)

CompileExpr(c, e) == CompileNode("expression", c, e)

CompileStatement(c, s) == CompileNode("statement", c, s)

CompileExprs(c, es) == FoldLeft(CompileExpr, c, es)

CompileVariable(c, n) == IF Resolve(c, n) THEN Emit(c, "LoadVar", n) ELSE Refuse(c, "error")

CompileObject(c, fields) ==
  Emit(FoldLeft(LAMBDA d, f : CompileExpr(Emit(d, "Push", StringValue(f[1])), f[2]), c, fields), "BuildObject", Len(fields))

(***************************************************************************)
(* The calls ws.*: how many arguments each may have, how many of them are  *)
(* compiled, and the instruction.  A missing reason of close is empty.     *)
(***************************************************************************)
WsCalls ==
  [send                 |-> <<{1}, 1, "WsSend">>,
   broadcast            |-> <<{1, 2}, 1, "WsBroadcast">>,
   broadcast_to_room    |-> <<{2}, 2, "WsBroadcastRoom">>,
   join                 |-> <<{1}, 1, "WsJoinRoom">>,
   leave                |-> <<{1}, 1, "WsLeaveRoom">>,
   close                |-> <<Nat, 1, "WsClose">>,
   get_rooms            |-> <<Nat, 0, "WsGetRooms">>,
   get_room_count       |-> <<Nat, 0, "WsGetRooms">>,
   get_room_users       |-> <<{1}, 1, "WsGetClients">>,
   get_room_clients     |-> <<{1}, 1, "WsGetClients">>,
   get_room_user_count  |-> <<{1}, 1, "WsGetClients">>,
   get_connection_count |-> <<Nat, 0, "WsGetConnCount">>,
   get_uptime           |-> <<Nat, 0, "WsGetUptime">>]

IsWsCall(f) == Len(f) = 3 /\ f[1] = "ws" /\ f[2] = "." /\ f[3] \in DOMAIN WsCalls

WsArgs(name, args) ==
  IF name = "close" /\ Len(args) # 1 THEN <<<<"lit", StringValue(<< >>)>>>> ELSE SubSeq(args, 1, WsCalls[name][2])

\* Mutant: the last argument is compiled first.
WsCodeReversed(c, name, args) == Emit(CompileExprs(c, Reverse(WsArgs(name, args))), WsCalls[name][3], 0)

WsCode(c, name, args) == Emit(CompileExprs(c, WsArgs(name, args)), WsCalls[name][3], 0)

\* A count is the built-in length of the list.
CompileWsCall(c, name, args) ==
  CASE Len(args) \notin WsCalls[name][1]                    -> Refuse(c, "error")
    [] name \in {"get_room_count", "get_room_user_count"}  ->
         Emit(WsCode(Emit(c, "Push", StringValue(<<"length">>)), name, args), "Call", 1)
    [] OTHER                                               -> WsCode(c, name, args)

CompileCall(c, f, args) ==
  IF IsWsCall(f) THEN CompileWsCall(c, f[3], args)
  ELSE Emit(CompileExprs(Emit(c, "Push", StringValue(f)), args), "Call", Len(args))

(***************************************************************************)
(* Code that tests the variable src against a pattern and binds its        *)
(* names; jumps collects the jumps to the next case.                       *)
(***************************************************************************)
Test(r, c) == [c |-> Emit(c, "JumpIfFalse", 0), jumps |-> Append(r.jumps, Here(c))]

BindVar(c, n) == Emit(DefineSymbol(c, n), "StoreVar", n)

StoreTemp(c, kind) == Emit(NewTemp(c, kind), "StoreVar", Temp(c, kind))

RECURSIVE CompilePattern(_, _, _)

CompilePart(r, get, kind, p) == CompilePattern([r EXCEPT !.c = StoreTemp(get, kind)], p, Temp(get, kind))

CompileLiteralValue(c, v) == Emit(c, "Push", v)

CompilePattern(r, p, src) ==
  LET load == Emit(r.c, "LoadVar", src) IN
  CASE p[1] = "lit" ->
         Test(r, Emit(CompileLiteralValue(load, p[2]), "Eq", 0))
    [] p[1] = "var" -> [r EXCEPT !.c = BindVar(load, p[2])]
    [] p[1] = "any" -> r
    [] p[1] = "object" ->
         LET field(s, f) ==
               LET get == Emit(Emit(Emit(s.c, "LoadVar", src), "Push", StringValue(f[1])), "GetField", 0) IN
               IF f[2] = <<"bind">> THEN [s EXCEPT !.c = BindVar(get, f[1])] ELSE CompilePart(s, get, "__field", f[2])
         IN  FoldLeft(field, r, p[2])
    [] p[1] = "array" ->
         LET elem(s, i) ==
               LET get == Emit(Emit(Emit(s.c, "LoadVar", src), "Push", IntValue(i - 1)), "GetIndex", 0) IN
               CompilePart(s, get, "__elem", p[2][i])
             all == FoldLeft(elem, r, [i \in DOMAIN p[2] |-> i])
         IN  IF p[3] = << >> THEN all
             ELSE [all EXCEPT !.c = BindVar(Emit(@, "LoadVar", src), p[3])]

\* The failed tests of a case lead to the next case; a case that ends jumps behind all of them.
EndCase(ends, jumps, c) == [c |-> PatchAll(Emit(c, "Jump", 0), jumps), ends |-> Append(ends, Here(c))]

Guarded(r, guard) == IF guard = <<"none">> THEN r ELSE Test(r, CompileExpr(r.c, guard))

MatchBody(ends, r, body) == EndCase(ends, r.jumps, CompileExpr(r.c, body))

MatchCase(acc, k, src) ==
  MatchBody(acc.ends, Guarded(CompilePattern([c |-> acc.c, jumps |-> << >>], k[1], src), k[2]), k[3])

NoMatch(acc) == PatchAll(Emit(acc.c, "Push", NullValue), acc.ends)

CompileMatch(c, value, cases) ==
  LET src == Temp(c, "__match")
      start == Emit(CompileExpr(NewTemp(c, "__match"), value), "StoreVar", src)
  IN  NoMatch(FoldLeft(LAMBDA acc, k : MatchCase(acc, k, src), [c |-> start, ends |-> << >>], cases))

(***************************************************************************)
(* The body of an async block gets a compiler of its own, with its own     *)
(* addresses, labels and loops, and its code follows the instruction.      *)
(* The code looks at the last byte of the body, not at the last            *)
(* instruction: the two differ when the last byte of a four-byte operand   *)
(* is that of Return (0x61), which the little-endian encoding gives only   *)
(* to operands above 0x61000000.                                           *)
(***************************************************************************)
Halted(b) == IF b.code = << >> \/ Last(b.code)[1] # "Return" THEN Emit(b, "Halt", 0) ELSE b

AppendAsync(c, b) ==
  IF Failed(b) THEN Refuse(c, b.err)
  ELSE [Emit(c, "Async", Len(b.code)) EXCEPT !.code = @ \o b.code, !.scopes = b.scopes, !.builtins = b.builtins]

CompileAsync(c, body) == AppendAsync(c, Halted(FoldLeft(CompileStatement, NewCompiler(c.scopes, c.builtins), body)))

OpOf == [add |-> "Add", sub |-> "Sub", mul |-> "Mul", div |-> "Div", mod |-> "Mod", eq |-> "Eq", ne |-> "Ne",
         lt |-> "Lt", le |-> "Le", gt |-> "Gt", ge |-> "Ge", and |-> "And", or |-> "Or", not |-> "Not", neg |-> "Neg"]

CompileLiteral(c, v) == Emit(c, "Push", v)

CompileFieldAccess(c, object, field) == Emit(CompileLiteral(CompileExpr(c, object), StringValue(field)), "GetField", 0)

CompileArrayIndex(c, array, index) == Emit(CompileExpr(CompileExpr(c, array), index), "GetIndex", 0)

CompileAwaitExpr(c, e) == Emit(CompileExpr(c, e), "Await", 0)

CompileTryExpr(c, e) == Emit(CompileExpr(c, e), "Try", 0)

CompileExpression(c, e) ==
  IF Failed(c) THEN c
  ELSE CASE e[1] = "lit"    -> CompileLiteral(c, e[2])
         [] e[1] = "var"    -> CompileVariable(c, e[2])
         [] e[1] = "bin"    -> Emit(CompileExpr(CompileExpr(c, e[3]), e[4]), OpOf[e[2]], 0)
         [] e[1] = "un"     -> Emit(CompileExpr(c, e[3]), OpOf[e[2]], 0)
         [] e[1] = "object" -> CompileObject(c, e[2])
         [] e[1] = "array"  -> Emit(CompileExprs(c, e[2]), "BuildArray", Len(e[2]))
         [] e[1] = "field"  -> CompileFieldAccess(c, e[2], e[3])
         [] e[1] = "index"  -> CompileArrayIndex(c, e[2], e[3])
         [] e[1] = "call"   -> CompileCall(c, e[2], e[3])
         [] e[1] = "match"  -> CompileMatch(c, e[2], e[3])
         [] e[1] = "async"  -> CompileAsync(c, e[2])
         [] e[1] = "await"  -> CompileAwaitExpr(c, e[2])
         [] e[1] = "try"    -> CompileTryExpr(c, e[2])
         [] OTHER           -> Refuse(c, "error")

----------------------------------------------------------------------------
(* Statements *)

CompileBlock(c, stmts) == ExitScope(FoldLeft(CompileStatement, EnterScope(c), stmts))

\* A name of the current scope cannot be declared again; one of an outer scope is assigned.
DefineNew(c, n) == IF Resolve(c, n) THEN c ELSE DefineSymbol(c, n)

CompileAssign(c, n, e) ==
  IF ResolveLocal(c, n) /\ ~IsBuiltin(c, n) THEN Refuse(c, "semantic")
  ELSE DefineNew(Emit(CompileExpr(c, e), "StoreVar", n), n)

CompileReassign(c, n, e) ==
  IF Resolve(c, n) THEN Emit(CompileExpr(c, e), "StoreVar", n) ELSE Refuse(c, "semantic")

CompileIf(c, s) ==
  LET cond == CompileExpr(c, s[2])
      then == CompileBlock(Emit(cond, "JumpIfFalse", 0), s[3])
      else == CompileBlock(PatchHere(Emit(then, "Jump", 0), Here(cond)), s[4])
  IN  PatchHere(else, Here(then))

CompileWhile(c, s) ==
  LET cond == CompileExpr(c, s[2])
  IN  EndLoop(CompileBlock(PushLoop(Emit(cond, "JumpIfFalse", 0), Here(c)), s[3]), Here(c), Here(cond))

\* The loop variables are stored in locals of the VM like any other variable; a key is optional.
DefineLoop(c, key, value) ==
  IF key = << >> THEN DefineSymbol(c, value) ELSE DefineSymbol(DefineSymbol(c, value), key)

LoadNext(c, iter, key, value) ==
  LET next == Emit(Emit(Emit(c, "LoadVar", iter), "IterNext", key # << >>), "StoreVar", value)
  IN  IF key = << >> THEN next ELSE Emit(next, "StoreVar", key)

ForLoop(c, iter, s) ==
  LET more == Emit(Emit(c, "LoadVar", iter), "IterHasNext", 0)
      item == LoadNext(Emit(more, "JumpIfFalse", 0), iter, s[2], s[3])
  IN  EndLoop(FoldLeft(CompileStatement, PushLoop(item, Here(c)), s[5]), Here(c), Here(more))

CompileFor(c, s) ==
  LET got == Emit(CompileExpr(EnterScope(c), s[4]), "GetIter", 0)
  IN  ExitScope(ForLoop(DefineLoop(StoreTemp(got, "__iter"), s[2], s[3]), Temp(got, "__iter"), s))

SwitchCase(acc, k, src) ==
  LET eq == Emit(CompileExpr(Emit(acc.c, "LoadVar", src), k[1]), "Eq", 0)
  IN  EndCase(acc.ends, <<Here(eq)>>, CompileBlock(Emit(eq, "JumpIfFalse", 0), k[2]))

Default(acc, stmts) == PatchAll(CompileBlock(acc.c, stmts), acc.ends)

CompileSwitch(c, s) ==
  LET src == Temp(c, "__switch")
      start == Emit(CompileExpr(NewTemp(c, "__switch"), s[2]), "StoreVar", src)
  IN  Default(FoldLeft(LAMBDA acc, k : SwitchCase(acc, k, src), [c |-> start, ends |-> << >>], s[3]), s[4])

CompileReturn(c, e) == Emit(CompileExpr(c, e), "Return", 0)

CompileExpressionStatement(c, e) == Emit(CompileExpr(c, e), "Pop", 0)

\* A compiled route does not validate.
CompileValidation(c) == c

CompileOneStatement(c, s) ==
  IF Failed(c) THEN c
  ELSE CASE s[1] = "assign"   -> CompileAssign(c, s[2], s[3])
         [] s[1] = "reassign" -> CompileReassign(c, s[2], s[3])
         [] s[1] = "return"   -> CompileReturn(c, s[2])
         [] s[1] = "if"       -> CompileIf(c, s)
         [] s[1] = "while"    -> CompileWhile(c, s)
         [] s[1] = "for"      -> CompileFor(c, s)
         [] s[1] = "switch"   -> CompileSwitch(c, s)
         [] s[1] = "expr"     -> CompileExpressionStatement(c, s[2])
         [] s[1] = "break"    -> CompileBreak(c)
         [] s[1] = "continue" -> CompileContinue(c)
         [] s[1] = "validate" -> CompileValidation(c)
         [] OTHER             -> Refuse(c, "error")

CompileNode(what, c, node) == IF what = "expression" THEN CompileExpression(c, node) ELSE CompileOneStatement(c, node)

----------------------------------------------------------------------------
(* Routes, functions and other handlers *)

\* buildBytecode walks over all instructions, those of async bodies included.
AdjustJumpTargets(code) ==
  [i \in DOMAIN code |->
     IF code[i][1] \in {"Jump", "JumpIfFalse", "JumpIfTrue"} THEN <<code[i][1], code[i][2] + HeaderSize>> ELSE code[i]]

BuildBytecode(c) == [err |-> c.err, code |-> AdjustJumpTargets(c.code)]

\* The names are in the handler's scope, those of builtins may be declared again.
CompileBody(body, names, builtins) ==
  FoldLeft(CompileStatement, NewCompiler(<<{}, names \cup builtins>>, builtins), body)

\* Names that are injected for every request.
BuiltinVars == {<<"query">>, <<"input">>, <<"ws">>}

\* The parser's return nodes never satisfy isReturnStatement, so a halt always follows.
CompileRoute(body, params) == BuildBytecode(Emit(CompileBody(body, params, BuiltinVars), "Halt", 0))

\* A function that does not return gives null.
CompileFunction(body, params) == BuildBytecode(Emit(Emit(CompileBody(body, params, {}), "Push", NullValue), "Return", 0))

CompileHandler(body, names) == BuildBytecode(Emit(CompileBody(body, names, {}), "Halt", 0))

CompileCommand(body, params) == CompileHandler(body, params)

CompileCronTask(body) == CompileHandler(body, {})

CompileEventHandler(body) == CompileHandler(body, {<<"event">>, <<"input">>})

CompileQueueWorker(body) == CompileHandler(body, {<<"message">>, <<"input">>})

\* One event of a WebSocket route; ws and, but for messages, input have no value when it runs.
CompileWebSocketEvent(body, params) == CompileHandler(body, params \cup {<<"ws">>, <<"input">>, <<"client">>})
=============================================================================
