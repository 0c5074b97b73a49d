-------------------------------- MODULE SSA --------------------------------
(***************************************************************************)
(* The compiler of the JIT's higher tiers and of imported functions        *)
(* (pkg/compiler/ssa_compiler.go, pkg/ssa): from a syntax tree to values   *)
(* in basic blocks, passes over them until none changes anything, and the  *)
(* lowering to instructions of the stack machine.                          *)
(*                                                                         *)
(* A value is named by its number.  Its operator, type, arguments and the  *)
(* name or constant it carries (AuxStr, AuxInt) make a record; a block is  *)
(* the sequence of its values, its successors and the variables it         *)
(* assigned.  The copy-propagation pass is left out: it only looks at phi  *)
(* nodes, and the builder makes none.                                      *)
(***************************************************************************)
EXTENDS Values, SequencesExt

CONSTANT HeaderSize

EmptyBlock == [values |-> << >>, succs |-> << >>, defs |-> NoFields]

\* A function under construction: cur is the block that is open, 0 behind a terminator; val is the value
\* built last, and lost says that something was written that the builder knows nothing of.
NewFunc == [values |-> << >>, blocks |-> <<EmptyBlock>>, cur |-> 1, val |-> 0, lost |-> FALSE]

----------------------------------------------------------------------------
(* Construction *)

NewValue(f, op, type, args, aux) ==
  [f EXCEPT !.values = Append(@, [op |-> op, type |-> type, args |-> args, aux |-> aux]),
            !.blocks[f.cur].values = Append(@, Len(f.values) + 1), !.val = Len(f.values) + 1]

\* An operator with the values built last as its arguments.
Emit1(f, op, type, arg) == NewValue(f, op, type, <<arg>>, NullValue)

EmitConst(f, v) == NewValue(f, "Const", v[1], << >>, v)

\* What the builder knows nothing of becomes a constant without a value.
Opaque == <<"any", 0>>

Terminate(f, op, args, succs) ==
  [NewValue(f, op, "void", args, NullValue) EXCEPT !.blocks[f.cur].succs = succs, !.cur = 0]

Terminated(f) == f.cur = 0

JumpTo(f, b) == IF Terminated(f) THEN f ELSE Terminate(f, "Jump", << >>, <<b>>)

SwitchTo(f, b) == [f EXCEPT !.cur = b]

AddBlocks(f, n) == [f EXCEPT !.blocks = @ \o [i \in 1..n |-> EmptyBlock]]

WriteVar(f, n, v) ==
  [f EXCEPT !.blocks[f.cur].defs = [m \in DOMAIN @ \cup {n} |-> IF m = n THEN v ELSE @[m]]]

\* A variable the open block assigned is the value it got; any other is loaded.
ReadVar(f, n) ==
  IF n \in DOMAIN f.blocks[f.cur].defs THEN [f EXCEPT !.val = f.blocks[f.cur].defs[n]]
  ELSE NewValue(f, "LoadVar", "any", << >>, n)

IntOps == [add |-> "AddInt", sub |-> "SubInt", mul |-> "MulInt", div |-> "DivInt", mod |-> "ModInt", eq |-> "EqInt", ne |-> "NeInt",
           lt |-> "LtInt", le |-> "LeInt", gt |-> "GtInt", ge |-> "GeInt", and |-> "And", or |-> "Or"]
StringOps == [add |-> "AddStr", eq |-> "EqStr", ne |-> "NeStr"]
BoolOps == [eq |-> "EqBool", ne |-> "NeBool"]

\* Mutant: the type of the operands is not asked for.
TypedInt(op, kind) == IntOps[op]

Typed(op, kind) ==
  CASE kind = "string" /\ op \in DOMAIN StringOps -> StringOps[op]
    [] kind = "bool" /\ op \in DOMAIN BoolOps     -> BoolOps[op]
    [] OTHER                                      -> IntOps[op]

TypeOf(op) == CASE op = "AddStr" -> "string" [] op \in {"AddInt", "SubInt", "MulInt", "DivInt", "ModInt"} -> "int" [] OTHER -> "bool"

\* The type of the left operand chooses the operator, the right one's where the left one's is unknown.
EmitBinary(f, op, l, r) ==
  LET kind  == IF f.values[l].type = "any" THEN f.values[r].type ELSE f.values[l].type
      typed == Typed(op, kind)
  IN  NewValue(f, typed, TypeOf(typed), <<l, r>>, NullValue)

\* Expressions and statements are built in one recursion.
RECURSIVE Build(_, _, _)

BuildExpr(f, e) == Build("expression", f, e)

BuildStatement(f, s) == Build("statement", f, s)

\* The values of several expressions, in their order.
BuildAll(f, es) ==
  FoldLeft(LAMBDA s, e : LET g == BuildExpr(s.f, e) IN [f |-> g, ids |-> Append(s.ids, g.val)], [f |-> f, ids |-> << >>], es)

BuildWith(f, es, op, type, aux) == LET s == BuildAll(f, es) IN NewValue(s.f, op, type, s.ids, aux)

BuildBinOp(f, e) == LET s == BuildAll(f, <<e[3], e[4]>>) IN EmitBinary(s.f, e[2], s.ids[1], s.ids[2])

BuildUnaryOp(f, e) ==
  IF e[2] = "neg" THEN BuildWith(f, <<e[3]>>, "NegInt", "int", NullValue) ELSE BuildWith(f, <<e[3]>>, "Not", "bool", NullValue)

BuildExpression(f, e) ==
  CASE e[1] = "lit"    -> EmitConst(f, e[2])
    [] e[1] = "var"    -> ReadVar(f, e[2])
    [] e[1] = "bin"    -> BuildBinOp(f, e)
    [] e[1] = "un"     -> BuildUnaryOp(f, e)
    [] e[1] = "call"   -> BuildWith(f, e[3], "Call", "any", e[2])
    [] e[1] = "object" -> BuildWith(f, [i \in DOMAIN e[2] |-> e[2][i][2]], "BuildObj", "object", NullValue)
    [] e[1] = "array"  -> BuildWith(f, e[2], "BuildArray", "array", NullValue)
    [] e[1] = "field"  -> BuildWith(f, <<e[2]>>, "GetField", "any", e[3])
    [] e[1] = "index"  -> BuildWith(f, <<e[2], e[3]>>, "GetIndex", "any", NullValue)
    [] e[1] = "try"    -> BuildWith(f, <<e[2]>>, "Try", "any", NullValue)
    [] OTHER           -> EmitConst([f EXCEPT !.lost = TRUE], Opaque)

\* What follows a terminator in the same list of statements is not built.
BuildStatements(f, stmts) == FoldLeft(LAMBDA g, s : IF Terminated(g) THEN g ELSE BuildStatement(g, s), f, stmts)

BuildAssign(f, n, e) == LET g == BuildExpr(f, e) IN NewValue(WriteVar(g, n, g.val), "StoreVar", "void", <<g.val>>, n)

BuildReturn(f, e) == LET g == BuildExpr(f, e) IN Terminate(g, "Return", <<g.val>>, << >>)

\* A block whose statements are followed by a jump, unless they end it themselves.
BuildBlock(f, b, stmts, next) == JumpTo(BuildStatements(SwitchTo(f, b), stmts), next)

\* The new blocks are numbered behind those the condition was built in.
BuildIf(f, s) ==
  LET cond == BuildExpr(f, s[2])
      n    == Len(cond.blocks)
      if   == Terminate(AddBlocks(cond, 3), "If", <<cond.val>>, <<n + 1, n + 2>>)
  IN  SwitchTo(BuildBlock(BuildBlock(if, n + 1, s[3], n + 3), n + 2, s[4], n + 3), n + 3)

BuildWhile(f, s) ==
  LET n    == Len(f.blocks)
      cond == BuildExpr(SwitchTo(JumpTo(AddBlocks(f, 3), n + 1), n + 1), s[2])
      if   == Terminate(cond, "If", <<cond.val>>, <<n + 2, n + 3>>)
  IN  SwitchTo(BuildBlock(if, n + 2, s[3], n + 1), n + 3)

\* The key of the loop gets no value.
BuildFor(f, s) ==
  LET items == BuildExpr(f, s[4])
      iter  == Emit1(items, "GetIter", "any", items.val)
      n     == Len(iter.blocks)
      cond  == Emit1(SwitchTo(JumpTo(AddBlocks(iter, 3), n + 1), n + 1), "IterHasNext", "bool", iter.val)
      next  == Emit1(SwitchTo(Terminate(cond, "If", <<cond.val>>, <<n + 2, n + 3>>), n + 2), "IterNext", "any", iter.val)
      item  == NewValue(WriteVar(next, s[3], next.val), "StoreVar", "void", <<next.val>>, s[3])
  IN  SwitchTo(JumpTo(BuildStatements(item, s[5]), n + 1), n + 3)

\* Break, continue, switch and every statement the builder does not know leave no trace.
BuildNode(f, s) ==
  CASE s[1] \in {"assign", "reassign"} -> BuildAssign(f, s[2], s[3])
    [] s[1] = "return"                 -> BuildReturn(f, s[2])
    [] s[1] = "if"                     -> BuildIf(f, s)
    [] s[1] = "while"                  -> BuildWhile(f, s)
    [] s[1] = "for"                    -> BuildFor(f, s)
    [] s[1] = "expr"                   -> BuildExpr(f, s[2])
    [] OTHER                           -> [f EXCEPT !.lost = TRUE]

Build(what, f, node) == IF what = "expression" THEN BuildExpression(f, node) ELSE BuildNode(f, node)

\* BuildRoute and BuildFunction: an open end gives null.
EndWith(f, op) == IF Terminated(f) THEN f ELSE LET g == EmitConst(f, NullValue) IN Terminate(g, op, <<g.val>>, << >>)

BuildBody(body, op) == EndWith(BuildStatements(NewFunc, body), op)

----------------------------------------------------------------------------
(* Passes *)

\* All values, block by block.
Listed(f) == FlattenSeq([b \in DOMAIN f.blocks |-> f.blocks[b].values])

IsConst(f, v) == f.values[v].op = "Const"

\* AuxInt is 0 in a constant of any type but int and bool, AuxStr empty in any but a string.
AuxInt(c) == CASE Is(c, "int") -> c[2] [] Is(c, "bool") /\ c[2] -> 1 [] OTHER -> 0
AuxStr(c) == IF Is(c, "string") THEN c[2] ELSE << >>

FoldInts(op, a, b) ==
  CASE op = "AddInt" -> IntValue(a + b)
    [] op = "SubInt" -> IntValue(a - b)
    [] op = "MulInt" -> IntValue(a * b)
    [] op = "DivInt" -> IF b = 0 THEN Fail ELSE IntValue(Quo(a, b))
    [] op = "ModInt" -> IF b = 0 THEN Fail ELSE IntValue(Rem(a, b))
    [] op = "EqInt"  -> BoolValue(a = b)
    [] op = "NeInt"  -> BoolValue(a # b)
    [] op = "LtInt"  -> BoolValue(a < b)
    [] op = "LeInt"  -> BoolValue(a <= b)
    [] op = "GtInt"  -> BoolValue(a > b)
    [] op = "GeInt"  -> BoolValue(a >= b)
    [] op = "And"    -> BoolValue(a # 0 /\ b # 0)
    [] op = "Or"     -> BoolValue(a # 0 \/ b # 0)

\* The constant an operator on constants gives, Fail where it is left as it is.
FoldValue(op, cs) ==
  CASE op = "NegInt"                                     -> IntValue(-AuxInt(cs[1]))
    [] op = "Not"                                        -> BoolValue(AuxInt(cs[1]) = 0)
    [] op = "AddStr"                                     -> StringValue(AuxStr(cs[1]) \o AuxStr(cs[2]))
    [] \E o \in DOMAIN IntOps : IntOps[o] = op           -> FoldInts(op, AuxInt(cs[1]), AuxInt(cs[2]))
    [] OTHER                                             -> Fail

FoldOne(f, v) ==
  LET args == f.values[v].args
      c    == FoldValue(f.values[v].op, [i \in DOMAIN args |-> f.values[args[i]].aux])
  IN  IF (\E i \in DOMAIN args : ~IsConst(f, args[i])) \/ c = Fail THEN f
      ELSE [f EXCEPT !.values[v] = [op |-> "Const", type |-> c[1], args |-> << >>, aux |-> c]]

ConstFold(f) == FoldLeft(FoldOne, f, Listed(f))

SideEffects == {"StoreVar", "Call", "Return", "Halt", "If", "Jump"}

UsesIn(f, v) == FoldLeft(LAMBDA n, u : n + Cardinality({i \in DOMAIN f.values[u].args : f.values[u].args[i] = v}), 0, Listed(f))

Uses(f) == [v \in ToSet(Listed(f)) |-> UsesIn(f, v)]

\* One scan: a value that is dropped gives up its arguments, which come before it and stay until the next scan.
Sweep(s, f, v) ==
  LET args == f.values[v].args IN
  IF s.uses[v] > 0 \/ f.values[v].op \in SideEffects THEN s
  ELSE [dead |-> s.dead \cup {v}, uses |-> [u \in DOMAIN s.uses |-> s.uses[u] - Cardinality({i \in DOMAIN args : args[i] = u})]]

DCE(f) ==
  LET s == FoldLeft(LAMBDA a, v : Sweep(a, f, v), [dead |-> {}, uses |-> Uses(f)], Listed(f))
  IN  [f EXCEPT !.blocks = [b \in DOMAIN @ |-> [@[b] EXCEPT !.values = SelectSeq(@, LAMBDA v : v \notin s.dead)]]]

IsIntConst(f, v, n) == IsConst(f, v) /\ f.values[v].aux = IntValue(n)

\* The value an operator can be replaced by: its own number where there is none.
Simpler(f, v) ==
  LET op == f.values[v].op
      a  == f.values[v].args
  IN  CASE op = "AddInt" /\ IsIntConst(f, a[2], 0)                        -> a[1]
        [] op = "AddInt" /\ IsIntConst(f, a[1], 0)                        -> a[2]
        [] op = "SubInt" /\ IsIntConst(f, a[2], 0)                        -> a[1]
        [] op = "MulInt" /\ IsIntConst(f, a[2], 1)                        -> a[1]
        [] op = "MulInt" /\ IsIntConst(f, a[1], 1)                        -> a[2]
        [] op = "MulInt" /\ IsIntConst(f, a[2], 0)                        -> a[2]
        [] op = "MulInt" /\ IsIntConst(f, a[1], 0)                        -> a[1]
        [] op = "DivInt" /\ IsIntConst(f, a[2], 1)                        -> a[1]
        [] op \in {"NegInt", "Not"} /\ f.values[a[1]].op = op             -> f.values[a[1]].args[1]
        [] OTHER                                                          -> v

ReplaceUses(f, v, r) ==
  [f EXCEPT !.values = [u \in DOMAIN @ |-> [@[u] EXCEPT !.args = [i \in DOMAIN @ |-> IF @[i] = v THEN r ELSE @[i]]]]]

Simplify(f) == FoldLeft(LAMBDA g, v : ReplaceUses(g, v, Simpler(g, v)), f, Listed(f))

RECURSIVE RunPasses(_)
RunPasses(f) == LET g == Simplify(DCE(ConstFold(f))) IN IF g = f THEN f ELSE RunPasses(g)

----------------------------------------------------------------------------
(* Lowering *)

\* Blocks as a walk from the entry along the successors meets them.
RECURSIVE Visit(_, _, _)
Visit(f, order, todo) ==
  CASE todo = << >>                -> order
    [] Contains(order, Head(todo)) -> Visit(f, order, Tail(todo))
    [] OTHER                       -> Visit(f, Append(order, Head(todo)), f.blocks[Head(todo)].succs \o Tail(todo))

ScheduleBlocks(f) == Visit(f, << >>, <<1>>)

\* Only a constant is pushed for its use: any other value is taken to be on the stack already.
PushArg(f, v) == IF IsConst(f, v) THEN <<<<"Push", f.values[v].aux>>>> ELSE << >>

EmitArgs(f, v) == FlattenSeq([i \in DOMAIN f.values[v].args |-> PushArg(f, f.values[v].args[i])])

VMOp == [AddInt |-> "Add", AddStr |-> "Add", SubInt |-> "Sub", MulInt |-> "Mul", DivInt |-> "Div", ModInt |-> "Mod",
         EqInt |-> "Eq", EqStr |-> "Eq", EqBool |-> "Eq", NeInt |-> "Ne", NeStr |-> "Ne", NeBool |-> "Ne",
         LtInt |-> "Lt", LeInt |-> "Le", GtInt |-> "Gt", GeInt |-> "Ge", And |-> "And", Or |-> "Or", Not |-> "Not", NegInt |-> "Neg",
         GetIndex |-> "GetIndex", GetIter |-> "GetIter", IterHasNext |-> "IterHasNext", Try |-> "Try", Return |-> "Return", Halt |-> "Halt"]

\* What follows the arguments; the targets of jumps are still numbers of blocks.
Instructions(f, v, succs) ==
  LET u == f.values[v]
      n == Len(u.args)
  IN  CASE u.op = "Const"      -> <<<<"Push", u.aux>>>>
        [] u.op = "LoadVar"    -> <<<<"LoadVar", u.aux>>>>
        [] u.op = "StoreVar"   -> <<<<"StoreVar", u.aux>>>>
        [] u.op = "Call"       -> <<<<"LoadVar", u.aux>>, <<"Call", n>>>>
        [] u.op = "BuildObj"   -> <<<<"BuildObject", n>>>>
        [] u.op = "BuildArray" -> <<<<"BuildArray", n>>>>
        [] u.op = "GetField"   -> <<<<"Push", StringValue(u.aux)>>, <<"GetField", 0>>>>
        [] u.op = "IterNext"   -> <<<<"IterNext", FALSE>>>>
        [] u.op = "If"         -> <<<<"JumpIfFalse", succs[2]>>, <<"Jump", succs[1]>>>>
        [] u.op = "Jump"       -> <<<<"Jump", succs[1]>>>>
        [] OTHER               -> <<<<VMOp[u.op], 0>>>>

LowerValue(f, v, succs) == EmitArgs(f, v) \o Instructions(f, v, succs)

\* Behind the code so far; the place of every block is kept for the jumps.
LowerBlock(l, f, b) ==
  LET blk == f.blocks[b] IN
  [code   |-> FoldLeft(LAMBDA c, v : c \o LowerValue(f, v, blk.succs), l.code, blk.values),
   offset |-> [c \in DOMAIN l.offset \cup {b} |-> IF c = b THEN Len(l.code) + 1 ELSE l.offset[c]]]

Patched(l) ==
  [i \in DOMAIN l.code |->
     LET c == l.code[i] IN IF c[1] \in {"Jump", "JumpIfFalse"} THEN <<c[1], l.offset[c[2]] + HeaderSize>> ELSE c]

LowerFunc(f) ==
  Patched(FoldLeft(LAMBDA l, b : LowerBlock(l, f, b), [code |-> << >>, offset |-> [b \in {} |-> 0]], ScheduleBlocks(f)))

\* CompileRoute (op is "Halt") and CompileFunction ("Return").
Prepared(body, op) == RunPasses(BuildBody(body, op))

\* The singleton has TLC evaluate the function once.
CompileSSA(body, op) == CHOOSE code \in {LowerFunc(f) : f \in {Prepared(body, op)}} : TRUE

\* The constant pool has no bytes for a constant without a value, and the VM cannot read what follows it.
Readable(code) == \A i \in DOMAIN code : code[i] # <<"Push", Opaque>>

----------------------------------------------------------------------------
(* The order the lowering relies on *)

\* What the stack holds behind a value when it finds its arguments on top; <<0>> when it does not.
Produces(u) == u.op \notin {"StoreVar", "If", "Jump", "Return", "Halt"}

Wrong == <<0>>

AfterValue(f, stack, v) ==
  LET u    == f.values[v]
      all  == stack \o SelectSeq(u.args, LAMBDA a : IsConst(f, a))
      rest == SubSeq(all, 1, Len(all) - Len(u.args))
  IN  IF stack = Wrong \/ Len(u.args) > Len(all) \/ (u.op \in {"Call", "BuildObj"}) THEN Wrong
      ELSE IF SubSeq(all, Len(rest) + 1, Len(all)) # u.args THEN Wrong
      ELSE IF Produces(u) THEN Append(rest, v) ELSE rest

\* Nothing was lost, within every block each value is used where it is on top of the stack, and nothing is left behind for
\* another block; only what a route leaves below its result does no harm.
InUseOrder(f, op) ==
  /\ ~f.lost
  /\ \A i \in DOMAIN ScheduleBlocks(f) :
       LET blk == f.blocks[ScheduleBlocks(f)[i]]
           end == FoldLeft(LAMBDA s, v : AfterValue(f, s, v), << >>, blk.values)
       IN  end = << >> \/ (end # Wrong /\ op = "Halt" /\ blk.succs = << >>)
=============================================================================
