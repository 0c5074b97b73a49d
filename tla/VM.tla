--------------------------------- MODULE VM ---------------------------------
(***************************************************************************)
(* The bytecode VM (pkg/vm/vm.go, value.go): a stack machine, and one more *)
(* machine in a goroutine of its own for every async block.                *)
(*                                                                         *)
(* The VMs are a function from thread numbers; thread 1 runs the route and *)
(* the VM of the n-th async block is thread n + 1.  A future is the number *)
(* of the thread that settles it.  A machine whose status is "ended" holds *)
(* its result, Fail for an error; the channel Done of its future is closed *)
(* in the same step.  timedOut and dropped record that an await timed out  *)
(* and that a push was dropped.  Code addresses count instructions; base is the       *)
(* address before the first instruction: the size of the header for        *)
(* Execute, 0 for executeRaw.                                              *)
(*                                                                         *)
(* Left out: the instructions only other compilers emit (JumpIfTrue,       *)
(* SetField, SetIndex, DefFunc, HttpReturn, Telemetry) and writeFile.      *)
(*                                                                         *)
(* ws is the WebSocket handler of a machine: "connection" (VMHandler) for  *)
(* an event of a WebSocket route, "stats" (VMStatsHandler) for a route,    *)
(* "none" for an async block.  calls are the calls it got; what the hub    *)
(* does with them is module WebSocketHub.                                  *)
(***************************************************************************)
EXTENDS GoLibrary

CONSTANTS MaxThreads,    \* bound: the route and the async blocks it may start
          MaxStackSize,  \* maxStackSize
          HubRooms,      \* rooms of the hub, each with the clients in it other than this connection
          HubClients,    \* connections of the hub
          Client         \* ID of this connection

ASSUME ThreadsAssumption == MaxThreads \in Nat \ {0}
ASSUME StackAssumption   == MaxStackSize \in Nat \ {0}
ASSUME HubAssumption     == \A r \in DOMAIN HubRooms : HubRooms[r] \subseteq HubClients \ {Client}

VARIABLE vm

Threads == 1..MaxThreads

Main == 1

\* A machine before it is made.
Unused == [status |-> "unused", code |-> << >>, base |-> 0, pc |-> 0, stack |-> << >>, locals |-> NoFields,
           iterators |-> << >>, functions |-> NoFields, callStack |-> << >>,
           result |-> Fail, timedOut |-> FALSE, dropped |-> FALSE, ws |-> "none", calls |-> << >>, refused |-> FALSE]

\* Mutant: Execute clears the locals the VM was given.
StartedAnew(code, base, locals) ==
  [Unused EXCEPT !.status = "running", !.code = code, !.base = base, !.pc = base + 1]

\* NewVM followed by Execute or executeRaw.
Started(code, base, locals) ==
  [Unused EXCEPT !.status = "running", !.code = code, !.base = base, !.pc = base + 1, !.locals = locals]

\* functions are those RegisterFunctionValue was given: parameters, code and the address before it.
Load(code, base, locals, functions, ws) ==
  [t \in Threads |-> IF t = Main THEN [Started(code, base, locals) EXCEPT !.functions = functions, !.ws = ws] ELSE Unused]

----------------------------------------------------------------------------
(* The stack and the program counter *)

Running(t) == vm[t].status = "running"

InCode(t) == vm[t].pc - vm[t].base \in DOMAIN vm[t].code

Opcode(t)  == vm[t].code[vm[t].pc - vm[t].base][1]
Operand(t) == vm[t].code[vm[t].pc - vm[t].base][2]

\* Thread t is about to execute one of these instructions and its stack holds n values for it.
Ready(t, ops, n) == Running(t) /\ InCode(t) /\ Opcode(t) \in ops /\ Len(vm[t].stack) >= n

\* The n-th value from the top.
Top(t, n) == vm[t].stack[Len(vm[t].stack) - n + 1]

Dropped(stack, n) == SubSeq(stack, 1, Len(stack) - n)

\* Push drops the value silently when the stack is full.
Full(stack) == Len(stack) >= MaxStackSize

Pushed(stack, v) == IF Full(stack) THEN stack ELSE Append(stack, v)

\* The machine stops with an error.
Abort(t) == vm' = [vm EXCEPT ![t].status = "ended", ![t].result = Fail]

\* runLoop ends: the result is the top of the stack, or null.
Finish(t) ==
  vm' = [vm EXCEPT ![t].status = "ended",
                   ![t].result = IF vm[t].stack = << >> THEN NullValue ELSE Top(t, 1),
                   ![t].stack = IF @ = << >> THEN @ ELSE Dropped(@, 1)]

\* Replace the n topmost values by v and go on.
Replace(t, n, v) ==
  IF v = Fail THEN Abort(t)
  ELSE vm' = [vm EXCEPT ![t].stack = Pushed(Dropped(@, n), v), ![t].pc = @ + 1,
                       ![t].dropped = @ \/ Full(Dropped(vm[t].stack, n))]

----------------------------------------------------------------------------
(* Operators of the VM *)

VMValuesEqual(a, b) == Scalar(a) /\ a = b

VMLess(a, b) ==
  CASE Both(a, b, "int")    -> BoolValue(a[2] < b[2])
    [] Both(a, b, "string") -> BoolValue(StringLess(a[2], b[2]))
    [] OTHER                -> Fail

VMNot(v) == IF Is(v, "bool") THEN BoolValue(~v[2]) ELSE Fail

Arithmetic == {"Add", "Sub", "Mul", "Div", "Mod"}
Comparison == {"Eq", "Ne", "Lt", "Le", "Gt", "Ge"}
Logic      == {"And", "Or"}

VMBinary(op, a, b) ==
  CASE op = "Add" /\ Both(a, b, "int")    -> IntValue(a[2] + b[2])
    [] op = "Add" /\ Both(a, b, "string") -> StringValue(a[2] \o b[2])
    [] op = "Add" /\ Both(a, b, "array")  -> ArrayValue(a[2] \o b[2])
    [] op = "Sub" /\ Both(a, b, "int")    -> IntValue(a[2] - b[2])
    [] op = "Mul" /\ Both(a, b, "int")    -> IntValue(a[2] * b[2])
    [] op = "Div" /\ Both(a, b, "int")    -> IF b[2] = 0 THEN Fail ELSE IntValue(Quo(a[2], b[2]))
    [] op = "Mod" /\ Both(a, b, "int")    -> IF b[2] = 0 THEN Fail ELSE IntValue(Rem(a[2], b[2]))
    [] op = "Eq"                          -> BoolValue(VMValuesEqual(a, b))
    [] op = "Ne"                          -> BoolValue(~VMValuesEqual(a, b))
    [] op = "Lt"                          -> VMLess(a, b)
    [] op = "Gt"                          -> VMLess(b, a)
    [] op = "Le"                          -> VMNot(VMLess(b, a))
    [] op = "Ge"                          -> VMNot(VMLess(a, b))
    [] op = "And" /\ Both(a, b, "bool")   -> BoolValue(a[2] /\ b[2])
    [] op = "Or" /\ Both(a, b, "bool")    -> BoolValue(a[2] \/ b[2])
    [] OTHER                              -> Fail

VMUnary(op, a) ==
  CASE op = "Not"                  -> VMNot(a)
    [] op = "Neg" /\ Is(a, "int")  -> IntValue(-a[2])
    [] OTHER                       -> Fail

VMIndex(a, i) ==
  IF Is(a, "array") /\ Is(i, "int") /\ i[2] >= 0 /\ i[2] < Len(a[2]) THEN a[2][i[2] + 1] ELSE Fail

VMField(o, k) == IF Is(o, "object") /\ Is(k, "string") /\ k[2] \in DOMAIN o[2] THEN o[2][k[2]] ELSE Fail

\* Err keeps the text of its argument.
Formatted(v) == IF Is(v, "string") THEN v ELSE StringValue(<<"%v", v>>)

\* valueToString
TextOfValue(v) ==
  CASE Is(v, "string") -> v[2]
    [] Is(v, "int")    -> IntText(v[2])
    [] Is(v, "bool")   -> BoolText(v[2])
    [] Is(v, "null")   -> <<"n", "u", "l", "l">>
    [] OTHER           -> <<"%v", v>>

Built(name, args) ==
  CASE name \in {<<"time", ".", "now">>, <<"now">>} /\ args = << >>   -> IntValue(Clock)
    [] name = <<"print">>                                             -> NullValue
    [] OTHER                                                          -> Fail

BuiltOfOne(name, v) ==
  CASE name = <<"Ok">>                                              -> ResultOk(v)
    [] name = <<"Err">>                                             -> ResultErr(Formatted(v))
    [] name = <<"length">> /\ v[1] \in {"array", "string"}          -> IntValue(Len(v[2]))
    [] name = <<"reverse">> /\ v[1] \in {"array", "string"}         -> <<v[1], Reverse(v[2])>>
    [] name = <<"toString">>                                        -> StringValue(TextOfValue(v))
    [] name = <<"typeOf">>                                          -> StringValue(<<TypeNames[v[1]]>>)
    [] name = <<"upper">> /\ Is(v, "string")                        -> StringValue(Upper(v[2]))
    [] name = <<"lower">> /\ Is(v, "string")                        -> StringValue(Lower(v[2]))
    [] name = <<"trim">> /\ Is(v, "string")                         -> StringValue(Trim(v[2]))
    [] OTHER                                                        -> Built(name, <<v>>)

BuiltOfTexts(name, s, t) ==
  CASE name = <<"split">>       -> LET parts == Split(s, t) IN ArrayValue([i \in DOMAIN parts |-> StringValue(parts[i])])
    [] name = <<"contains">>    -> BoolValue(Places(s, t) # {})
    [] name = <<"startsWith">>  -> BoolValue(IsPrefix(t, s))
    [] name = <<"endsWith">>    -> BoolValue(IsSuffix(t, s))
    [] OTHER                    -> Built(name, <<s, t>>)

BuiltJoin(parts, sep) == StringValue(Joined([i \in DOMAIN parts |-> TextOfValue(parts[i])], sep))

BuiltRepeat(s, n) == IF n < 0 THEN Fail ELSE StringValue(FlattenSeq([i \in 1..n |-> s]))

BuiltReplace(s, old, new) == StringValue(Replaced(s, old, new))

BuiltSubstring(s, start, end) ==
  IF 0 <= start /\ start <= end /\ end <= Len(s) THEN StringValue(SubSeq(s, start + 1, end)) ELSE Fail

\* What a name the table does not have gives is an error too.
VMBuiltin(f, args) ==
  CASE ~Is(f, "string")                                                           -> Fail
    [] Len(args) = 1                                                              -> BuiltOfOne(f[2], args[1])
    [] Texts(args, 2)                                                             -> BuiltOfTexts(f[2], args[1][2], args[2][2])
    [] f[2] = <<"join">> /\ Typed(args, <<"array", "string">>)                     -> BuiltJoin(args[1][2], args[2][2])
    [] f[2] = <<"repeat">> /\ Typed(args, <<"string", "int">>)                     -> BuiltRepeat(args[1][2], args[2][2])
    [] f[2] = <<"replace">> /\ Texts(args, 3)                                      -> BuiltReplace(args[1][2], args[2][2], args[3][2])
    [] f[2] = <<"substring">> /\ Typed(args, <<"string", "int", "int">>)           -> BuiltSubstring(args[1][2], args[2][2], args[3][2])
    [] OTHER                                                                      -> Built(f[2], args)

----------------------------------------------------------------------------
(* Instructions *)

\* What a handler can be told, with the number of values.
WsTells == [WsSend |-> 1, WsBroadcast |-> 1, WsBroadcastRoom |-> 2, WsJoinRoom |-> 1, WsLeaveRoom |-> 1, WsClose |-> 1]

\* How many values an instruction takes from the stack.
Takes(op, arg) ==
  CASE op \in Arithmetic \cup Comparison \cup Logic \cup {"GetIndex", "GetField"} -> 2
    [] op \in DOMAIN WsTells -> WsTells[op]
    [] op \in {"WsGetClients", "Pop", "Not", "Neg", "StoreVar", "JumpIfFalse", "GetIter", "IterHasNext", "IterNext", "Await", "Try"} -> 1
    [] op = "BuildArray"  -> arg
    [] op = "BuildObject" -> 2 * arg
    [] op = "Call"        -> arg + 1
    [] OTHER              -> 0

Needs(t) == Takes(Opcode(t), Operand(t))

\* Pop on an empty stack.
Underflow(t) == Running(t) /\ InCode(t) /\ Len(vm[t].stack) < Needs(t) /\ Abort(t)

ExecPush(t) == Ready(t, {"Push"}, 0) /\ Replace(t, 0, Operand(t))

\* Mutant: Pop only looks at the value.
ExecPopKeeps(t) == Ready(t, {"Pop"}, 1) /\ vm' = [vm EXCEPT ![t].pc = @ + 1]

ExecPop(t) ==
  /\ Ready(t, {"Pop"}, 1)
  /\ vm' = [vm EXCEPT ![t].stack = Dropped(@, 1), ![t].pc = @ + 1]

ExecBinary(t) ==
  /\ Ready(t, Arithmetic \cup Comparison \cup Logic, 2)
  /\ Replace(t, 2, VMBinary(Opcode(t), Top(t, 2), Top(t, 1)))

ExecUnary(t) == Ready(t, {"Not", "Neg"}, 1) /\ Replace(t, 1, VMUnary(Opcode(t), Top(t, 1)))

ExecLoadVar(t) ==
  /\ Ready(t, {"LoadVar"}, 0)
  /\ Replace(t, 0, IF Operand(t) \in DOMAIN vm[t].locals THEN vm[t].locals[Operand(t)] ELSE Fail)

ExecStoreVar(t) ==
  /\ Ready(t, {"StoreVar"}, 1)
  /\ vm' = [vm EXCEPT ![t].stack = Dropped(@, 1), ![t].pc = @ + 1,
                      ![t].locals = [n \in DOMAIN @ \cup {Operand(t)} |-> IF n = Operand(t) THEN Top(t, 1) ELSE @[n]]]

ExecJump(t) == Ready(t, {"Jump"}, 0) /\ vm' = [vm EXCEPT ![t].pc = Operand(t)]

ExecJumpIfFalse(t) ==
  /\ Ready(t, {"JumpIfFalse"}, 1)
  /\ IF Is(Top(t, 1), "bool")
     THEN vm' = [vm EXCEPT ![t].stack = Dropped(@, 1), ![t].pc = IF Top(t, 1)[2] THEN @ + 1 ELSE Operand(t)]
     ELSE Abort(t)

(***************************************************************************)
(* An iterator is kept under its number, 0 for the first; it is deleted    *)
(* when hasNext finds it exhausted.  Go iterates over an object's keys in  *)
(* any order.                                                              *)
(***************************************************************************)
Orders(S) == {f \in [1..Cardinality(S) -> S] : \A i, j \in 1..Cardinality(S) : i # j => f[i] # f[j]}

Items(v) ==
  CASE Is(v, "array")  -> {[i \in DOMAIN v[2] |-> <<IntValue(i - 1), v[2][i]>>]}
    [] Is(v, "object") -> {[i \in DOMAIN f |-> <<StringValue(f[i]), v[2][f[i]]>>] : f \in Orders(DOMAIN v[2])}
    [] OTHER           -> {<< >>}

ExecGetIter(t) ==
  /\ Ready(t, {"GetIter"}, 1)
  /\ \E items \in Items(Top(t, 1)) :
       vm' = [vm EXCEPT ![t].iterators = Append(@, [over |-> Top(t, 1)[1], items |-> items, live |-> TRUE]),
                        ![t].stack = Pushed(Dropped(@, 1), IntValue(Len(vm[t].iterators))), ![t].pc = @ + 1]

\* The number on the stack names a live iterator over an array or an object.
Iterator(t) == Top(t, 1)[2] + 1

IterValid(t) ==
  /\ Is(Top(t, 1), "int") /\ Iterator(t) \in DOMAIN vm[t].iterators
  /\ vm[t].iterators[Iterator(t)].live /\ vm[t].iterators[Iterator(t)].over \in {"array", "object"}

ExecIterHasNext(t) ==
  /\ Ready(t, {"IterHasNext"}, 1)
  /\ IF IterValid(t)
     THEN LET more == vm[t].iterators[Iterator(t)].items # << >> IN
          vm' = [vm EXCEPT ![t].iterators[Iterator(t)].live = more,
                           ![t].stack = Pushed(Dropped(@, 1), BoolValue(more)), ![t].pc = @ + 1]
     ELSE Abort(t)

ExecIterNext(t) ==
  /\ Ready(t, {"IterNext"}, 1)
  /\ IF IterValid(t) /\ vm[t].iterators[Iterator(t)].items # << >>
     THEN LET item == Head(vm[t].iterators[Iterator(t)].items)
              rest == Dropped(vm[t].stack, 1)
          IN  vm' = [vm EXCEPT ![t].iterators[Iterator(t)].items = Tail(@), ![t].pc = @ + 1,
                               ![t].stack = Pushed(IF Operand(t) THEN Pushed(rest, item[1]) ELSE rest, item[2]),
                               ![t].dropped = @ \/ (Operand(t) /\ Full(Pushed(rest, item[1])))]
     ELSE Abort(t)

ExecGetIndex(t) == Ready(t, {"GetIndex"}, 2) /\ Replace(t, 2, VMIndex(Top(t, 2), Top(t, 1)))

ExecGetField(t) == Ready(t, {"GetField"}, 2) /\ Replace(t, 2, VMField(Top(t, 2), Top(t, 1)))

\* The n topmost values, the deepest first.
Args(t, n) == [i \in 1..n |-> Top(t, n - i + 1)]

ExecBuildArray(t) ==
  /\ Ready(t, {"BuildArray"}, 0) /\ Len(vm[t].stack) >= Operand(t)
  /\ Replace(t, Operand(t), ArrayValue(Args(t, Operand(t))))

\* The pairs are popped from the last to the first, so the first of two equal keys wins.
ExecBuildObject(t) ==
  /\ Ready(t, {"BuildObject"}, 0) /\ Len(vm[t].stack) >= 2 * Operand(t)
  /\ LET args == Args(t, 2 * Operand(t))
         keys == {args[2 * i - 1][2] : i \in 1..Operand(t)}
         first(k) == CHOOSE i \in 1..Operand(t) : args[2 * i - 1][2] = k /\ \A j \in 1..(i - 1) : args[2 * j - 1][2] # k
     IN  Replace(t, 2 * Operand(t), IF \A i \in 1..Operand(t) : Is(args[2 * i - 1], "string")
                                    THEN ObjectValue([k \in keys |-> args[2 * first(k)]]) ELSE Fail)

BuiltinNames ==
  {<<"time", ".", "now">>} \cup
  {<<f>> : f \in {"now", "Ok", "Err", "length", "upper", "lower", "trim", "split", "join", "contains", "replace", "startsWith",
                 "endsWith", "repeat", "reverse", "substring", "print", "toString", "typeOf", "writeFile"}}

\* The instruction calls a function of the program; a built-in of that name would be found first.
Callee(t) == Top(t, Operand(t) + 1)

CallsUser(t) == Is(Callee(t), "string") /\ Callee(t)[2] \in DOMAIN vm[t].functions \ BuiltinNames

ExecCall(t) ==
  /\ Ready(t, {"Call"}, 1) /\ Len(vm[t].stack) > Operand(t) /\ ~CallsUser(t)
  /\ Replace(t, Operand(t) + 1, VMBuiltin(Callee(t), Args(t, Operand(t))))

(***************************************************************************)
(* A call saves the caller's code, place and locals and leaves the caller's *)
(* values on the stack under those of the function.  Missing arguments     *)
(* leave their parameters without a value.                                 *)
(***************************************************************************)
Frame(t) == [pc |-> vm[t].pc + 1, base |-> vm[t].base, code |-> vm[t].code, locals |-> vm[t].locals]

Passed(params, args) ==
  [n \in {params[i] : i \in 1..Len(params) \cap DOMAIN args} |-> args[CHOOSE i \in DOMAIN params : params[i] = n]]

ExecCallUser(t) ==
  /\ Ready(t, {"Call"}, 1) /\ Len(vm[t].stack) > Operand(t) /\ CallsUser(t)
  /\ LET fn == vm[t].functions[Callee(t)[2]] IN
     vm' = [vm EXCEPT ![t].callStack = Append(@, Frame(t)), ![t].locals = Passed(fn.params, Args(t, Operand(t))),
                      ![t].code = fn.code, ![t].base = fn.base, ![t].pc = fn.base + 1, ![t].stack = Dropped(@, Operand(t) + 1)]

\* Return from a function: its result stays on the stack.
ExecReturn(t) ==
  /\ Ready(t, {"Return"}, 0) /\ vm[t].callStack # << >>
  /\ LET frame == Last(vm[t].callStack) IN
     vm' = [vm EXCEPT ![t].callStack = Front(@), ![t].locals = frame.locals, ![t].code = frame.code, ![t].base = frame.base,
                      ![t].pc = frame.pc]

\* Return outside a function, Halt, and running past the end.
ExecHalt(t) ==
  /\ Running(t)
  /\ InCode(t) => Opcode(t) = "Halt" \/ (Opcode(t) = "Return" /\ vm[t].callStack = << >>)
  /\ Finish(t)

(***************************************************************************)
(* execAsync copies the body and the locals for a new VM in a goroutine    *)
(* and goes on behind the body with a future.  The new VM knows none of    *)
(* the program's functions.                                                *)
(***************************************************************************)
AsyncBody(t) == LET at == vm[t].pc - vm[t].base IN SubSeq(vm[t].code, at + 1, at + Operand(t))

ExecAsync(t) ==
  /\ Ready(t, {"Async"}, 0)
  /\ \E u \in Threads :
       /\ vm[u].status = "unused" /\ \A w \in 1..(u - 1) : vm[w].status # "unused"
       /\ vm' = [vm EXCEPT ![u] = Started(AsyncBody(t), 0, vm[t].locals),
                           ![t].stack = Pushed(@, <<"future", u>>), ![t].pc = @ + Operand(t) + 1,
                           ![t].dropped = @ \/ Full(vm[t].stack)]

Awaited(t) == Top(t, 1)[2]

\* A value that is no future is passed on.
ExecAwait(t) ==
  /\ Ready(t, {"Await"}, 1)
  /\ IF Is(Top(t, 1), "future")
     THEN vm[Awaited(t)].status = "ended" /\ Replace(t, 1, vm[Awaited(t)].result)
     ELSE Replace(t, 1, Top(t, 1))

\* DefaultAsyncTimeout passes before the future is settled; its goroutine goes on.
AwaitTimeout(t) ==
  /\ Ready(t, {"Await"}, 1) /\ Is(Top(t, 1), "future") /\ vm[Awaited(t)].status # "ended"
  /\ vm' = [vm EXCEPT ![t].status = "ended", ![t].result = Fail, ![t].timedOut = TRUE]

ExecTry(t) ==
  /\ Ready(t, {"Try"}, 1)
  /\ Replace(t, 1, CASE Is(Top(t, 1), "ok")  -> Top(t, 1)[2]
                     [] Is(Top(t, 1), "err") -> Fail
                     [] OTHER                -> Top(t, 1))

----------------------------------------------------------------------------
(* WebSocket instructions *)

ToldAs(op, args) == ArrayValue(<<StringValue(<<op>>)>> \o args)

\* A handler for statistics refuses, as does none; a room is named by a string.
CanTell(t, args) ==
  /\ vm[t].ws = "connection"
  /\ Opcode(t) \in {"WsBroadcastRoom", "WsJoinRoom", "WsLeaveRoom"} => Is(args[1], "string")

ExecWsTell(t) ==
  /\ Ready(t, DOMAIN WsTells, Needs(t))
  /\ LET args == Args(t, Needs(t)) IN
     IF CanTell(t, args)
     THEN vm' = [vm EXCEPT ![t].calls = Append(@, ToldAs(Opcode(t), args)), ![t].pc = @ + 1,
                           ![t].stack = Pushed(Dropped(@, Len(args)), NullValue)]
     ELSE Abort(t)

\* The queue of the connection overflows, or its socket was closed.
WsRefused(t) ==
  /\ Ready(t, {"WsSend", "WsClose"}, 1) /\ vm[t].ws = "connection"
  /\ vm' = [vm EXCEPT ![t].status = "ended", ![t].result = Fail, ![t].refused = TRUE]

\* The rooms the handler's calls leave the connection in; no room is full.
InRoom(t, r) ==
  \E i \in DOMAIN vm[t].calls :
     /\ vm[t].calls[i] = ToldAs("WsJoinRoom", <<r>>)
     /\ \A j \in DOMAIN vm[t].calls : vm[t].calls[j] = ToldAs("WsLeaveRoom", <<r>>) => j < i

RoomsJoined(t) == {r[2] : r \in {q \in {vm[t].calls[i][2][2] : i \in DOMAIN vm[t].calls} : InRoom(t, q)}}

RoomsOf(t) == IF vm[t].ws = "connection" THEN RoomsJoined(t) ELSE DOMAIN HubRooms

ClientsOf(t, r) == (IF r \in DOMAIN HubRooms THEN HubRooms[r] ELSE {}) \cup (IF r \in RoomsJoined(t) THEN {Client} ELSE {})

TextArray(f) == ArrayValue([i \in DOMAIN f |-> StringValue(f[i])])

\* Go lists a map in any order.
ExecWsGetRooms(t) ==
  /\ Ready(t, {"WsGetRooms"}, 0)
  /\ IF vm[t].ws = "none" THEN Abort(t) ELSE \E f \in Orders(RoomsOf(t)) : Replace(t, 0, TextArray(f))

ExecWsGetClients(t) ==
  /\ Ready(t, {"WsGetClients"}, 1)
  /\ IF vm[t].ws = "none" \/ ~Is(Top(t, 1), "string") THEN Abort(t)
     ELSE \E f \in Orders(ClientsOf(t, Top(t, 1)[2])) : Replace(t, 1, TextArray(f))

\* Without a handler both are 0.
ExecWsCount(t) ==
  /\ Ready(t, {"WsGetConnCount", "WsGetUptime"}, 0)
  /\ Replace(t, 0, IntValue(CASE vm[t].ws = "none"           -> 0
                             [] Opcode(t) = "WsGetConnCount" -> Cardinality(HubClients)
                             [] OTHER                        -> Clock))

Step(t) ==
  \/ Underflow(t) \/ ExecPush(t) \/ ExecPop(t) \/ ExecBinary(t) \/ ExecUnary(t) \/ ExecLoadVar(t) \/ ExecStoreVar(t)
  \/ ExecJump(t) \/ ExecJumpIfFalse(t) \/ ExecGetIter(t) \/ ExecIterHasNext(t) \/ ExecIterNext(t) \/ ExecGetIndex(t)
  \/ ExecGetField(t) \/ ExecBuildArray(t) \/ ExecBuildObject(t) \/ ExecCall(t) \/ ExecCallUser(t) \/ ExecReturn(t) \/ ExecHalt(t) \/ ExecAsync(t)
  \/ ExecAwait(t) \/ AwaitTimeout(t) \/ ExecTry(t)
  \/ ExecWsTell(t) \/ WsRefused(t) \/ ExecWsGetRooms(t) \/ ExecWsGetClients(t) \/ ExecWsCount(t)
=============================================================================
