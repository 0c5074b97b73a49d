-------------------------- MODULE MCRouteExecution --------------------------
EXTENDS VerifiedCode, CompiledRoutes

Num(n) == <<"lit", IntValue(n)>>
Text(c) == <<"lit", StringValue(<<c>>)>>
Bool(b) == <<"lit", BoolValue(b)>>
Null == <<"lit", NullValue>>
Var(n) == <<"var", <<n>>>>
Bin(op, l, r) == <<"bin", op, l, r>>
Array(es) == <<"array", es>>
Assign(n, e) == <<"assign", <<n>>, e>>
Set(n, e) == <<"reassign", <<n>>, e>>
Return(e) == <<"return", e>>
If(c, a, b) == <<"if", c, a, b>>
Call(f, e) == <<"call", <<f>>, <<e>>>>
Await(e) == <<"await", e>>
Async(body) == <<"async", body>>
x == Var("x")
y == Var("y")
Add(a, b) == Bin("add", a, b)

\* Operators on all pairs of types, in a position where a deeper stack is needed or not.
Atoms == {x, Num(0), Num(-2), Text("a"), Bool(TRUE), Null, Array(<<Num(1)>>)}
Ops == {"add", "sub", "mul", "div", "mod", "eq", "ne", "lt", "le", "gt", "ge"}
Comparable == {<<a, b>> \in Atoms \X Atoms : ~(a[1] = "array" /\ b[1] = "array")}
Binaries ==
  {Bin(op, p[1], p[2]) : op \in Ops, p \in Comparable}
    \cup {Bin(op, Bin("lt", x, Num(1)), Bin("eq", x, Num(1))) : op \in {"and", "or"}}
    \cup {Bin("add", Array(<<x>>), Array(<<y>>)), Bin("lt", Text("b"), Text("a"))}
Expressions ==
  {<<"un", op, a>> : op \in {"not", "neg"}, a \in Atoms}
    \cup {Array(<<Num(1), x, Add(x, Add(x, Num(1)))>>), Bin("mul", Add(x, Num(1)), Bin("sub", x, Num(7))),
          <<"index", Array(<<Num(5), Num(6)>>), x>>, <<"index", Array(<<Num(5)>>), x>>,
          <<"object", <<<<<<"a">>, x>>, <<<<"b">>, Num(1)>>>>>>,
          <<"field", <<"object", <<<<<<"a">>, x>>>>>>, <<"a">>>>,
          <<"try", Call("Ok", x)>>, <<"try", Call("Err", Text("a"))>>, <<"try", x>>,
          Call("length", Text("a")), Call("length", Array(<<x, x>>)), Call("length", x), Call("none", x)}
    \cup {Call("Ok", x), Call("Err", Text("a")), <<"call", <<"Ok">>, << >>>>}
ExpressionRoutes == {<<Assign("y", Num(3)), Return(e)>> : e \in Binaries \cup Expressions}

\* Loops: x counts up first, so every loop ends.
Exit == {<<"break">>, <<"continue">>, Return(y), Set("x", Add(x, Num(1)))}
Choice == {If(Bin("eq", x, Num(1)), <<a>>, b) : a \in Exit, b \in {<< >>, <<Assign("z", x), Set("y", Var("z"))>>, <<<<"continue">>>>}}
            \cup {<<"switch", x, <<<<Num(1), <<a>>>>, <<Add(y, Num(2)), <<Assign("z", y), Set("y", Num(9))>>>>>>, d>> :
                    a \in Exit, d \in {<< >>, <<Assign("y", x)>>}}
            \cup {<<"while", Bin("lt", y, x), <<Set("y", Add(y, Num(1))), a>>>> : a \in {<<"break">>, <<"continue">>}}
            \cup {<<"expr", Add(y, Num(1))>>}
Tail2 == {Set("y", Add(y, x)), Assign("z", Add(x, y))}
WhileRoutes ==
  {<<Assign("y", Num(0)), <<"while", Bin("lt", x, Num(3)), <<Set("x", Add(x, Num(1))), s, u>>>>, Return(Array(<<x, y>>))>> :
      s \in Choice, u \in Choice \cup Tail2}

\* Iteration over arrays, objects and what cannot be iterated.
Iterable == {Array(<<Num(1), Num(2), x>>), Array(<< >>), <<"object", <<<<<<"a">>, x>>, <<<<"b">>, Num(2)>>>>>>, x}
ForExit == {<<"break">>, <<"continue">>, Return(Num(8))}
ForRoutes ==
  {<<Assign("y", Num(0)),
     <<"for", k, <<"v">>, it, <<If(Bin("eq", Var("v"), x), <<a>>, << >>), Set("y", Add(y, Num(1)))>>>>,
     Return(Array(<<y>>))>> : k \in {<< >>, <<"k">>}, it \in Iterable \ {<<"object", <<<<<<"a">>, x>>, <<<<"b">>, Num(2)>>>>>>}, a \in ForExit}
  \cup {<<Assign("y", Num(0)),
     <<"for", k, <<"v">>, it, <<<<"for", << >>, <<"w">>, Array(<<Num(1), Num(2)>>), <<Set("y", Add(y, Var("w"))), a>>>>,
                                Set("y", Add(y, Var("v")))>>>>,
     Return(Array(<<y>>))>> : k \in {<< >>, <<"k">>}, it \in Iterable, a \in {<<"break">>, <<"continue">>, <<"expr", x>>}}

\* Matching, with names that no other variable has.
Cases == {<<<<"lit", IntValue(1)>>, <<"none">>, Num(10)>>, <<<<"var", <<"m">>>>, Bin("lt", Var("m"), Num(2)), Add(Var("m"), x)>>,
          <<<<"any">>, Bin("eq", x, y), Num(11)>>}
Parts == {<<"match", x, <<a, b>>>> : a, b \in Cases}
  \cup {<<"match", <<"object", <<<<<<"a">>, x>>, <<<<"b">>, Num(1)>>>>>>,
          <<<<<<"object", <<<<<<"b">>, p>>, <<<<"a">>, <<"bind">>>>>>>>, <<"none">>, Var("a")>>, <<<<"any">>, <<"none">>, Num(12)>>>>>> :
            p \in {<<"lit", IntValue(1)>>, <<"lit", IntValue(2)>>, <<"var", <<"q">>>>}}
  \cup {<<"match", Array(<<x, Num(4)>>),
          <<<<<<"array", <<p, <<"var", <<"q">>>>>>, << >>>>, <<"none">>, Var("q")>>>>>> : p \in {<<"lit", IntValue(1)>>, <<"any">>}}
MatchRoutes == {<<Assign("y", Num(1)), Return(Add(Num(1), m))>> : m \in Parts} \cup {<<Assign("y", m), <<"expr", m>>, Return(y)>> : m \in Parts}

\* Declarations in blocks and shadowing of injected variables.
ScopeRoutes ==
  {<<If(Bin("eq", x, Num(0)), <<Assign(n, Num(5))>>, <<Assign(n, Num(6))>>), Assign("y", x), Return(Array(<<x, y>>))>> : n \in {"x", "y", "z"}}
  \cup {<<Assign("input", Num(4)), Assign("input", Add(Var("input"), x)), Return(Var("input"))>>,
        <<Assign("y", x), Assign("y", Num(1)), Return(y)>>, <<Set("y", x), Return(y)>>, <<Return(y)>>, <<<<"break">>>>,
        <<If(Bin("eq", x, Num(0)), <<Assign("z", Num(5))>>, << >>), Return(Var("z"))>>}

\* Async blocks; the variables change after the block started.
Work == {<<Return(x)>>, <<Assign("z", Add(x, y)), Return(Var("z"))>>, <<Return(Bin("div", y, x))>>}
AsyncRoutes ==
  {<<Assign("y", Num(2)), Assign("f", Async(a)), Set("x", Num(7)), Set("y", Num(8)), Assign("g", Async(b)), Return(e)>> :
     a \in Work, b \in Work,
     e \in {Array(<<Await(Var("f")), Await(Var("g"))>>), Array(<<Await(Var("g")), x, Await(Var("f"))>>), Add(Await(Var("g")), y)}}
  \cup {<<Assign("y", Num(2)), Assign("f", Async(<<Assign("h", Async(a)), Return(Add(Await(Var("h")), x))>>)), Return(Array(<<Await(Var("f")), y>>))>> :
     a \in Work}
  \cup {<<Assign("y", Num(0)),
          <<"for", << >>, <<"v">>, Array(<<Num(1), Num(2)>>), <<Assign("f", Async(<<Return(Add(Var("v"), y))>>)), a, Set("y", Await(Var("f")))>>>>,
          Return(y)>> : a \in {<<"expr", x>>, Set("y", Num(5)), If(Bin("eq", Var("v"), x), <<<<"break">>>>, << >>)}}

\* Branches and loops inside an async block; the first is a route of examples/async-demo.
BranchRoutes ==
  {<<Assign("f", Async(<<If(Bin("gt", x, Num(0)), <<Return(Text("a"))>>, <<Return(Text("b"))>>)>>)), Return(Await(Var("f")))>>,
   <<Assign("f", Async(<<Assign("y", Num(0)), <<"while", Bin("lt", y, x), <<Set("y", Add(y, Num(1)))>>>>, Return(y)>>)),
     Return(Await(Var("f")))>>}

Requests == {[n \in {<<"x">>, <<"input">>} |-> IntValue(i)] : i \in 0..2}

\* Built-ins that the interpreter and the VM both have, on strings, separators and bounds at the edges.
Str(cs) == <<"lit", StringValue(cs)>>
Calls2(f, es) == <<"call", f, es>>
Strings == {Str(<< >>), Str(<<"a">>), Str(<<" ", "a", "B", "a", " ">>), x}
BuiltinExprs ==
  {Calls2(<<f>>, <<s>>) : f \in {"upper", "lower", "trim", "toString", "typeOf", "print", "length"}, s \in Strings \cup {Num(-12), Bool(FALSE)}}
    \cup {Calls2(<<f>>, <<s, t>>) : f \in {"split", "contains", "startsWith", "endsWith"}, s \in Strings, t \in Strings}
    \cup {Calls2(<<"replace">>, <<s, t, Str(<<"c">>)>>) : s \in Strings, t \in Strings}
    \cup {Calls2(<<"substring">>, <<Str(<<"a", "b">>), a, b>>) : a \in {Num(-1), Num(0), x}, b \in {Num(1), x, Num(3)}}
    \cup {Calls2(<<"join">>, <<a, s>>) : a \in {Array(<< >>), Array(<<x, Str(<<"b", "c">>), Num(-30), Bool(TRUE)>>), x}, s \in Strings}
    \cup {Calls2(<<"reverse">>, <<Array(<<x, Num(4)>>)>>), Calls2(<<"time", ".", "now">>, << >>), Calls2(<<"now">>, << >>), Calls2(<<"print">>, << >>)}
BuiltinRoutes == {<<Return(e)>> : e \in BuiltinExprs}

\* What the optimizer changes: copies, constants and expressions in several variables, in branches and before, in and behind loops.
Sources == {x, Num(2), Bin("mul", x, Num(2)), Bin("add", Var("a"), Num(0)), Bin("and", Bool(TRUE), Bin("lt", Var("a"), Num(3))), Add(Add(Var("a"), x), x)}
StraightRoutes ==
  {<<Assign("a", e), Assign("b", f), Assign("d", g), Return(Array(<<Var("a"), Var("b"), Var("d"), Bin("eq", Var("a"), Var("b"))>>)), Assign("a", Num(0))>> :
     e \in {x, Num(1), Bin("sub", x, Num(1))}, f \in Sources, g \in Sources \cup {Var("b"), Bin("mod", Var("b"), Num(0))}}
RepeatedRoutes ==
  {<<Assign("a", e), Assign("b", f), Assign("b", g), Set("x", x), Return(Array(<<Var("a"), Var("b")>>))>> :
     e \in {x, Num(1)}, f \in {Num(3), Calls2(<<"length">>, <<Str(<<"a">>)>>), Var("a")}, g \in {x, Add(Var("a"), x), Add(Var("b"), x)}}
BranchedRoutes ==
  {<<Assign("a", e), If(c, <<Assign("b", f), Return(Var("b"))>>, <<Return(Var("a"))>>), Return(Num(9))>> :
     e \in {x, Num(1)}, f \in Sources, c \in {Bin("lt", Var("a"), Num(2)), Bin("eq", Num(1), Num(1)), Bin("or", Bool(FALSE), Bin("gt", x, Num(0)))}}
LoopedRoutes ==
  {<<Assign("a", e), Assign("b", Num(0)), <<"while", Bin("lt", Var("b"), x), <<Set("b", Add(Var("b"), Num(1))), s>>>>, Return(Array(<<Var("a"), Var("b")>>))>> :
     e \in {x, Num(1)}, s \in {Set("a", Add(Var("a"), Var("b"))), Assign("d", Add(x, Num(5))), If(Bin("eq", Var("b"), Num(1)), <<Set("a", Add(x, Num(7)))>>, << >>),
                                <<"for", << >>, <<"v">>, Array(<<x, Num(1)>>), <<Set("a", Add(Var("a"), Var("v")))>>>>,
                                <<"switch", x, <<<<Num(1), <<Set("b", Num(5))>>>>>>, << >>>>, Assign("d", Array(<<x>>))}}
\* Joins of a variable that one branch or both assign; behind them it is used, and so is one that was left alone.
JoinRoutes ==
  {<<Assign("a", e), Assign("d", Num(2)), If(c, <<Set("a", f)>>, g), Assign("b", Array(<<Var("a")>>)), Return(Array(<<Var("b"), Add(Var("d"), Var("a"))>>))>> :
     e \in {x, Num(1)}, c \in {Bin("lt", Var("a"), Num(2)), Bin("gt", x, Num(0))}, f \in {Add(x, Num(7)), Call("length", Text("a")), Num(7)},
     g \in {<< >>, <<Set("a", Bin("sub", x, Num(3)))>>, <<Set("a", x)>>}}

\* Variables that change after the optimizer noted what they hold: these routes are not justified.
StaleRoutes ==
  {<<Assign("a", Num(1)), If(Bin("gt", x, Num(1)), <<Set("a", Num(7))>>, << >>), Return(Var("a"))>>,
   <<Assign("a", x), Set("x", Add(x, Num(1))), Return(Var("a"))>>,
   <<Assign("a", Num(1)), <<"while", Bin("lt", x, Num(1)), <<Set("a", Num(7)), Set("x", Add(x, Num(1)))>>>>, Return(Var("a"))>>}

Param(n) == [name |-> <<n>>, type |-> <<"int">>, required |-> TRUE, default |-> <<"none">>]
Fn(body) == [params |-> <<Param("p"), Param("q")>>, returns |-> <<"int">>, typeParams |-> << >>, body |-> body]
InlinedBodies ==
  {<<Return(Add(Var("p"), Bin("mul", Var("q"), Var("p"))))>>, <<If(Bin("lt", Var("p"), Var("q")), <<Return(Var("q"))>>, <<Return(Var("p"))>>)>>,
   <<Assign("r", Add(Var("p"), Num(1))), Set("r", Bin("sub", Var("r"), Var("q"))), Return(Var("r"))>>,
   <<Set("p", Add(Var("p"), Var("q"))), Return(Var("p"))>>, <<Return(Calls2(<<"f">>, <<Var("p"), Var("q")>>))>>}

OptimizedRoutes ==
  {OptimizedRoute(b, level, p) :
     b \in StraightRoutes \cup BranchedRoutes \cup LoopedRoutes \cup JoinRoutes \cup StaleRoutes, level \in {"basic", "aggressive"}, p \in Requests}
    \cup {PeepholeRoute(b, p) : b \in RepeatedRoutes, p \in Requests}
    \cup {InlinedRoute(<<"f">>, Fn(b), <<e, Add(x, Num(1))>>, p) : b \in {b \in InlinedBodies : ShouldInline(<<"f">>, Fn(b))}, e \in {x, Num(3)}, p \in Requests}

\* Routes that are executed often.
HotExpressions ==
  {Bin(op, a, b) : op \in Ops, a \in {x, y, Num(0)}, b \in {x, y, Num(0), Num(1), Num(2)}}
    \cup {Bin(op, Bin(q, x, y), Bin(r, y, x)) : op, q, r \in {"add", "sub", "mul"}} \cup {<<"un", "neg", <<"un", "neg", x>>>>, Num(3)}
    \cup {<<"un", op, Bin(q, x, y)>> : op \in {"not", "neg"}, q \in {"sub", "lt"}}
    \cup {Bin(op, <<"un", "not", <<"un", "not", Bin("lt", x, y)>>>>, Bin("eq", x, y)) : op \in {"and", "or"}}
    \cup {Array(<<x, y, x>>), Array(<<Num(1), Text("a")>>), <<"index", Array(<<x, y>>), x>>, <<"object", << >>>>, <<"field", Var("input"), <<"a">>>>,
          Add(Text("a"), Text("b")), <<"try", x>>, Call("length", Array(<<x>>)), <<"object", <<<<<<"a">>, x>>>>>>}
BranchExpressions ==
  {Bin(op, a, b) : op \in {"add", "sub", "mul", "lt"}, a \in {x, y}, b \in {x, Num(0), Num(1)}}
    \cup {Bin("sub", Bin("mul", x, y), Bin("sub", y, x)), Num(3), Array(<<x, y, x>>), Array(<<Num(1), x>>), <<"index", Array(<<x, y>>), x>>}
\* y is one of the request's variables.
HotBodies ==
  {<<Return(e)>> : e \in HotExpressions}
    \cup {<<If(c, <<Set("x", e)>>, <<Assign("x", y)>>), Return(x)>> : c \in {Bin("lt", x, y), Bin("eq", x, y)}, e \in BranchExpressions}
    \cup {<<If(Bin("lt", x, y), <<Return(e)>>, <<s>>), Return(x)>> : s \in {Return(y), <<"expr", x>>, Set("x", y)}, e \in BranchExpressions}
    \cup {<<<<"while", Bin("lt", x, y), <<Set("x", Bin("sub", Bin("add", x, y), e)), s>>>>, Return(x)>> :
            s \in {<<"expr", x>>, If(Bin("lt", y, x), <<Set("y", y)>>, << >>), <<"break">>}, e \in {x, Num(0), Num(1)}}
    \cup {<<<<"for", << >>, <<"v">>, Array(<<x, y>>), <<Set("x", Var("v"))>>>>, Return(x)>>, <<Assign("a", Num(3)), Return(Var("a"))>>,
          <<Assign("a", Add(x, y)), Return(Var("a"))>>, << >>}
TwoRequests == {[n \in {<<"x">>, <<"y">>, <<"input">>} |-> IF n = <<"x">> THEN IntValue(i) ELSE IntValue(j)] : i, j \in 1..2}

InOrder(b, op) == S!InUseOrder(S!Prepared(b, op), op)

\* Functions of another module, called alone and between other values.
ImportedBodies ==
  {<<Return(Bin("sub", Var("p"), Var("q")))>>, <<If(Bin("lt", Var("p"), Var("q")), <<Return(Var("q"))>>, << >>), Return(Var("p"))>>,
   <<<<"while", Bin("lt", Var("p"), Var("q")), <<Set("p", Bin("add", Var("p"), Var("q")))>>>>, Return(Var("p"))>>,
   <<Return(Calls2(<<"g">>, <<Var("p")>>))>>, <<Return(Add(Var("p"), Num(1)))>>}
CallRoutes ==
  {<<Assign("p", Num(7)), Return(e)>> :
      e \in {Calls2(<<"f">>, <<x, Num(2)>>), Bin("sub", Num(9), Calls2(<<"f">>, <<x, Calls2(<<"f">>, <<Num(2), x>>)>>)), Array(<<Calls2(<<"f">>, <<x, x>>), Var("p")>>),
             Calls2(<<"f">>, <<x>>)}}
Imports(b) == [n \in {<<"f">>} |-> Fn(b)]

\* The other handlers, each with the variables it is given and a few of another.
Data == {IntValue(2), ObjectValue([k \in {<<"a">>} |-> IntValue(1)])}
Names == [function |-> {<<"x">>, <<"y">>}, command |-> {<<"x">>, <<"input">>}, cron |-> {}, event |-> {<<"event">>, <<"input">>}, worker |-> {<<"message">>, <<"input">>}]
HandlerBodies(n) ==
  {<<Return(<<"field", Var(n), <<"a">>>>)>>, <<Assign("z", Var(n)), If(Bin("eq", Num(1), Num(1)), <<Set("z", Add(Num(1), Num(2)))>>, <<Return(Num(7))>>), Return(Var("z"))>>,
   <<Assign("input", Num(4)), Return(Var("input"))>>, <<Set("z", Var(n)), Return(Null)>>, << >>,
   <<Assign("z", Num(0)), <<"for", << >>, <<"v">>, Array(<<Num(1), Num(2)>>), <<Set("z", Var("v"))>>>>, Return(Var("z"))>>}
HandlerRoutes ==
  UNION {{Handler(k, b, [v \in Names[k] |-> d]) : b \in UNION {HandlerBodies(n) : n \in {"x", "input", "event", "message"}}, d \in Data} : k \in DOMAIN Names}

HotRoutes == {Hot(Parsed(b, p)) : b \in {b \in HotBodies : InOrder(b, "Halt")}, p \in TwoRequests}
ImportingRoutes == {Importing(r, Imports(b), p) : r \in CallRoutes, b \in {b \in ImportedBodies : InOrder(b, "Return")}, p \in Requests}

----------------------------------------------------------------------------
(* Macros *)

Macro(n, params, body) == <<"macro", <<n>>, params, body>>
Invoke(n, es) == <<"invoke", <<n>>, es>>
In(p) == <<"$", "{", p, "}">>
MCMacroItems ==
  <<Macro("n", <<<<"p">>>>, <<<<"assign", In("p"), Add(Var("p"), Num(1))>>>>),
    Macro("s", <<<<"p">>, <<"q">>>>, <<<<"reassign", In("p"), Bin("sub", Var("p"), Var("q"))>>, <<"expr", Var("q")>>>>),
    Macro("i", <<<<"p">>, <<"q">>>>, <<If(Bin("lt", x, Var("p")), <<Return(Var("q"))>>, << >>), Invoke("s", <<y, Var("p")>>)>>),
    Macro("w", <<<<"p">>>>, <<<<"while", Bin("lt", Var("p"), Num(2)), <<<<"reassign", In("p"), Add(Var("p"), Num(1))>>>>>>>>),
    Macro("f", <<<<"p">>, <<"q">>>>, <<<<"for", << >>, <<"v">>, Array(<<Var("p"), <<"field", <<"object", <<<<<<"a">>, Var("q")>>>>>>, <<"a">>>>>>),
                                <<Set("y", Add(Var("v"), <<"index", Array(<<Var("q")>>), Num(0)>>))>>>>>>),
    Macro("t", <<<<"p">>>>, <<Return(Array(<<Str(<<"a">> \o In("p")), Calls2(<<"length">>, <<Str(In("p"))>>), <<"un", "neg", Var("p")>>>>))>>),
    Macro("r", <<<<"p">>, <<"q">>>>, <<<<"route", <<"/">> \o In("p") \o <<"/", ":", "x">>, <<Assign("y", Var("q")), Return(Add(x, Var("y")))>>>>,
                              <<"route", <<"/">>, <<Return(Num(0))>>>>>>),
    Macro("m", <<<<"p">>>>, <<Invoke("r", <<Var("p"), Add(Var("p"), Num(2))>>)>>),
    Macro("d", <<<<"p">>>>, <<Invoke("d", <<Var("p")>>)>>)>>

MacroStatements ==
  {Invoke("n", <<y>>), Invoke("s", <<y, x>>), Invoke("s", <<y, Num(3)>>), Invoke("i", <<Num(1), y>>), Invoke("i", <<y, Add(x, y)>>), Invoke("w", <<x>>),
   Invoke("f", <<x, y>>), Invoke("t", <<x>>), Invoke("t", <<Num(-4)>>), Invoke("n", <<x, y>>), Invoke("z", << >>), Invoke("d", <<x>>)}
InBlock(s) ==
  {s, If(Bin("lt", x, Num(1)), <<s>>, <<Set("y", Num(4)), s>>), <<"while", Bin("lt", x, Num(2)), <<Set("x", Add(x, Num(1))), s>>>>,
   <<"for", << >>, <<"u">>, Array(<<x, Num(1)>>), <<s>>>>, <<"switch", x, <<<<Num(1), <<s>>>>, <<Num(0), <<Return(x)>>>>>>, <<s, Set("y", x)>>>>}
InvokingRoutes == UNION {{<<Assign("y", Num(1)), b, Return(Array(<<x, y>>))>> : b \in InBlock(s)} : s \in MacroStatements}

RouteItem(body) == <<"route", <<"/", "a", "/", ":", "x">>, body>>
MacroPrograms ==
  {FromModule(<<RouteItem(b)>>, b, r) : b \in InvokingRoutes, r \in Requests}
         \cup {FromModule(<<Invoke("m", <<Num(3)>>), RouteItem(<<Return(x)>>)>>, <<Assign("y", Add(Num(3), Num(2))), Return(Add(x, y))>>, r) : r \in Requests}
         \cup {FromModule(<<Invoke("n", <<Num(3)>>), <<"type", <<"T">>>>, RouteItem(<<Return(Num(9))>>)>>, <<Return(Num(9))>>, r) : r \in Requests}
         \cup {FromModule(<<<<"type", <<"T">>>>>>, << >>, r) : r \in Requests} \cup {FromModule(<<Invoke("z", << >>)>>, << >>, r) : r \in Requests}

----------------------------------------------------------------------------
(* WebSocket events; told says whether to call ws or to write down what it is told. *)

MCHubRooms == [r \in {<<"a">>, <<"b">>} |-> IF r = <<"a">> THEN {<<"c">>} ELSE {}]
MCHubClients == {<<"c">>, <<"d">>}
MCClient == <<"d">>

Ws(op, es) == Calls2(<<"ws", ".", op>>, es)
Names3 == [send |-> "WsSend", broadcast |-> "WsBroadcast", broadcast_to_room |-> "WsBroadcastRoom", join |-> "WsJoinRoom", leave |-> "WsLeaveRoom", close |-> "WsClose"]
Tell(told, op, es) ==
  IF told THEN <<"expr", Ws(op, es)>> ELSE Set("log", Add(Var("log"), Array(<<Array(<<Text(Names3[op])>> \o es)>>)))
Ask(told, op, es, answer) == IF told THEN Ws(op, es) ELSE answer
Cannot(told, s) == IF told THEN s ELSE <<"expr", Bin("div", Num(1), Num(0))>>
Room == Var("room")
Input == Var("input")

EventBodies(told) ==
  <<<<Tell(told, "join", <<Room>>), Tell(told, "broadcast_to_room", <<Room, Input>>)>>,
    <<If(Bin("eq", Room, Text("a")), <<Tell(told, "join", <<Room>>), Tell(told, "send", <<Ask(told, "get_room_user_count", <<Room>>, Num(2))>>)>>,
                                     <<Tell(told, "leave", <<Room>>), Tell(told, "close", <<Text("b")>>)>>), Tell(told, "broadcast", <<Var("client")>>)>>,
    <<Tell(told, "join", <<Room>>), Tell(told, "join", <<Text("c")>>), Tell(told, "leave", <<Room>>), Tell(told, "send", <<Ask(told, "get_rooms", << >>, Array(<<Text("c")>>))>>),
      Tell(told, "leave", <<Text("c")>>), Tell(told, "send", <<Ask(told, "get_room_count", << >>, Num(0))>>)>>,
    <<Assign("y", Num(0)), <<"while", Bin("lt", y, Num(3)), <<Set("y", Add(y, Num(1))), Tell(told, "send", <<y>>), If(Bin("eq", Input, y), <<<<"break">>>>, << >>)>>>>,
      Tell(told, "broadcast", <<y>>)>>,
    <<<<"for", << >>, <<"v">>, Array(<<Room, Var("client")>>), <<Tell(told, "broadcast_to_room", <<Var("v"), Room>>)>>>>,
      If(Bin("eq", Room, Text("a")), <<Return(IF told THEN Num(1) ELSE Var("log"))>>, << >>), Tell(told, "send", <<Ask(told, "get_uptime", << >>, Num(17))>>)>>,
    <<Assign("f", Async(<<Return(Ask(told, "get_connection_count", << >>, Num(0)))>>)), Tell(told, "send", <<Await(Var("f"))>>),
      Tell(told, "send", <<Ask(told, "get_connection_count", << >>, Num(2))>>)>>,
    <<Tell(told, "send", <<Room>>), Assign("f", Async(<<Cannot(told, Tell(TRUE, "send", <<Room>>)), Return(Null)>>)), Tell(told, "send", <<Await(Var("f"))>>)>>,
    <<Tell(told, "send", <<Room>>), Cannot(told, Tell(TRUE, "join", <<Num(1)>>)), Tell(told, "send", <<Room>>)>>,
    <<IF told THEN <<"expr", Ws("close", << >>)>> ELSE Tell(FALSE, "close", <<Str(<< >>)>>)>>,
    <<IF told THEN <<"expr", Ws("broadcast", <<Room, Var("client")>>)>> ELSE Tell(FALSE, "broadcast", <<Room>>)>>,
    <<Assign("input", Room), Tell(told, "send", <<Input>>)>>, <<Tell(told, "send", <<Room, Room>>)>>>>

WrittenDown(body) == <<Assign("log", Array(<< >>))>> \o body \o <<Return(Var("log"))>>
EventLocals == {[n \in {<<"client">>, <<"room">>, <<"input">>} |-> CASE n = <<"client">> -> StringValue(MCClient) [] n = <<"room">> -> StringValue(r) [] OTHER -> i] :
                  r \in DOMAIN MCHubRooms, i \in {IntValue(2), StringValue(<<"a">>)}}
EventPrograms == {Event(EventBodies(TRUE)[i], WrittenDown(EventBodies(FALSE)[i]), p) : i \in DOMAIN EventBodies(TRUE), p \in EventLocals}

\* Statistics of the hub in a route.
StatBodies(told) ==
  <<<<Return(Array(<<Ask(told, "get_connection_count", << >>, Num(2)), Ask(told, "get_uptime", << >>, Num(17)), x>>))>>,
    <<Return(Ask(told, "get_room_count", << >>, Num(2)))>>, <<Return(Ask(told, "get_room_user_count", <<Text("a")>>, Num(1)))>>,
    <<Return(Ask(told, "get_room_clients", <<Text("b")>>, Array(<< >>)))>>, <<Return(Ask(told, "get_room_users", <<Text("a")>>, Array(<<Text("c")>>)))>>,
    <<Return(Ask(told, "get_room_users", <<Text("c")>>, Array(<< >>)))>>, <<Cannot(told, Tell(TRUE, "send", <<x>>)), Return(x)>>,
    <<Cannot(told, Tell(TRUE, "get_room_users", <<x>>)), Return(x)>>>>
StatPrograms == {Asking(StatBodies(TRUE)[i], StatBodies(FALSE)[i], p) : i \in DOMAIN StatBodies(TRUE), p \in Requests}

----------------------------------------------------------------------------
(* Programs *)

\* Routes whose constants and values are used in another order than they stand in.
MCHotPrograms ==
  Served({Hot(Parsed(<<Return(e)>>, p)) : p \in TwoRequests,
            e \in {Add(x, Num(1)), Bin("sub", Num(5), x), Array(<<Num(1), x>>), <<"object", <<<<<<"a">>, x>>>>>>, Call("length", Array(<<x>>))}})

MCPrograms ==
  Served(HotRoutes \cup ImportingRoutes \cup HandlerRoutes \cup {Parsed(b, p) :
            b \in ExpressionRoutes \cup WhileRoutes \cup ForRoutes \cup MatchRoutes \cup ScopeRoutes \cup AsyncRoutes \cup BuiltinRoutes, p \in Requests}
         \cup OptimizedRoutes \cup MacroPrograms \cup EventPrograms \cup StatPrograms)

MCEventPrograms == Served(EventPrograms \cup StatPrograms)

\* A route that asks for statistics is executed often.
MCHotStatPrograms == Served({Hot(r) : r \in StatPrograms})

MCBranchPrograms == Served({Parsed(b, p) : b \in BranchRoutes, p \in Requests})

----------------------------------------------------------------------------
(***************************************************************************)
(* Blocks of the programs: what may be on the stack and is bound is spread *)
(* from the beginning of the code along its instructions until nothing     *)
(* changes.  Heights and floors beyond the length of the code would grow   *)
(* or sink for ever.                                                       *)
(***************************************************************************)
Successors(b, i, at) ==
  LET op  == b.code[i][1]
      arg == b.code[i][2]
      At(d, names) == [height |-> at.height + d, floor |-> at.floor + d, bound |-> at.bound \cup names]
  IN  CASE op \in {"Halt", "Return"} -> {}
        [] op = "Jump"        -> {<<arg - b.base, At(0, {})>>}
        [] op = "JumpIfFalse" -> {<<arg - b.base, At(-1, {})>>, <<i + 1, At(-1, {})>>}
        [] op = "Async"       -> {<<i + arg + 1, At(1, {})>>}
        [] op = "StoreVar"    -> {<<i + 1, At(-1, {arg})>>}
        [] OTHER              -> {<<i + 1, At(Gives(op, arg) - Takes(op, arg), {})>>}

Met(known, j, at) ==
  IF j \in DOMAIN known
  THEN [height |-> Max({known[j].height, at.height}), floor |-> Min({known[j].floor, at.floor}), bound |-> known[j].bound \cap at.bound]
  ELSE at

RECURSIVE Spread(_, _, _)
Spread(b, known, work) ==
  IF work = {} THEN known
  ELSE LET i == Min(work)
           ends == known[i].height > Len(b.code) \/ known[i].floor < -Len(b.code)
           next == IF i \in DOMAIN b.code /\ ~ends THEN Successors(b, i, known[i]) ELSE {}
           changed == {s \in next : s[1] \notin DOMAIN known \/ Met(known, s[1], s[2]) # known[s[1]]}
           reached == {s[1] : s \in changed}
       IN  Spread(b, [j \in reached |-> Met(known, j, (CHOOSE s \in changed : s[1] = j)[2])] @@ known,
                  (work \ {i}) \cup reached)

RECURSIVE BlocksIn(_, _, _, _)
BlocksIn(code, base, function, names) ==
  LET known == Spread([code |-> code, base |-> base], 1 :> [height |-> 0, floor |-> 0, bound |-> names], {1})
      block == [code |-> code, base |-> base, function |-> function,
                height |-> [i \in DOMAIN known |-> known[i].height], floor |-> [i \in DOMAIN known |-> known[i].floor],
                bound |-> [i \in DOMAIN known |-> known[i].bound]]
  IN  {block} \cup UNION {BlocksIn(SubSeq(code, i + 1, i + code[i][2]), 0, FALSE, known[i].bound) :
                           i \in {i \in DOMAIN known \cap DOMAIN code : code[i][1] = "Async"}}

BlocksOf(p) ==
  BlocksIn(p.code, p.base, FALSE, DOMAIN p.params)
    \cup UNION {BlocksIn(p.functions[f].code, p.functions[f].base, TRUE, {}) : f \in DOMAIN p.functions}

AllBlocks == UNION {BlocksOf(p) : p \in {p \in Programs : p.tier # "ssa"}}

\* TLC evaluates what a constant is replaced by each time the constant is mentioned.
MCBlocks == AllBlocks
=============================================================================
