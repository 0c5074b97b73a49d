----------------------------- MODULE MCServing -----------------------------
EXTENDS Serving

Num(n) == <<"lit", IntValue(n)>>
Word(s) == <<"lit", StringValue(s)>>
Var(n) == <<"var", n>>
Add(a, b) == <<"bin", "add", a, b>>
Give(e) == <<"return", e>>
CallOf(f, es) == <<"call", f, es>>
x == <<"x">>
y == <<"y">>
int == <<"int">>
str == <<"string">>
none == <<"none">>
T == <<"param", <<"T">>>>

Param(n, t) == [name |-> n, type |-> t, required |-> TRUE, default |-> none]
Optional(n, t, d) == [name |-> n, type |-> t, required |-> FALSE, default |-> d]
Fn(params, returns, body) == [params |-> params, returns |-> returns, typeParams |-> << >>, body |-> body]
Generic(params, returns, c, body) == [params |-> params, returns |-> returns, typeParams |-> <<<<<<"T">>, c>>>>, body |-> body]

Route(query, input, returns, body) ==
  [kind |-> "route", method |-> "GET", path |-> <<<<"a">>, <<":", "i">>>>, query |-> query, input |-> input, returns |-> returns, body |-> body]
Simple(body) == Route(<< >>, none, none, body)
Second(route) == [route EXCEPT !.method = "POST"]

\* The second route of a program is a POST route.
MethodOf(h) == <<"GET", "POST">>[h]
Request(h, input, query) ==
  [handler |-> 0, method |-> MethodOf(h), path |-> <<<<"a">>, <<"7">>>>, query |-> query, input |-> input, args |-> NoFields]
Plain(h) == Request(h, NullValue, << >>)
Direct(h, input, args) == [Plain(1) EXCEPT !.handler = h, !.input = input, !.args = args]

Program(files, main, handlers, requests, twins, assigns) ==
  [files |-> files, main |-> main, handlers |-> handlers, requests |-> requests, twins |-> twins, assigns |-> assigns]

----------------------------------------------------------------------------
(* Loading: what a main file may import and define in three items, a file  *)
(* a whose functions need one another, and a file b that imports from a.   *)

f == <<"f">>
g == <<"g">>
h == <<"h">>
K == <<"K">>
fa == Fn(<<Param(x, int)>>, int, <<Give(CallOf(g, <<Add(Var(x), Var(K))>>))>>)
ga == Fn(<<Param(x, int)>>, int, <<Give(Add(Var(x), Num(1)))>>)
fb == Fn(<<Param(x, int)>>, int, <<Give(Add(Var(x), Num(20)))>>)
fm == Fn(<<Param(x, int)>>, int, <<Give(Num(300))>>)

FileA == <<<<"function", f, fa>>, <<"function", g, ga>>, <<"const", K, Num(2), int>>>>
FileB(imports) == imports \o <<<<"function", f, fb>>, <<"function", h, fb>>>>
Import(path, names, alias) == <<"import", path, names, alias>>

\* File b is found as a package that is a directory, and file a from inside it.
mainFile == <<<<"m", "a", "i", "n">>>>
aFile == <<<<"a">>>>
bFile == <<<<"l", "i", "b">>, <<"b">>, <<"i", "n", "d", "e", "x">>>>
up == <<".", ".">>
aPath == <<"relative", <<<<"a">>>>>>
aPathAgain == <<"package", <<<<"l", "i", "b">>, up, <<"a">>>>>>
aPathFromB == <<"relative", <<up, up, <<"a">>>>>>
bPath == <<"package", <<<<"b">>>>>>
cPath == <<"package", <<<<"c">>>>>>

MCSearchPaths == <<<< >>, <<<<"l", "i", "b">>>>>>

OnlyMain(items) == mainFile :> items
MainAndA(items) == mainFile :> items @@ aFile :> FileA
AllFiles(items, imports) == mainFile :> items @@ aFile :> FileA @@ bFile :> FileB(imports)

MainItems ==
  {Import(aPath, << >>, <<"m">>), Import(aPathAgain, <<<<f, f>>, <<K, K>>>>, <<"m">>), Import(bPath, <<<<f, f>>, <<h, <<"k">>>>>>, <<"n">>),
   Import(cPath, << >>, << >>), <<"function", f, fm>>, <<"const", K, Num(50), int>>, <<"const", f, Num(9), none>>, <<"const", <<"v">>, Add(Var(K), Num(1)), int>>}

ImportsOfB == {<< >>, <<Import(aPathFromB, << >>, << >>)>>, <<Import(aPathFromB, <<<<f, f>>, <<g, <<"k">>>>>>, <<"m">>)>>}

Calling(name) == Simple(<<<<"assign", y, CallOf(name, <<Num(1)>>)>>, Give(Var(y))>>)

LoadingPrograms ==
  {Program(AllFiles(items, imports), mainFile, <<Calling(f), Second(Calling(<<"m", ".", "f">>))>>,
           <<Plain(1), Plain(2)>>, {}, FALSE) :
     items \in UNION {[1..n -> MainItems] : n \in 1..3}
                 \cup {<<item, <<"const", K, Num(50), t>>, <<"function", f, fm>>>> : item \in MainItems, t \in {str, <<"optional", int>>}},
     imports \in ImportsOfB}

----------------------------------------------------------------------------
(* Pairs of handlers that say the same in two forms *)

TwoAfter(items, a, b) ==
  Program(MainAndA(items \o <<Import(aPath, << >>, <<"m">>), Import(aPathAgain, <<<<f, f>>>>, <<"m">>),
                      <<"function", <<"i", "d">>, Generic(<<Param(x, T)>>, T, none, <<Give(Var(x))>>)>>,
                      <<"function", <<"n", "u">>, Generic(<<Param(x, T)>>, T, <<"named", <<"Numeric">>>>, <<Give(Add(Var(x), Var(x)))>>)>>,
                      <<"function", <<"o">>, Fn(<<Param(x, int), Optional(y, int, Add(Var(x), Num(1)))>>, int, <<Give(<<"bin", "sub", Var(x), Var(y)>>)>>)>>,
                      <<"function", <<"r">>, Fn(<<Param(x, int)>>, none, <<<<"if", <<"bin", "lt", Var(x), Num(1)>>,
                              <<Give(Num(0))>>, <<Give(CallOf(<<"r">>, <<<<"bin", "sub", Var(x), Num(1)>>>>))>>>>>>)>>,
                      <<"function", <<"e">>, Fn(<<Param(x, int)>>, none, <<Give(CallOf(<<"Err">>, <<Var(x)>>))>>)>>>>), mainFile, <<Simple(a), Second(Simple(b))>>, <<Plain(1), Plain(2)>>, {<<1, 2>>}, FALSE)

Two(a, b) == TwoAfter(<< >>, a, b)

Id == <<"i", "d">>
Nu == <<"n", "u">>
Both2(e1, e2) == Two(<<Give(e1)>>, <<Give(e2)>>)
Lambda(params, body) == <<"lambda", params, body, << >>>>
Double == Lambda(<<Param(x, none)>>, Add(Var(x), Var(x)))
Inputs == {Num(1), Word(<<"a">>), <<"array", <<Num(1)>>>>}
Result1(c, e) == CallOf(c, <<e>>)
okName == <<"Ok">>
errName == <<"Err">>
Method1(m, e) == CallOf(y \o <<".">> \o m, <<e>>)
Results == {Result1(okName, Num(1)), Result1(errName, Num(1))}
okName2 == <<"ok">>
Matching(e, c1, c2) == <<"match", e, <<<<<<"object", <<<<okName2, <<"bind">>>>>>>>, none, c1>>, <<<<"any">>, none, c2>>>>>>
map == <<"map">>

FormPrograms ==
  {Both2(CallOf(f, <<e>>), <<"pipe", e, Var(f)>>) : e \in Inputs}
  \cup {Both2(CallOf(f, <<e>>), CallOf(<<"m", ".", "f">>, <<e>>)) : e \in Inputs}
  \cup {Both2(CallOf(<<"o">>, <<e, Num(5)>>), <<"pipe", e, CallOf(<<"o">>, <<Num(5)>>)>>) : e \in Inputs}
  \cup {Both2(CallOf(<<"o">>, <<e>>), CallOf(<<"o">>, <<e, Add(e, Num(1))>>)) : e \in Inputs}
  \cup {Both2(CallOf(Id, <<e>>), <<"generic", Id, <<e>>, <<t>>>>) : e \in {Num(1)}, t \in {int}}
  \cup {Both2(CallOf(Nu, <<e>>), IF e = Num(1) THEN Num(2) ELSE CallOf(Nu, << >>)) : e \in Inputs}
  \cup {Both2(<<"generic", Nu, <<Word(<<"a">>)>>, <<int>>>>, CallOf(f, <<Word(<<"a">>)>>))}
  \cup {Both2(<<"pipe", e, Double>>, Add(e, e)) : e \in Inputs}
  \cup {Both2(CallOf(<<"r">>, <<Num(2)>>), Num(0)), Both2(Var(K), <<"field", Var(<<"m">>), K>>)}
  \cup {Two(<<<<"assign", y, r>>, Give(Method1(map, Double))>>,
            <<<<"assign", y, r>>, Give(IF r[2] = okName THEN Result1(okName, Num(2)) ELSE Var(y))>>) : r \in Results}
  \cup {Two(<<<<"assign", y, r>>, Give(Method1(<<"unwrapOr">>, Num(9)))>>,
            <<<<"assign", y, r>>, Give(Matching(Var(y), Var(okName2), Num(9)))>>) : r \in Results}
  \cup {Two(<<<<"assign", y, <<"array", <<Num(1), Num(2)>>>>>>, Give(CallOf(map, <<Var(y), Double>>))>>,
            <<Give(<<"array", <<Num(2), Num(4)>>>>)>>),
        Two(<<<<"assign", x, Num(5)>>, <<"assign", y, Lambda(<<Param(<<"z">>, none)>>, Add(Var(x), Var(<<"z">>)))>>, Give(<<"pipe", Num(1), Var(y)>>)>>,
            <<Give(Num(6))>>),
        Two(<<<<"assign", K, Num(5)>>, Give(CallOf(f, <<Num(1)>>))>>, <<<<"assign", K, Num(5)>>, Give(<<"pipe", Num(1), Var(f)>>)>>)}

\* Changing a field or an element, and what it should leave behind.
o == <<"o">>
Object(fields) == <<"object", fields>>
aField == <<"a">>
Changed(start, change, read) == <<<<"assign", o, start>>, change, Give(read)>>
Nested == Object(<<<<aField, <<"array", <<Num(1), Num(2)>>>>>>, <<y, Object(<<<<x, Num(4)>>>>)>>>>)
FieldAt(e, n) == <<"field", e, n>>
Refuses == <<Give(CallOf(okName, << >>))>>

StorePrograms ==
  {Two(Changed(Nested, <<s, o \o <<".">> \o n, e>>, FieldAt(Var(o), n)), <<Give(e)>>) : s \in {"assign", "reassign"}, n \in {aField, x}, e \in Inputs}
  \cup {Two(Changed(Nested, <<"store", o, <<<<"field", aField>>, <<"index", Num(i)>>>>, Num(7)>>, FieldAt(Var(o), aField)),
            IF i \in {0, 1} THEN <<Give(<<"array", IF i = 0 THEN <<Num(7), Num(2)>> ELSE <<Num(1), Num(7)>>>>)>> ELSE Refuses) : i \in -1..2}
  \cup {Two(Changed(Nested, <<"assign", o \o <<".">> \o y \o <<".">> \o n, Num(7)>>, FieldAt(FieldAt(Var(o), y), x)),
            <<Give(IF n = x THEN Num(7) ELSE Num(4))>>) : n \in {x, y}}
  \cup {Two(Changed(Nested, <<"if", <<"lit", True>>, <<<<"store", o, <<<<"index", Word(n)>>>>, Num(7)>>>>, << >>>>, FieldAt(Var(o), y)),
            IF n = y THEN <<Give(Num(7))>> ELSE <<Give(Object(<<<<x, Num(4)>>>>))>>) : n \in {x, y}}
  \cup {Two(Changed(c, <<"store", o, k, Num(7)>>, Var(o)), Refuses) :
          c \in {Num(1), <<"array", << >>>>}, k \in {<<<<"index", Num(0)>>>>, <<<<"field", x>>>>, <<<<"index", Word(x)>>, <<"index", Num(0)>>>>}}
  \cup {Two(Changed(Nested, <<"assign", <<"p", ".", "x">>, Num(1)>>, Var(o)), Refuses),
        Two(Changed(Nested, <<"assign", o \o <<".", "z", ".", "x">>, Num(1)>>, Var(o)), Refuses),
        Two(Changed(Nested, <<"expr", <<"await", Var(o)>>>>, Var(o)), Refuses)}

\* Macros that define globals: the handler reads one, its twin says what it should hold.
v == <<"v">>
Named(p) == <<"$", "{">> \o p \o <<"}">>
SetMacro == <<"macro", <<"s">>, <<x, y>>, <<<<"assign", Named(x), Add(Var(y), Num(1))>>>>>>
Twice == <<"macro", <<"t">>, <<x>>, <<<<"invoke", <<"s">>, <<Var(x), Num(1)>>>>, <<"invoke", <<"s">>, <<Var(x), Add(Var(v), Var(x))>>>>>>>>
Invoke(m, es) == <<"invoke", m, es>>
MacroPrograms ==
  {TwoAfter(<<SetMacro, Invoke(<<"s">>, <<Word(v), Num(3)>>)>>, <<Give(Var(v))>>, <<Give(Num(4))>>),
   TwoAfter(<<SetMacro, Twice, Invoke(<<"t">>, <<Var(v)>>)>>, <<Give(Var(v))>>, <<Give(Num(5))>>),
   TwoAfter(<<Invoke(<<"s">>, <<Word(v), Num(3)>>), SetMacro>>, <<Give(Var(v))>>, <<Give(Num(4))>>),
   TwoAfter(<<SetMacro, Invoke(<<"s">>, <<Word(v)>>)>>, <<Give(Var(v))>>, <<Give(Num(4))>>),
   TwoAfter(<<<<"macro", <<"s">>, << >>, <<Invoke(<<"s">>, << >>)>>>>, Invoke(<<"s">>, << >>)>>, << >>, << >>),
   TwoAfter(<<<<"macro", <<"s">>, <<x>>, <<<<"if", Var(x), <<<<"assign", Named(x), Num(1)>>>>, <<Give(Num(1))>>>>>>>>, Invoke(<<"s">>, <<<<"lit", True>>>>)>>, << >>, << >>)}

\* A handler that assigns to the name of a constant.
Assigning(p) == [p EXCEPT !.assigns = \E i \in DOMAIN p.handlers : \E k \in DOMAIN p.handlers[i].body : p.handlers[i].body[k] = <<"assign", K, Num(5)>>]

----------------------------------------------------------------------------
(* Input types, query parameters, commands, resolvers and tests *)

Query == <<[name |-> <<"q">>, type |-> int, required |-> TRUE, default |-> none, array |-> FALSE],
           [name |-> <<"s">>, type |-> <<"bool">>, required |-> FALSE, default |-> <<"lit", True>>, array |-> FALSE]>>
QueryOptional == <<[Query[1] EXCEPT !.default = Num(4)], [Query[2] EXCEPT !.name = <<"t">>, !.type = <<"array", int>>, !.array = TRUE, !.default = none]>>

InputType == <<"named", <<"I">>>>
Inputs2 == {NullValue, ObjectValue([k \in {x} |-> IntValue(1)]), ObjectValue([k \in {y} |-> IntValue(1)]), ObjectValue([k \in {x, y} |-> StringValue(<<"a">>)])}
Bodies == {<<Give(Var(<<"input">>))>>, <<Give(<<"field", Var(<<"query">>), <<"q">>>>)>>, <<Give(Add(Var(<<"i">>), Word(<<"b">>)))>>,
           <<<<"validate", <<"bin", "ne", Var(<<"i">>), Word(<<"7">>)>>>>, Give(Num(1))>>,
           <<Give(CallOf(<<"text">>, <<Word(<<"a">>)>>))>>, <<Give(CallOf(<<"redirect">>, <<Word(<<"/", "a">>)>>))>>}
QueryStrings == {<< >>, <<<<<<"q">>, <<"3">>>>>>, <<<<<<"q">>, <<"a">>>>>>, <<<<<<"q">>, <<"3">>>>, <<<<"t">>, <<"1">>>>, <<<<"t">>, <<"2">>>>, <<<<"u">>, <<"5">>>>>>}

Single(handler, requests) == Program(OnlyMain(<<<<"const", K, Num(2), int>>>>), mainFile, handler, requests, {}, FALSE)

RoutePrograms ==
  {Single(<<Simple(b), Second(Route(q, t, r, b))>>, <<Request(2, i, << >>)>>) :
     q \in {<< >>, Query, QueryOptional}, t \in {none, InputType}, r \in {none, int, InputType}, b \in Bodies, i \in Inputs2}

QueryPrograms ==
  {Single(<<Route(q, none, none, b)>>, <<Request(1, NullValue, s)>>) : q \in {<< >>, Query, QueryOptional}, b \in Bodies, s \in QueryStrings}

Args == {NoFields, [k \in {x} |-> IntValue(1)], [k \in {x, y} |-> StringValue(<<"a">>)]}
Handling(kind, p) ==
  [kind |-> kind, params |-> <<p, [name |-> y, type |-> int, required |-> FALSE, default |-> none]>>, returns |-> int, body |-> <<Give(Var(y)), Give(Var(x))>>]

CommandPrograms ==
  {Single(<<Handling(k, p), [Handling(k, p) EXCEPT !.body = << >>]>>,
          <<Direct(1, NullValue, a), Direct(2, NullValue, a)>>) :
     k \in {"command", "resolver"}, p \in {Param(x, int), Optional(x, int, Num(3)), [Optional(x, int, Num(3)) EXCEPT !.required = TRUE]}, a \in Args}

TestPrograms ==
  {Single(<<[kind |-> "test", body |-> <<<<"assert", <<"bin", "eq", Var(K), Num(n)>>>>, <<"assign", y, Num(1)>>>>]>>, <<Direct(1, NullValue, NoFields), Direct(1, NullValue, NoFields)>>) : n \in {2, 3}}

\* Pairs of requests to a program's other handlers, and pairs of requests to two routes that overlap.
Twins(handlers, a, b) == Program(OnlyMain(<<<<"const", K, Num(2), int>>>>), mainFile, handlers, <<a, b>>, {<<1, 2>>}, FALSE)
Body(kind, e) == [kind |-> kind, body |-> <<Give(e)>>]

HandlerPrograms ==
  {Twins(<<Body("event", Var(n)), Body("worker", Var(m))>>, Direct(1, i, NoFields), Direct(2, i, NoFields)) :
     n \in {<<"event">>, <<"input">>}, m \in {<<"message">>, <<"input">>}, i \in Inputs2}
  \cup {Twins(<<Body("cron", Add(Var(K), Num(1))), Body("cron", Num(3))>>, Direct(1, NullValue, NoFields), Direct(2, NullValue, NoFields))}
  \cup {Twins(<<Handling("resolver", p), Handling("grpc", p)>>, Direct(1, NullValue, a), Direct(2, NullValue, a)) :
          p \in {Param(x, int), Optional(x, int, Num(3)), [Optional(x, int, Num(3)) EXCEPT !.required = TRUE], Optional(x, int, none)}, a \in Args}

At(path, body) == [Simple(body) EXCEPT !.path = path]
Getting(path) == [Plain(1) EXCEPT !.path = path]
aPart == <<"a">>
iParam == <<":", "i">>
Overlapping == <<At(<<aPart>>, <<Give(Num(1))>>), At(<<aPart>>, <<Give(Num(2))>>), At(<<iParam>>, <<Give(Num(3))>>),
                 At(<<aPart, iParam>>, <<Give(Num(4))>>), At(<<aPart, aPart>>, <<Give(Num(5))>>), At(<<iParam, iParam>>, <<Give(Var(<<"i">>))>>)>>
Expecting(path, e) ==
  Twins(Overlapping \o <<Second(At(<<iParam>>, <<Give(e)>>))>>, Getting(path), [Plain(2) EXCEPT !.path = <<<<"7">>>>])

RouterPrograms ==
  {Twins(Overlapping, Getting(pair[1]), Getting(pair[2])) :
     pair \in {<<<<<<"a">>>>, <<<<"a">>, << >>>>>>, <<<<<<"7">>>>, <<<<"b">>, << >>>>>>, <<<<<<"a">>, <<"a">>>>, <<<<"a">>, <<"7">>>>>>,
                <<<<<<"b">>, <<"7">>>>, <<<<"c">>, <<"7">>>>>>, <<<< >>, <<<<"a">>, <<"a">>, <<"a">>>>>>,
                <<<<<<"a">>, << >>, <<"7">>>>, <<<<"7">>, << >>, <<"a">>>>>>}}
  \cup {Expecting(<<<<"a">>>>, Num(1)), Expecting(<<<<"7">>, << >>>>, Num(3)), Expecting(<<<<"a">>, <<"7">>>>, Num(4)),
         Expecting(<<<<"a">>, <<"a">>>>, Num(4)), Expecting(<<<<"b">>, <<"a">>>>, Word(<<"a">>))}
  \cup {Twins(Overlapping, [Plain(2) EXCEPT !.path = <<<<"a">>>>], [Getting(<<<<"a">>>>) EXCEPT !.method = "PUT"])}

MCConstants == {K}

MCTypeDefs == [k \in {<<"I">>} |->
  [fields |-> <<[name |-> x, type |-> int, required |-> TRUE, default |-> none],
                [name |-> y, type |-> int, required |-> TRUE, default |-> Num(8)]>>, traits |-> << >>, methods |-> << >>]]

MCPrograms ==
  LoadingPrograms \cup {Assigning(p) : p \in FormPrograms \cup StorePrograms \cup MacroPrograms} \cup RoutePrograms \cup CommandPrograms \cup TestPrograms
  \cup HandlerPrograms \cup RouterPrograms

MCCircularPrograms ==
  {Program(mainFile :> <<Import(aPath, << >>, << >>)>> @@ aFile :> <<Import(bPath, << >>, << >>)>> @@ bFile :> <<Import(aPathFromB, << >>, << >>)>>, mainFile,
           << >>, << >>, {}, FALSE)}
=============================================================================
