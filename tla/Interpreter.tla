---------------------------- MODULE Interpreter ----------------------------
(***************************************************************************)
(* The tree-walking interpreter (pkg/interpreter/executor.go,              *)
(* evaluator.go, environment.go).  It is the reference the compiled route  *)
(* is compared with, so it is written as recursive functions of the syntax *)
(* tree.                                                                   *)
(*                                                                         *)
(* Expressions: <<"lit", v>>, <<"var", n>>, <<"bin", op, l, r>>,           *)
(* <<"un", op, e>>, <<"object", fields>> (pairs name, expression),         *)
(* <<"array", es>>, <<"field", e, n>>, <<"index", e, e>>,                  *)
(* <<"call", f, es>>, <<"match", e, cases>> (pattern, guard, body),        *)
(* <<"async", stmts>>, <<"await", e>>, <<"try", e>>, <<"pipe", e, e>>,     *)
(* <<"generic", f, es, types>> (a call with type arguments) and            *)
(* <<"lambda", params, body, stmts>>; <<"none">> is a guard or a body that *)
(* is absent.  Patterns: <<"lit", v>>, <<"var", n>>, <<"any">>,            *)
(* <<"object", fields>> (pairs name, pattern or <<"bind">>),               *)
(* <<"array", ps, rest>>.  Statements: <<"assign", n, e>>,                 *)
(* <<"reassign", n, e>>, <<"return", e>>, <<"if", e, then, else>>,         *)
(* <<"while", e, body>>, <<"for", key, n, e, body>>,                       *)
(* <<"switch", e, cases, default>>, <<"expr", e>>, <<"break">>,            *)
(* <<"continue">>, <<"validate", e>>, <<"assert", e>>, <<"store", n,       *)
(* steps, e>> (n[..].f = e, a step is <<"field", n>> or <<"index", e>>),   *)
(* <<"invoke", macro, es>>.  An environment is the sequence of its scopes, *)
(* the innermost last; the first one is the global one.                    *)
(*                                                                         *)
(* Evaluating gives a value and no new environment.  What this leaves out: *)
(* a function that reassigns a variable of its caller, a closure called    *)
(* after a variable it captured was reassigned, two names for one object   *)
(* or array, and the limit on the depth of the evaluation.                 *)
(***************************************************************************)
EXTENDS Builtins, TypeChecker, Macros

CONSTANTS MaxWhileIterations,
          ConstantNames,       \* what const declares
          MacroDefs            \* the macros the program has defined

----------------------------------------------------------------------------
(* Environments *)

Defining(env, n) == {i \in DOMAIN env : n \in DOMAIN env[i]}

Has(env, n) == Defining(env, n) # {}

Get(env, n) == IF Has(env, n) THEN env[Max(Defining(env, n))][n] ELSE Fail

Define(env, n, v) == [env EXCEPT ![Len(env)] = Bind(@, n, v)]

Set(env, n, v) == [env EXCEPT ![Max(Defining(env, n))] = Bind(@, n, v)]

Child(env) == Append(env, NoFields)

\* The scope of a call is marked: declarations stay on this side of it.
Boundary == <<"%function">>

FunctionChild(env) == Append(env, [k \in {Boundary} |-> NullValue])

WithinFunction(env, n) == \E i \in Defining(env, n) : \A j \in (i + 1)..Len(env) : Boundary \notin DOMAIN env[j]

\* A value that could not be computed leaves no environment.
DefineValue(env, n, v) == IF v = Fail THEN << >> ELSE Define(env, n, v)

DefineGlobal(env, n, v) == [env EXCEPT ![1] = Bind(@, n, v)]  \* Mutant: handlers share their variables.

\* $ n = v changes the nearest scope of the function that has n, or defines it in the innermost one.
SetOrDefine(env, n, v) == IF WithinFunction(env, n) THEN Set(env, n, v) ELSE Define(env, n, v)

----------------------------------------------------------------------------
(* Operators *)

\* Go compares interface values: two arrays or two objects panic, two results are different pointers.
EvalEq(a, b) ==
  IF Both(a, b, "array") \/ Both(a, b, "object") THEN Fail ELSE BoolValue(Scalar(a) /\ a = b)

\* The comparison of a switch, which gives false for what it does not know.
ValuesEqual(a, b) == Scalar(a) /\ a = b

Less(a, b) ==
  CASE Both(a, b, "int")    -> BoolValue(a[2] < b[2])
    [] Both(a, b, "string") -> BoolValue(StringLess(a[2], b[2]))
    [] OTHER                -> Fail

EvalNot(v) == IF Is(v, "bool") THEN BoolValue(~v[2]) ELSE Fail

EvalBinary(op, a, b) ==
  CASE op = "add" /\ Both(a, b, "int")    -> IntValue(a[2] + b[2])
    [] op = "add" /\ Both(a, b, "string") -> StringValue(a[2] \o b[2])
    [] op = "add" /\ Both(a, b, "array")  -> ArrayValue(a[2] \o b[2])
    [] op = "sub" /\ Both(a, b, "int")    -> IntValue(a[2] - b[2])
    [] op = "mul" /\ Both(a, b, "int")    -> IntValue(a[2] * b[2])
    [] op = "div" /\ Both(a, b, "int")    -> IF b[2] = 0 THEN Fail ELSE IntValue(Quo(a[2], b[2]))
    [] op = "mod" /\ Both(a, b, "int")    -> IF b[2] = 0 THEN Fail ELSE IntValue(Rem(a[2], b[2]))
    [] op = "eq"                          -> EvalEq(a, b)
    [] op = "ne"                          -> EvalNot(EvalEq(a, b))
    [] op = "lt"                          -> Less(a, b)
    [] op = "gt"                          -> Less(b, a)
    [] op = "le"                          -> EvalNot(Less(b, a))
    [] op = "ge"                          -> EvalNot(Less(a, b))
    [] OTHER                              -> Fail

EvalUnary(op, a) ==
  CASE op = "not" /\ Is(a, "bool") -> BoolValue(~a[2])
    [] op = "neg" /\ Is(a, "int")  -> IntValue(-a[2])
    [] OTHER                       -> Fail

EvalIndex(a, i) ==
  CASE Is(a, "array") /\ Is(i, "int") /\ i[2] >= 0 /\ i[2] < Len(a[2]) -> a[2][i[2] + 1]
    [] Is(a, "object") /\ Is(i, "string") /\ i[2] \in DOMAIN a[2]      -> a[2][i[2]]
    [] OTHER -> Fail

OkValue(r)  == IF Is(r, "ok") THEN r[2] ELSE NullValue
ErrValue(r) == IF Is(r, "err") THEN r[2] ELSE NullValue

ResultField(r, n) ==
  CASE n \in {<<"ok">>, <<"isOk">>}    -> BoolValue(Is(r, "ok"))
    [] n = <<"isErr">>                 -> BoolValue(Is(r, "err"))
    [] n \in {<<"error">>, <<"err">>}  -> ErrValue(r)
    [] n = <<"value">>                 -> OkValue(r)
    [] OTHER                           -> Fail

\* Reading a field an object does not have gives null.  (A constant of a namespace is a declaration,
\* whose value is computed when it is read.)
EvalField(o, n) ==
  CASE Is(o, "object")           -> IF n \in DOMAIN o[2] THEN o[2][n] ELSE NullValue
    [] o[1] \in {"ok", "err"}    -> ResultField(o, n)
    [] OTHER                     -> Fail

----------------------------------------------------------------------------
(* Statements and expressions.  Executing gives the signal that ends it    *)
(* (the special errors of executor.go), its value and the environment.     *)

Outcome(sig, val, env) == [sig |-> sig, val |-> val, env |-> env]

Normal(val, env) == Outcome("normal", val, env)

Raised(env) == Outcome("error", Fail, env)

\* Leave the child scope a block was executed in.
Leave(r) == [r EXCEPT !.env = Front(@)]

\* Expressions, statements and calls contain each other: their recursions go through this one.
RECURSIVE Walk(_, _, _)

Eval(e, env) == Walk("expression", e, env)

Exec(s, env) == Walk("statement", s, env)

CallFunction(fn, args, env) == Walk("call", <<fn, args>>, env)

\* Statements run in order until one raises a signal; the value is that of the last one run.
ExecAll(stmts, env) ==
  LET step(r, s) == IF r.sig = "normal" THEN Exec(s, r.env) ELSE r
  IN  FoldLeft(step, Normal(NullValue, env), stmts)

EvalAll(es, env) == [i \in DOMAIN es |-> Eval(es[i], env)]

AnyFails(vs) == \E i \in DOMAIN vs : vs[i] = Fail

\* Logical operators evaluate their right operand only when they need it.
EvalLogical(op, l, r, env) ==
  LET a == Eval(l, env) IN
  CASE ~Is(a, "bool")        -> Fail
    [] a[2] = (op = "or")    -> a
    [] OTHER                 -> LET b == Eval(r, env) IN IF Is(b, "bool") THEN b ELSE Fail

\* A later field of the same name wins.
EvalObject(fields, env) ==
  LET vs == [i \in DOMAIN fields |-> Eval(fields[i][2], env)] IN
  IF AnyFails(vs) THEN Fail
  ELSE ObjectValue([k \in {fields[i][1] : i \in DOMAIN fields} |->
                      vs[Max({i \in DOMAIN fields : fields[i][1] = k})]])

\* The future of an async block holds what its goroutine computes; the block starts at once here.
EvalAsync(body, env) ==
  LET r == ExecAll(body, Child(env)) IN <<"future", IF r.sig \in {"normal", "return"} THEN r.val ELSE Fail>>

EvalAwait(v) == IF Is(v, "future") THEN v[2] ELSE Fail

EvalTry(v) ==
  CASE Is(v, "ok")  -> v[2]
    [] Is(v, "err") -> Fail
    [] OTHER        -> v

----------------------------------------------------------------------------
(* Functions, closures and methods                                         *)
(* A function is a record of its parameters (name, type, required,         *)
(* default), the type it returns, its type parameters (name, constraint)   *)
(* and its body.                                                           *)

Result(r) == IF r.sig \in {"normal", "return"} THEN r.val ELSE Fail

\* The arguments are bound in the environment of the caller: a function sees the caller's variables.
ArgumentOf(p, args, i, fnEnv) ==
  CASE i <= Len(args)             -> args[i]
    [] p.default # <<"none">>     -> Eval(p.default, fnEnv)
    [] p.required                 -> Fail
    [] OTHER                      -> NullValue

Checked(v, t) == IF v = Fail \/ ~Checks(v, t) THEN Fail ELSE v

BindArgument(fnEnv, p, args, i) == DefineValue(fnEnv, p.name, Checked(ArgumentOf(p, args, i, fnEnv), p.type))

BindArguments(params, args, env) ==
  FoldLeftDomain(LAMBDA fnEnv, i : IF fnEnv = << >> THEN << >> ELSE BindArgument(fnEnv, params[i], args, i), FunctionChild(env), params)

FunctionBody(fn, fnEnv) == IF fnEnv = << >> THEN Fail ELSE Result(ExecAll(fn.body, fnEnv))

ExecuteFunction(fn, args, env) ==
  IF Len(args) > Len(fn.params) THEN Fail ELSE Checked(FunctionBody(fn, BindArguments(fn.params, args, env)), fn.returns)

\* The type arguments are given or inferred from the values.
CallGeneric(f, types, args, env) ==
  LET binding == IF types = << >> THEN InferredBinding(f[2], args)
                 ELSE [n \in Names(f[2].typeParams) |-> types[SelectInSeq(f[2].typeParams, LAMBDA p : p[1] = n)]]
  IN  CASE ~Is(f, "function")                                         -> Fail
        [] types # << >> /\ Len(types) # Len(f[2].typeParams)          -> Fail
        [] ~Instantiable(f[2], binding) \/ Len(args) # Len(f[2].params) -> Fail
        [] OTHER                                                       -> CallFunction(Instantiated(f[2], binding), args, env)

\* Further arguments of a closure are ignored, and its parameters are not checked.
BindLambda(env, p, args, i) ==
  CASE i <= Len(args)         -> Define(env, p.name, args[i])
    [] p.default # <<"none">> -> DefineValue(env, p.name, Eval(p.default, env))
    [] p.required             -> << >>
    [] OTHER                  -> Define(env, p.name, NullValue)

LambdaBody(f, env) ==
  CASE f.body # <<"none">> -> Eval(f.body, env)
    [] f.block # << >>     -> Result(ExecAll(f.block, env))
    [] OTHER               -> NullValue

CallLambda(f, args) ==
  LET env == FoldLeftDomain(LAMBDA bound, i : IF bound = << >> THEN << >> ELSE BindLambda(bound, f.params[i], args, i), FunctionChild(f.env), f.params)
  IN  IF env = << >> THEN Fail ELSE LambdaBody(f, env)

\* A callback: a function runs in an environment that has nothing but its parameters.
CallCallable(f, args) ==
  CASE Is(f, "lambda")   -> CallLambda(f[2], args)
    [] Is(f, "function") -> Result(ExecAll(f[2].body,
         <<[n \in {f[2].params[i].name : i \in 1..Min({Len(args), Len(f[2].params)})} |-> args[SelectInSeq(f[2].params, LAMBDA p : p.name = n)]]>>))
    [] OTHER             -> Fail

Reduce(args) ==
  IF Len(args) = 3 /\ Is(args[1], "array")
  THEN FoldLeft(LAMBDA acc, v : IF acc = Fail THEN Fail ELSE CallCallable(args[2], <<acc, v>>), args[3], args[1][2]) ELSE Fail

\* The comparator says that a belongs before b.
Before(f, a, b) == LET v == CallCallable(f, <<a, b>>) IN v = True \/ (Is(v, "int") /\ v[2] < 0)

\* A comparator that fails does so on every pair.
SortBy(f, s) ==
  IF CallCallable(f, SubSeq(s, 1, 2))[1] \in {"int", "bool"} THEN Sorted(s, [p \in (DOMAIN s) \X (DOMAIN s) |-> Before(f, s[p[1]], s[p[2]])]) ELSE Fail

SortArray(args) ==
  CASE Len(args) \notin 1..2 \/ ~Is(args[1], "array") -> Fail
    [] Len(args[1][2]) < 2                            -> args[1]
    [] Len(args) = 1                                  -> SortedByDefault(args[1][2])
    [] OTHER                                          -> SortBy(args[2], args[1][2])

IterateArray(f, args) ==
  IF Len(args) = 2 /\ Is(args[1], "array")
  THEN Iterated(f, [i \in DOMAIN args[1][2] |-> CallCallable(args[2], <<args[1][2][i]>>)], args[1][2]) ELSE Fail

CallBuiltin(f, args) ==
  CASE f \in {<<"map">>, <<"filter">>, <<"find">>, <<"some">>, <<"every">>} -> IterateArray(f, args)
    [] f = <<"reduce">>                                                     -> Reduce(args)
    [] f = <<"sort">>                                                       -> SortArray(args)
    [] OTHER                                                                -> Builtin(f, args)

\* The function given to a method of a result: its first parameter is bound, if it has one.
CallFnArg(f, v, env) ==
  LET bound(params, outer) == IF params = << >> THEN FunctionChild(outer) ELSE Define(FunctionChild(outer), params[1].name, v) IN
  CASE Is(f, "function") -> Result(ExecAll(f[2].body, bound(f[2].params, env)))
    [] Is(f, "lambda")   -> LambdaBody(f[2], bound(f[2].params, f[2].env))
    [] OTHER             -> Fail

\* andThen and orElse wrap what is no result yet.
Wrapped(v, wraps) ==
  CASE v = Fail                           -> Fail
    [] wraps /\ v[1] \in {"ok", "err"}    -> v
    [] OTHER                              -> ResultOk(v)

ResultMethod(r, method, args, env) ==
  CASE method = <<"isOk">>      -> BoolValue(Is(r, "ok"))
    [] method = <<"isErr">>     -> BoolValue(Is(r, "err"))
    [] method = <<"unwrap">>    -> IF Is(r, "ok") THEN r[2] ELSE Fail
    [] method = <<"unwrapErr">> -> IF Is(r, "err") THEN r[2] ELSE Fail
    [] Len(args) # 1            -> Fail
    [] method = <<"unwrapOr">>  -> IF Is(r, "ok") THEN r[2] ELSE args[1]
    [] method = <<"map">>       -> IF Is(r, "ok") THEN Wrapped(CallFnArg(args[1], r[2], env), FALSE) ELSE r
    [] method = <<"mapErr">>    -> IF Is(r, "ok") THEN r
                                   ELSE LET v == CallFnArg(args[1], r[2], env) IN IF v = Fail THEN Fail ELSE ResultErr(v)
    [] method = <<"andThen">>   -> IF Is(r, "ok") THEN Wrapped(CallFnArg(args[1], r[2], env), TRUE) ELSE r
    [] method = <<"orElse">>    -> IF Is(r, "ok") THEN r ELSE Wrapped(CallFnArg(args[1], r[2], env), TRUE)
    [] OTHER                    -> Fail

\* a.b.f(args): the object a.b is read field by field.
Dot(name) == SelectInSeq(name, LAMBDA c : c = ".")

RECURSIVE Method(_, _, _, _)
Method(o, path, args, env) ==
  CASE o = Fail                                            -> Fail
    [] Dot(path) # 0                                       -> IF Is(o, "object") /\ SubSeq(path, 1, Dot(path) - 1) \in DOMAIN o[2]
                                                              THEN Method(o[2][SubSeq(path, 1, Dot(path) - 1)], SubSeq(path, Dot(path) + 1, Len(path)), args, env)
                                                              ELSE Fail
    [] path = <<"length">> /\ Is(o, "array")               -> IntValue(Len(o[2]))
    [] o[1] \in {"ok", "err"}                              -> ResultMethod(o, path, args, env)
    [] Is(o, "object") /\ path \in DOMAIN o[2]             -> IF Is(o[2][path], "function") THEN CallFunction(o[2][path][2], args, env) ELSE Fail
    [] OTHER                                               -> Fail

Call(f, args, env) ==
  CASE f \in BuiltinNames  -> CallBuiltin(f, args)
    [] Dot(f) # 0          -> Method(Get(env, SubSeq(f, 1, Dot(f) - 1)), SubSeq(f, Dot(f) + 1, Len(f)), args, env)
    [] ~Has(env, f)        -> Fail
    [] ~Is(Get(env, f), "function") -> Fail
    [] Get(env, f)[2].typeParams # << >> -> CallGeneric(Get(env, f), << >>, args, env)
    [] OTHER               -> CallFunction(Get(env, f)[2], args, env)

\* v |> f and v |> f(es) look f up as a variable, so f is no built-in.
PipeTo(f, args, env) ==
  CASE Fail \in {args[i] : i \in DOMAIN args} -> Fail
    [] Is(f, "function") -> CallFunction(f[2], args, env)
    [] Is(f, "lambda")   -> CallLambda(f[2], args)
    [] OTHER             -> Fail

\* Mutant: the piped value comes last.
EvalPipeLast(v, to, env) ==
  IF v = Fail THEN Fail
  ELSE IF to[1] = "call" THEN PipeTo(Get(env, to[2]), EvalAll(to[3], env) \o <<v>>, env) ELSE PipeTo(Eval(to, env), <<v>>, env)

EvalPipe(v, to, env) ==
  IF v = Fail THEN Fail
  ELSE IF to[1] = "call" THEN PipeTo(Get(env, to[2]), <<v>> \o EvalAll(to[3], env), env) ELSE PipeTo(Eval(to, env), <<v>>, env)

\* A result matches an object pattern by the fields it stands for.
FieldsOf(v) ==
  CASE Is(v, "object") -> v[2]
    [] Is(v, "ok")     -> [k \in {<<"ok">>, <<"value">>} |-> v[2]]
    [] Is(v, "err")    -> [k \in {<<"error">>, <<"err">>} |-> v[2]]

RECURSIVE Matched(_, _, _)

\* Matching gives the environment extended by the bindings, or << >> when the pattern does not match.
MatchField(env, v, f) ==
  CASE env = << >> \/ f[1] \notin DOMAIN FieldsOf(v) -> << >>
    [] f[2] = <<"bind">>                             -> Define(env, f[1], FieldsOf(v)[f[1]])
    [] OTHER                                         -> Matched(f[2], FieldsOf(v)[f[1]], env)

MatchElement(env, p, v) == IF env = << >> THEN << >> ELSE Matched(p, v, env)

MatchRest(env, rest, vs) == IF env = << >> \/ rest = << >> THEN env ELSE Define(env, rest, ArrayValue(vs))

LengthMatches(p, v) == Len(v[2]) = Len(p[2]) \/ (p[3] # << >> /\ Len(v[2]) > Len(p[2]))

Matched(p, v, env) ==
  CASE p[1] = "lit" -> IF EvalEq(p[2], v) = BoolValue(TRUE) THEN env ELSE << >>
    [] p[1] = "var" -> Define(env, p[2], v)
    [] p[1] = "any" -> env
    [] p[1] = "object" /\ v[1] \in {"object", "ok", "err"} ->
         FoldLeft(LAMBDA found, f : MatchField(found, v, f), env, p[2])
    [] p[1] = "array" /\ Is(v, "array") /\ LengthMatches(p, v) ->
         MatchRest(FoldLeftDomain(LAMBDA found, i : MatchElement(found, p[2][i], v[2][i]), env, p[2]),
                   p[3], SubSeq(v[2], Len(p[2]) + 1, Len(v[2])))
    [] OTHER -> << >>

\* The first case whose pattern matches and whose guard holds; null when there is none.
EvalGuard(guard, env) == IF guard = <<"none">> THEN BoolValue(TRUE) ELSE Eval(guard, env)

NoCase == <<"no case">>

EvalCase(case, v, env) ==
  LET found == Matched(case[1], v, Child(env))
      guard == EvalGuard(case[2], found)
  IN  CASE found = << >>            -> NoCase
        [] guard = BoolValue(TRUE)  -> Eval(case[3], found)
        [] guard = BoolValue(FALSE) -> NoCase
        [] OTHER                    -> Fail

EvalCases(cases, v, env) ==
  LET chosen == FoldLeft(LAMBDA so_far, case : IF so_far = NoCase THEN EvalCase(case, v, env) ELSE so_far, NoCase, cases)
  IN  IF chosen = NoCase THEN NullValue ELSE chosen

EvalLiteral(v) == v

EvalLambda(e, env) == <<"lambda", [params |-> e[2], body |-> e[3], block |-> e[4], env |-> env]>>

EvalOperands(op, a, b) == IF Fail \in {a, b} THEN Fail ELSE EvalBinary(op, a, b)

EvalBinaryOp(op, l, r, env) ==
  IF op \in {"and", "or"} THEN EvalLogical(op, l, r, env) ELSE EvalOperands(op, Eval(l, env), Eval(r, env))

EvalExpression(e, env) ==
  CASE e[1] = "lit"    -> EvalLiteral(e[2])
    [] e[1] = "var"    -> Get(env, e[2])
    [] e[1] = "bin"    -> EvalBinaryOp(e[2], e[3], e[4], env)
    [] e[1] = "un"     -> EvalUnary(e[2], Eval(e[3], env))
    [] e[1] = "object" -> EvalObject(e[2], env)
    [] e[1] = "array"  -> LET vs == EvalAll(e[2], env) IN IF AnyFails(vs) THEN Fail ELSE ArrayValue(vs)
    [] e[1] = "field"  -> LET v == EvalField(Eval(e[2], env), e[3]) IN IF Is(v, "declaration") THEN Eval(v[2], <<Head(env)>>) ELSE v
    [] e[1] = "index"  -> LET a == Eval(e[2], env) i == Eval(e[3], env) IN
                          IF Fail \in {a, i} THEN Fail ELSE EvalIndex(a, i)
    [] e[1] = "call"   -> IF e[2] = <<"now">> THEN IntValue(Clock)
                          ELSE LET vs == EvalAll(e[3], env) IN IF AnyFails(vs) THEN Fail ELSE Call(e[2], vs, env)
    [] e[1] = "generic" -> LET vs == EvalAll(e[3], env) IN IF AnyFails(vs) THEN Fail ELSE CallGeneric(Get(env, e[2]), e[4], vs, env)
    [] e[1] = "lambda" -> EvalLambda(e, env)
    [] e[1] = "pipe"   -> EvalPipe(Eval(e[2], env), e[3], env)
    [] e[1] = "match"  -> LET v == Eval(e[2], env) IN IF v = Fail THEN Fail ELSE EvalCases(e[3], v, env)
    [] e[1] = "async"  -> EvalAsync(e[2], env)
    [] e[1] = "await"  -> EvalAwait(Eval(e[2], env))
    [] e[1] = "try"    -> EvalTry(Eval(e[2], env))

\* The container with what is under the key replaced: an index has to be there, a name need not.
Placed(container, key, v) ==
  CASE Is(container, "array") /\ Is(key, "int") /\ key[2] >= 0 /\ key[2] < Len(container[2]) -> ArrayValue([container[2] EXCEPT ![key[2] + 1] = v])
    [] Is(container, "object") /\ Is(key, "string")                                          -> ObjectValue(Bind(container[2], key[2], v))
    [] OTHER                                                                                -> Fail

\* What the first i keys lead to.
Inside(container, keys, i) == FoldLeft(EvalIndex, container, SubSeq(keys, 1, i))

Rebuilt(container, keys, v) ==
  FoldRight(LAMBDA i, new : IF new = Fail THEN Fail ELSE Placed(Inside(container, keys, i - 1), keys[i], new), [i \in DOMAIN keys |-> i], v)

StoredInCopy(n, new, v, env) == IF Fail \in {new, v} THEN Raised(env) ELSE Normal(v, env)  \* Mutant: a copy is changed.

\* The object or array that n names is changed where it is, a constant and a caller's one too.
\* A result on the way to what is changed is left out.
Stored(n, new, v, env) == IF Fail \in {new, v} THEN Raised(env) ELSE Normal(v, Set(env, n, new))

StoreAt(n, keys, v, env) ==
  IF ~Has(env, n) \/ v = Fail \/ AnyFails(keys) THEN Raised(env) ELSE Stored(n, Rebuilt(Get(env, n), keys, v), v, env)

\* obj.a.b = v, with or without a dollar in front.
ExecFieldAssign(n, v, env) ==
  LET names == Split(n, <<".">>) IN StoreAt(names[1], [i \in 1..(Len(names) - 1) |-> StringValue(names[i + 1])], v, env)

ExecIndexAssign(n, steps, e, env) ==
  StoreAt(n, [i \in DOMAIN steps |-> IF steps[i][1] = "field" THEN StringValue(steps[i][2]) ELSE Eval(steps[i][2], env)], Eval(e, env), env)

ExecAssign(n, v, env) ==
  CASE v = Fail    -> Raised(env)
    [] Dot(n) # 0  -> ExecFieldAssign(n, v, env)
    [] OTHER       -> Normal(v, SetOrDefine(env, n, v))

\* The nearest scope that has n, on either side of a call's scope; a constant stays.
ExecReassign(n, v, env) ==
  CASE v = Fail                                  -> Raised(env)
    [] Dot(n) # 0                                -> ExecFieldAssign(n, v, env)
    [] Has(env, n) /\ n \notin ConstantNames     -> Normal(v, Set(env, n, v))
    [] OTHER                                     -> Raised(env)

ExecReturn(v, env) == IF v = Fail THEN Raised(env) ELSE Outcome("return", v, env)

\* A validation passes with true or null, an assertion with true.
ExecValidation(e, env) == IF Eval(e, env) \in {True, NullValue} THEN Normal(NullValue, env) ELSE Raised(env)

ExecAssert(e, env) == IF Eval(e, env) = True THEN Normal(True, env) ELSE Raised(env)

ExecBlock(stmts, env) == Leave(ExecAll(stmts, Child(env)))

ExecIf(s, env) ==
  LET c == Eval(s[2], env) IN
  IF Is(c, "bool") THEN IF c[2] THEN ExecBlock(s[3], env) ELSE ExecBlock(s[4], env) ELSE Raised(env)

RECURSIVE ExecWhile(_, _, _, _)

\* n iterations are done and last is what the latest one gave.
ExecWhile(s, env, n, last) ==
  LET c == Eval(s[2], env)
      r == ExecBlock(s[3], env)
  IN  IF n >= MaxWhileIterations \/ ~Is(c, "bool") THEN Raised(env)
      ELSE IF ~c[2] THEN Normal(last, env)
      ELSE CASE r.sig \in {"normal", "continue"} -> ExecWhile(s, r.env, n + 1, r.val)
             [] r.sig = "break"                  -> Normal(r.val, r.env)
             [] OTHER                            -> r

\* The pairs of key and value a for loop goes through; the order of an object's keys is not fixed.
Items(v) ==
  IF Is(v, "array") THEN [i \in DOMAIN v[2] |-> <<IntValue(i - 1), v[2][i]>>]
  ELSE LET keys == SetToSeq(DOMAIN v[2]) IN [i \in DOMAIN keys |-> <<StringValue(keys[i]), v[2][keys[i]]>>]

RECURSIVE ExecFor(_, _, _, _)
ExecFor(s, items, env, last) ==
  IF items = << >> THEN Normal(last, env)
  ELSE LET keyed == IF s[2] = << >> THEN Child(env) ELSE Define(Child(env), s[2], items[1][1])
           r == Leave(ExecAll(s[5], Define(keyed, s[3], items[1][2])))
       IN  CASE r.sig \in {"normal", "continue"} -> ExecFor(s, Tail(items), r.env, r.val)
             [] r.sig = "break"                  -> Normal(r.val, r.env)
             [] OTHER                            -> r

RECURSIVE ExecSwitch(_, _, _)

\* s is the switch with the cases that are still to try.
ExecSwitch(s, v, env) ==
  IF s[3] = << >> THEN IF s[4] = << >> THEN Normal(NullValue, env) ELSE ExecBlock(s[4], env)
  ELSE LET c == Eval(s[3][1][1], env) IN
       CASE c = Fail           -> Raised(env)
         [] ValuesEqual(v, c)  -> ExecBlock(s[3][1][2], env)
         [] OTHER              -> ExecSwitch([s EXCEPT ![3] = Tail(@)], v, env)

\* What an invocation expands to is executed in its place; a route cannot be.
ExecNode(r, node) ==
  CASE r.sig # "normal" -> r
    [] IsItem(node)     -> Raised(r.env)
    [] OTHER            -> Exec(node, r.env)

ExpandMacro(inv) == ExpandMacroInvocation(MacroDefs, inv)

ExecExpanded(expanded, env) ==
  IF expanded.failed THEN Raised(env) ELSE FoldLeft(ExecNode, Normal(NullValue, env), expanded.nodes)

ExecuteMacroInvocation(inv, env) == ExecExpanded(ExpandMacro(inv), env)

ExecStatement(s, env) ==
  CASE s[1] = "assign"   -> ExecAssign(s[2], Eval(s[3], env), env)
    [] s[1] = "reassign" -> ExecReassign(s[2], Eval(s[3], env), env)
    [] s[1] = "return"   -> ExecReturn(Eval(s[2], env), env)
    [] s[1] = "if"       -> ExecIf(s, env)
    [] s[1] = "while"    -> ExecWhile(s, env, 0, NullValue)
    [] s[1] = "for"      -> LET v == Eval(s[4], env) IN
                            IF v[1] \in {"array", "object"} THEN ExecFor(s, Items(v), env, NullValue) ELSE Raised(env)
    [] s[1] = "switch"   -> LET v == Eval(s[2], env) IN IF v = Fail THEN Raised(env) ELSE ExecSwitch(s, v, env)
    [] s[1] = "expr"     -> LET v == Eval(s[2], env) IN IF v = Fail THEN Raised(env) ELSE Normal(v, env)
    [] s[1] = "validate" -> ExecValidation(s[2], env)
    [] s[1] = "assert"   -> ExecAssert(s[2], env)
    [] s[1] = "store"    -> ExecIndexAssign(s[2], s[3], s[4], env)
    [] s[1] = "break"    -> Outcome("break", NullValue, env)
    [] s[1] = "continue" -> Outcome("continue", NullValue, env)
    [] s[1] = "invoke"   -> ExecuteMacroInvocation(s, env)

Walk(what, node, env) ==
  CASE what = "expression" -> EvalExpression(node, env)
    [] what = "statement"  -> ExecStatement(node, env)
    [] what = "call"       -> ExecuteFunction(node[1], node[2], env)

\* ExecuteRoute: the value of the route's body, or an error that the server answers with 500.
Interpret(body, globals, params) == Result(ExecAll(body, <<globals, params>>))
=============================================================================
