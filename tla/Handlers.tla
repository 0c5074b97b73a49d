------------------------------ MODULE Handlers ------------------------------
(***************************************************************************)
(* From a request to a route's handler (pkg/server/router.go), and what    *)
(* the interpreter does around the body of a handler (pkg/interpreter      *)
(* ExecuteRoute, ExecuteCommand and the others, query_params.go): the      *)
(* variables a request binds, and the response made of the body's value.   *)
(* cmd/glyph/handlers.go hands a request over and sends what comes back.   *)
(*                                                                         *)
(* A path is a sequence of strings, the empty one behind a slash at its    *)
(* end; in the path of a route a colon is in front of a parameter.  A      *)
(* query string is a sequence of pairs of name and value.  A request has   *)
(* path, method, query, input, args and handler: 0 if it comes over HTTP.  *)
(* A handler has kind and body, and besides: a route method, path, query,  *)
(* input and returns, a command params and returns, a resolver and a gRPC  *)
(* handler params.  Left out: injected providers, auth data, streamed      *)
(* (SSE) routes, and spaces around a path, which the router trims.         *)
(***************************************************************************)
EXTENDS Interpreter

Response(status, body) == [status |-> status, body |-> body, error |-> FALSE]

\* A response that comes with a Go error.
Refused(status) == [status |-> status, body |-> NullValue, error |-> TRUE]

----------------------------------------------------------------------------
(* The router *)

SplitPath(path) == SelectSeq(path, LAMBDA segment : segment # << >>)

ParseSegment(segment) == IF segment # << >> /\ Head(segment) = ":" THEN <<"param", Tail(segment)>> ELSE <<"part", segment>>

ParseSegments(segments) == [i \in DOMAIN segments |-> ParseSegment(segments[i])]

ParseRoutePattern(pattern) == ParseSegments(SplitPath(pattern))

MatchRouteLoosely(path, segments) == Len(path) = Len(segments)  \* Mutant: only the number of segments counts.

MatchRoute(path, segments) ==
  Len(path) = Len(segments) /\ \A i \in DOMAIN path : path[i][1] = "part" => path[i][2] = segments[i]

NoHandler == [kind |-> "none", body |-> << >>]

\* The routes of a method are tried in the order they were registered in, whatever their segments.
Match(handlers, request) ==
  LET at == SelectInSeq(handlers, LAMBDA h : h.kind = "route" /\ h.method = request.method /\ MatchRoute(ParseRoutePattern(h.path), SplitPath(request.path)))
  IN  IF at = 0 THEN NoHandler ELSE handlers[at]

----------------------------------------------------------------------------
(* Query parameters.  A declaration has name, type, required, default and  *)
(* array.                                                                  *)

RawParams(query) ==
  [n \in {query[i][1] : i \in DOMAIN query} |-> LET same == SelectSeq(query, LAMBDA p : p[1] = n) IN [i \in DOMAIN same |-> same[i][2]]]

TrueTexts == {BoolText(TRUE), <<"1">>, <<"y", "e", "s">>, <<"o", "n">>}
FalseTexts == {BoolText(FALSE), <<"0">>, <<"n", "o">>, <<"o", "f", "f">>, << >>}

ParseBool(text) ==
  CASE text \in TrueTexts  -> BoolValue(TRUE)
    [] text \in FalseTexts -> BoolValue(FALSE)
    [] OTHER               -> Fail

RECURSIVE ConvertValue(_, _)
ConvertValue(text, t) ==
  CASE t[1] = "int"   -> IF IsNumber(text) THEN IntValue(ParsedPrefix(text)) ELSE Fail
    [] t[1] = "bool"  -> ParseBool(Lower(Trim(text)))
    [] t[1] = "array" -> LET v == ConvertValue(text, t[2]) IN IF v = Fail THEN Fail ELSE ArrayValue(<<v>>)
    [] OTHER          -> StringValue(text)

ConvertToArray(texts, t) ==
  LET vs == [i \in DOMAIN texts |-> ConvertValue(texts[i], IF t[1] = "array" THEN t[2] ELSE <<"string">>)]
  IN  IF AnyFails(vs) THEN Fail ELSE ArrayValue(vs)

AutoConvert(text) ==
  CASE IsNumber(text)                                     -> IntValue(ParsedPrefix(text))
    [] Lower(text) \in {BoolText(TRUE), BoolText(FALSE)}  -> BoolValue(Lower(text) = BoolText(TRUE))
    [] OTHER                                              -> StringValue(text)

\* What a parameter that is not declared becomes: several values stay a list of strings.
Undeclared(texts) ==
  IF Len(texts) = 1 THEN AutoConvert(texts[1]) ELSE ArrayValue([i \in DOMAIN texts |-> StringValue(texts[i])])

ProcessQueryParams(raw, decls) ==
  LET converted(n) == LET i == SelectInSeq(decls, LAMBDA d : d.name = n) IN
        CASE i = 0          -> Undeclared(raw[n])
          [] decls[i].array -> ConvertToArray(raw[n], decls[i].type)
          [] OTHER          -> ConvertValue(raw[n][1], decls[i].type)
      missing(d) == d.required /\ d.default = <<"none">> /\ d.name \notin DOMAIN raw
  IN  IF (\E i \in DOMAIN decls : missing(decls[i])) \/ (\E n \in DOMAIN raw : converted(n) = Fail) THEN Fail
      ELSE ObjectValue([n \in DOMAIN raw |-> converted(n)])

WithField(object, n, v) == IF v = Fail THEN Fail ELSE ObjectValue(Bind(object[2], n, v))

\* Defaults for the names a declaration has and the object lacks.
Defaulted(object, decls, env) ==
  FoldLeft(LAMBDA o, d : IF o = Fail \/ d.default = <<"none">> \/ d.name \in DOMAIN o[2] THEN o
                         ELSE WithField(o, d.name, Eval(d.default, env)),
           object, decls)

----------------------------------------------------------------------------
(* ExecuteRoute *)

\* extractPathParams drops the slashes at the ends of a path only, the router those inside it too.
Trimmed(path) ==
  LET full == {i \in DOMAIN path : path[i] # << >>}
  IN  IF full = {} THEN << >> ELSE SubSeq(path, Min(full), Max(full))

PathMatches(path, actual) == MatchRoute(ParseSegments(Trimmed(path)), Trimmed(actual))

ParamsAt(path, segments) ==
  [n \in {path[i][2] : i \in {k \in DOMAIN path : path[k][1] = "param"}} |->
     StringValue(segments[Max({i \in DOMAIN path : path[i] = <<"param", n>>})])]

PathParams(path, actual) == ParamsAt(ParseSegments(Trimmed(path)), Trimmed(actual))

\* The environment of a body, or the response that ends the request before it.
Begun(env)       == [env |-> env, response |-> Response(200, NullValue)]
NotBegun(status) == [env |-> << >>, response |-> Refused(status)]

BindQuery(route, query, env) ==
  LET bound == Define(env, <<"query">>, query) IN
  FoldLeft(LAMBDA e, d : IF d.name \in DOMAIN query[2] THEN Define(e, d.name, query[2][d.name]) ELSE e, bound, route.query)

\* The body of the request, with the defaults of the route's input type, if it is valid for the type.
Valid(o, def) == IF o # Fail /\ ObjectChecks(o[2], def) THEN o ELSE Fail

Input(route, input, env) ==
  IF ~Defined(route.input) \/ ~Is(input, "object") THEN input
  ELSE Valid(Defaulted(input, TypeDefs[route.input[2]].fields, env), TypeDefs[route.input[2]])

BindInput(env, v) == IF v = Fail THEN NotBegun(400) ELSE Begun(Define(env, <<"input">>, v))

BindRequest(route, request, query, env) ==
  IF query = Fail THEN NotBegun(500)
  ELSE LET bound == BindQuery(route, query, env) IN BindInput(bound, Input(route, request.input, bound))

BindRoute(route, request, globals) ==
  LET env == <<globals, PathParams(route.path, request.path)>>
      raw == ProcessQueryParams(RawParams(request.query), route.query)
  IN  CASE ~PathMatches(route.path, request.path) -> NotBegun(500)
        [] raw = Fail                             -> NotBegun(400)
        [] OTHER                                  -> BindRequest(route, request, Defaulted(raw, route.query, env), env)

\* A redirection is not compared with the type the route returns; a text, a page and a blob are.
RouteResponse(route, v) ==
  CASE v = Fail                                             -> Refused(500)
    [] Is(v, "response") /\ v[2].type = "redirect"          -> Response(v[2].status, v)
    [] ~Checks(v, route.returns)                            -> Refused(500)
    [] Is(v, "response")                                    -> Response(v[2].status, v)
    [] OTHER                                                -> Response(200, v)

----------------------------------------------------------------------------
(* The other handlers *)

Given(args, p) == p.name \in DOMAIN args

\* The arguments of a command: a default comes before the complaint about a missing one.
CommandArgument(env, p, args) ==
  CASE env = << >>               -> << >>
    [] Given(args, p)            -> Define(env, p.name, args[p.name])
    [] p.default # <<"none">>    -> DefineValue(env, p.name, Eval(p.default, env))
    [] p.required                -> << >>
    [] OTHER                     -> env

\* The arguments of a resolver: it comes after it, and the rest are null.
ResolverArgument(env, p, args) ==
  CASE env = << >>               -> << >>
    [] Given(args, p)            -> Define(env, p.name, args[p.name])
    [] p.required                -> << >>
    [] p.default # <<"none">>    -> DefineValue(env, p.name, Eval(p.default, env))
    [] OTHER                     -> Define(env, p.name, NullValue)

\* The handler begins unless an argument is missing.
Bound(env) == IF env = << >> THEN NotBegun(500) ELSE Begun(env)

BindCommand(handler, request, globals) ==
  Bound(FoldLeft(LAMBDA env, p : CommandArgument(env, p, request.args), <<globals, NoFields>>, handler.params))

BindResolver(handler, request, globals) ==
  Bound(FoldLeft(LAMBDA env, p : ResolverArgument(env, p, request.args), <<globals, NoFields>>, handler.params))

\* A method of a service binds its arguments as a resolver does.
BindGRPC(handler, request, globals) == BindResolver(handler, request, globals)

\* A cron task and a test know the globals only.
BindTask(globals) == Begun(<<globals, NoFields>>)

BindEvent(data, globals)     == Begun(<<globals, [n \in {<<"event">>, <<"input">>} |-> data]>>)
BindMessage(message, globals) == Begun(<<globals, [n \in {<<"message">>, <<"input">>} |-> message]>>)

\* createHandler answers a request that no route matches.
NoRoute == [env |-> << >>, response |-> Response(404, NullValue)]

BeginHandler(handler, request, globals) ==
  CASE handler.kind = "none"            -> NoRoute
    [] handler.kind = "route"           -> BindRoute(handler, request, globals)
    [] handler.kind = "command"         -> BindCommand(handler, request, globals)
    [] handler.kind = "resolver"        -> BindResolver(handler, request, globals)
    [] handler.kind = "grpc"            -> BindGRPC(handler, request, globals)
    [] handler.kind = "event"           -> BindEvent(request.input, globals)
    [] handler.kind = "worker"          -> BindMessage(request.input, globals)
    [] handler.kind \in {"cron", "test"} -> BindTask(globals)

\* A test passes unless its body raises an error.
HandlerResponse(handler, v) ==
  CASE handler.kind = "route"                                    -> RouteResponse(handler, v)
    [] v = Fail                                                  -> Refused(500)
    [] handler.kind = "command" /\ ~Checks(v, handler.returns)   -> Refused(500)
    [] handler.kind = "test"                                     -> Response(200, True)
    [] OTHER                                                     -> Response(200, v)

\* executeRoute in cmd/glyph reads the body of these methods only, and hands the path over without
\* its query string ...
Received(handler, request) ==
  IF handler.kind # "route" THEN request
  ELSE [request EXCEPT !.query = << >>, !.input = IF request.method \in {"POST", "PUT", "PATCH"} THEN @ ELSE NullValue]

\* ... and createRouteHandler answers every error with 500.
Sent(response) == IF response.error THEN Refused(500) ELSE response
=============================================================================
