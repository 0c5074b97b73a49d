------------------------------- MODULE Serving -------------------------------
(***************************************************************************)
(* A program that is loaded (module Modules) and then serves requests in   *)
(* interpreted mode.  Every request has a goroutine of its own; all of     *)
(* them share one interpreter and its global environment, which no lock    *)
(* protects.  A step runs one statement of a handler's body; the tests of  *)
(* a program are run one after the other.                                  *)
(***************************************************************************)
EXTENDS Modules, Handlers

VARIABLE serving  \* for every request: status, the statement it is at, its scopes, its response

vars == <<program, stack, cache, functions, globals, status, atLoad, computed, serving>>

----------------------------------------------------------------------------
(* What module Modules takes from the interpreter *)

EvaluatedIn(e, env) == Eval(e, <<env>>)

\* The type checker is told the types of the program when all of it is loaded.
AtLoad == INSTANCE TypeChecker WITH TypeDefs <- NoFields, TraitDefs <- NoFields

FitsAtLoad(v, t) == AtLoad!Checks(v, t)

\* The nodes an invocation expands to; those that are no statements are passed over.
InvokedIn(above, item, env) ==
  LET expanded == ExpandMacroInvocation(RegisterMacros(above), item)
      done     == ExecAll(SelectSeq(expanded.nodes, IsStatement), <<env>>)
  IN  IF expanded.failed \/ done.sig # "normal" THEN Fail ELSE Head(done.env)

----------------------------------------------------------------------------
(* Loading, then the requests *)

Requests == DOMAIN serving

\* The handler of a request: createHandler asks the router, the commands and executors name it.
HandlerOf(r) ==
  LET request == program.requests[r] IN
  IF request.handler = 0 THEN Match(program.handlers, request) ELSE program.handlers[request.handler]

Waiting == [status |-> "waiting", at |-> 1, scopes |-> << >>, response |-> Refused(500)]

Init ==
  /\ LoadInit
  /\ serving = [r \in DOMAIN program.requests |-> Waiting]

Load == LoadNext /\ UNCHANGED serving

Answered(r) == serving[r].status = "answered"

Answer(s, response) == [s EXCEPT !.status = "answered", !.scopes = << >>, !.response = Sent(response)]

\* The variables of the request are bound before its body begins.
Begin(r) ==
  /\ ServesOnly /\ serving[r].status = "waiting"
  /\ HandlerOf(r).kind = "test" => \A q \in 1..(r - 1) : Answered(q)
  /\ \E b \in {BeginHandler(HandlerOf(r), Received(HandlerOf(r), program.requests[r]), globals)} :
     serving' = [serving EXCEPT ![r] = IF b.env = << >> THEN Answer(@, b.response)
                                       ELSE [@ EXCEPT !.status = "running", !.scopes = Tail(b.env)]]
  /\ UNCHANGED globals

\* The statement a request is at, executed on the globals as the other requests left them.
Executed(r) ==
  LET body == HandlerOf(r).body
      env  == <<globals>> \o serving[r].scopes
  IN  IF body = << >> THEN Normal(NullValue, env) ELSE Exec(body[serving[r].at], env)

Over(r, o) == o.sig # "normal" \/ serving[r].at >= Len(HandlerOf(r).body)

Run(r) ==
  /\ ServesOnly /\ serving[r].status = "running"
  /\ \E o \in {Executed(r)} :
     /\ globals' = Head(o.env)
     /\ serving' = [serving EXCEPT ![r] = IF Over(r, o) THEN Answer(@, HandlerResponse(HandlerOf(r), Result(o)))
                                          ELSE [@ EXCEPT !.at = @ + 1, !.scopes = Tail(o.env)]]

\* Loading failed, or every request is answered.
Done == status = "failed" \/ (status = "loaded" /\ \A r \in Requests : Answered(r))

Next == Load \/ (\E r \in Requests : Begin(r) \/ Run(r)) \/ (Done /\ UNCHANGED vars)

\* Where Load is enabled, written out.
CanLoad == status = "loading" /\ (AtItem /\ IsImport(Item) => Len(stack) < MaxNesting)

\* The handler of a request can go on: where Begin or Run is enabled, written out.
CanGoOn(r) ==
  /\ r \in Requests /\ status = "loaded" /\ ~Answered(r)
  /\ serving[r].status = "waiting" /\ HandlerOf(r).kind = "test" => \A q \in 1..(r - 1) : Answered(q)

GoesOn(r) == r \in Requests /\ (Begin(r) \/ Run(r))

\* The loader goes on, and so does the goroutine of every request: weak fairness.
Fairness ==
  /\ <>[]CanLoad => []<><<Load>>_vars
  /\ \A r \in 1..2 : <>[]CanGoOn(r) => []<><<GoesOn(r)>>_vars

Spec == Init /\ [][Next]_vars /\ Fairness

----------------------------------------------------------------------------
(* Properties *)

\* Types: a request that runs is inside its body with the scopes of its own, and one that is
\* answered has a response.
TypeOK ==
  /\ status \in {"loading", "loaded", "failed"}
  /\ cache \subseteq DOMAIN program.files
  /\ Len(stack) <= MaxNesting
  /\ \A r \in Requests :
       /\ serving[r].status \in {"waiting", "running", "answered"}
       /\ serving[r].status = "running" => Len(serving[r].scopes) = 1
       /\ serving[r].response.status \in 200..599

\* What a handler answers alone, on the globals of the loaded program.
Answers(handler, begun) ==
  Sent(IF begun.env = << >> THEN begun.response ELSE HandlerResponse(handler, Result(ExecAll(handler.body, begun.env))))

AnswerTo(handler, request) == Answers(handler, BeginHandler(handler, request, atLoad))

\* Requests that are served at the same time do not see one another: each is answered as if it were
\* alone.  (For programs whose handlers do not assign to the names of globals.)
RequestsIsolated ==
  ~program.assigns =>
     \A r \in Requests : Answered(r) => serving[r].response = AnswerTo(HandlerOf(r), Received(HandlerOf(r), program.requests[r]))

\* Two handlers that say the same in different forms - a call and a pipe, given and inferred type
\* arguments, a function and a lambda, an imported name and a name in a namespace, a method of a
\* result and a match - are answered alike.
FormsAgree ==
  \A pair \in program.twins :
     Answered(pair[1]) /\ Answered(pair[2]) => serving[pair[1]].response = serving[pair[2]].response

\* Loading a program whose files do not import one another in a circle ends, and every request is
\* answered.
RequestsEnd == <>Done

----------------------------------------------------------------------------
(* What the documents say and the code does not do *)

\* The query object contains the query parameters of the URL (docs/API_REFERENCE.md:1165): a route is
\* answered as ExecuteRoute answers it for the whole URL.
QueryReachesRoute == \A r \in Requests : Answered(r) => serving[r].response = AnswerTo(HandlerOf(r), program.requests[r])

\* "Circular imports are safe" (interpreter.go:310): no file is loaded while it is being loaded.
CircularSafe == \A i, j \in DOMAIN stack : i # j => stack[i].file # stack[j].file
=============================================================================
