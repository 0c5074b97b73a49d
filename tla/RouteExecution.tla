--------------------------- MODULE RouteExecution ---------------------------
(***************************************************************************)
(* A compiled route serving one request (cmd/glyph/handlers.go), or one    *)
(* event of a WebSocket route (cmd/glyph/server.go): a fresh VM gets the   *)
(* variables as locals and executes the bytecode.  Its answer, or what it  *)
(* tells its connection, is compared with what the interpreter gives       *)
(* (module CompiledRoutes).                                                *)
(***************************************************************************)
EXTENDS VM

\* Records: code, address before it, the request's variables, the program's functions, the WebSocket
\* handler, what made the code ("baseline", "optimizer" or "ssa"), whether the optimizer is justified in what
\* it takes for granted, and the interpreter's answer.
CONSTANT Programs

VARIABLE program

vars == <<program, vm>>

Init ==
  /\ program \in Programs
  /\ vm = Load(program.code, program.base, program.params, program.functions, program.ws)

\* The route is answered and every async block has ended.
Idle == (\A t \in Threads : ~Running(t)) /\ UNCHANGED vars

Next == (\E t \in Threads : Step(t) /\ UNCHANGED program) \/ Idle

\* Go schedules every goroutine that can go on.
Fairness == \A t \in Threads : WF_vars(Step(t) /\ UNCHANGED program)

Spec == Init /\ [][Next]_vars /\ Fairness

----------------------------------------------------------------------------
(* Properties *)

ValueTypes == {"int", "bool", "string", "null", "array", "object", "ok", "err", "future", "error"}

\* The program counter of a running machine is inside its code or just behind it, whatever jumps it took
\* (patchJump, adjustJumpTargets), and the stack keeps to its limit.
CountersOK ==
  \A t \in Threads :
     /\ vm[t].status \in {"unused", "running", "ended"}
     /\ vm[t].status = "running" => vm[t].pc - vm[t].base \in 1..(Len(vm[t].code) + 1)
     /\ Len(vm[t].stack) <= MaxStackSize

\* Types of the machines.
TypeOK ==
  /\ CountersOK
  /\ \A t \in Threads :
       /\ \A i \in DOMAIN vm[t].stack : vm[t].stack[i][1] \in ValueTypes \ {"error"}
       /\ \A n \in DOMAIN vm[t].locals : vm[t].locals[n][1] \in ValueTypes \ {"error"}
       /\ vm[t].result[1] \in ValueTypes

Answered == vm[Main].status = "ended"

Disturbed == \E t \in Threads : vm[t].timedOut \/ vm[t].dropped \/ vm[t].refused

\* What an event is for are its calls; its value is thrown away.
Given == IF program.ws = "connection" /\ vm[Main].result # Fail THEN ArrayValue(vm[Main].calls) ELSE vm[Main].result

\* The bytecode of a route computes what the interpreter computes for it, errors included, however the
\* goroutines of its async blocks are scheduled; when an await timed out or a value was dropped
\* because the stack was full, the route may fail instead but never gives another value.  An event of a
\* WebSocket route makes the calls that are written, in this order, unless the connection refuses one.
Agrees == Given = program.answer \/ (vm[Main].result = Fail /\ Disturbed)

CompiledAgrees == Answered /\ program.tier = "baseline" => Agrees

\* Where the written route has a value, the tree the optimizer made of it (OptimizeStatements, its
\* tables of constants, copies and common expressions, moved, inlined and dropped statements) gives
\* the same one; only where the written route fails may it do anything else.  This holds of the texts for
\* which the passes are justified (module CompiledRoutes): a variable that branches or loops assign again may
\* not leave a constant or a copy behind in the tables, where it would outlive the join.
OptimizedKeepsValue == Answered /\ program.tier = "optimizer" /\ program.justified /\ program.answer # Fail => Agrees

\* "optimization produces same result as non-optimized code" (optimizer_test.go:430), of any text.  It is
\* false: the routes of the run include joins, loops and copies whose facts survive too long.
OptimizedKeepsAll == Answered /\ program.tier = "optimizer" /\ program.answer # Fail => Agrees

\* The code the JIT puts in the place of a route that is executed often gives what the written route gives,
\* where that has a value.  The lowering takes every value that is not a constant to be on the stack when it
\* is used (pushArg), so this is a property of the programs it was made for (InUseOrder).
HotKeepsValue == Answered /\ program.tier = "ssa" /\ program.answer # Fail => Agrees

\* Whatever loops, branches, cases and returns a machine went through, it leaves nothing on its stack
\* when it ends without an error; code of the JIT may leave constants.
StackBalanced ==
  program.tier # "ssa" => \A t \in Threads : vm[t].status = "ended" /\ vm[t].result # Fail => vm[t].stack = << >>

\* A variable the compiler resolved (symbolTable.Resolve) has a value when the VM loads it; only a function
\* may be called without one.
ResolvedIsBound ==
  \A t \in Threads : Ready(t, {"LoadVar"}, 0) /\ vm[t].callStack = << >> /\ program.tier # "ssa" => Operand(t) \in DOMAIN vm[t].locals

\* Every request is answered: the loops end and no await waits for ever.
RouteEnds == <>Answered
=============================================================================
