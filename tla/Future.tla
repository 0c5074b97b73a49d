-------------------------------- MODULE Future --------------------------------
(***************************************************************************)
(* Futures of the tree-walking interpreter: pkg/interpreter/future.go and  *)
(* the async/await evaluation of pkg/interpreter/evaluator.go.             *)
(*                                                                         *)
(* N futures (the leaves 1..N) are computed by goroutines started with     *)
(* RunAsync or by an async block; one call of All, Race or Any combines    *)
(* some of them into the future Result (0), on which one caller waits.     *)
(* Everything a goroutine does under Future.mu is one action; the check    *)
(* of the cancel channel, the computation and the settlement are separate  *)
(* actions, because nothing protects the sequence of them.                 *)
(*                                                                         *)
(* Payloads are abstracted to the set of leaves whose value or error they  *)
(* carry: {i} for the outcome of leaf i, the arguments of All for its      *)
(* slice of values and of Any for its aggregate error, {} for the          *)
(* "future cancelled" error.                                               *)
(***************************************************************************)
EXTENDS Naturals, FiniteSets

CONSTANTS N,            \* number of leaf futures
          Combinators   \* the combinators a behaviour may call

ASSUME NAssumption == N \in Nat
ASSUME CombinatorsAssumption == Combinators \subseteq {"All", "Race", "Any"}

Leaf   == 1..N
Result == 0
Cell   == 0..N

VARIABLES
    state,    \* Future.state
    payload,  \* Future.value / Future.err
    done,     \* futures whose done channel is closed (and resolved is true)
    cancel,   \* futures whose cancel channel is closed
    wpc,      \* goroutine of RunAsync / evaluateAsyncExpr, one per leaf
    comb,     \* which combinator was called
    args,     \* the futures passed to it
    apc,      \* goroutine of All
    todo,     \* futures All has still to await, or to cancel
    failure,  \* the error All is about to reject with
    gpc,      \* awaiting goroutines of Race and Any, one per argument
    errored,  \* Any: indexes of errors[] that are filled
    cpc,      \* Race: goroutine that cancels the losers
    losers,   \* Race: futures it has still to look at
    call      \* the caller awaiting Result

cells == <<state, payload, done, cancel>>
combs == <<comb, args, apc, todo, failure, gpc, errored, cpc, losers>>
vars  == <<cells, wpc, combs, call>>

Settled == {"resolved", "rejected"}

-----------------------------------------------------------------------------
(* The future itself: Resolve, Reject, Cancel.                             *)

\* Mutant: the `if f.resolved { return }` guard is forgotten.
SettleUnguarded(f, st, p) ==
    /\ state'   = [state EXCEPT ![f] = st]
    /\ payload' = [payload EXCEPT ![f] = p]
    /\ done'    = done \cup {f}

\* The common body of Resolve and Reject, under f.mu.
Settle(f, st, p) ==
    IF f \in done
    THEN UNCHANGED <<state, payload, done>>
    ELSE /\ state'   = [state EXCEPT ![f] = st]
         /\ payload' = [payload EXCEPT ![f] = p]
         /\ done'    = done \cup {f}

Resolve(f, p) == Settle(f, "resolved", p) /\ UNCHANGED cancel
Reject(f, p)  == Settle(f, "rejected", p) /\ UNCHANGED cancel

Cancel(f) ==
    IF f \in done
    THEN UNCHANGED cells
    ELSE /\ cancel'  = cancel \cup {f}
         /\ state'   = [state EXCEPT ![f] = "rejected"]
         /\ payload' = [payload EXCEPT ![f] = {}]
         /\ done'    = done \cup {f}

\* Settle f with the outcome that Await returned for the leaf i.
Forward(f, i) ==
    IF state[i] = "rejected" THEN Reject(f, payload[i]) ELSE Resolve(f, payload[i])

\* Any holder of a future may cancel it; Result exists once it was called for.
UserCancel(f) ==
    /\ f = Result => comb # "none"
    /\ f \notin done
    /\ Cancel(f)
    /\ UNCHANGED <<wpc, combs, call>>

-----------------------------------------------------------------------------
(* The goroutine of RunAsync and of an async block.                        *)

\* Check for cancellation before running.
WorkerStart(f) ==
    /\ wpc[f] = "start"
    /\ wpc' = [wpc EXCEPT ![f] = IF f \in cancel THEN "exit" ELSE "run"]
    /\ UNCHANGED <<cells, combs, call>>

\* fn() returns a value or an error; it may also never return.
WorkerCompute(f) ==
    /\ wpc[f] = "run"
    /\ \E r \in {"value", "error"} : wpc' = [wpc EXCEPT ![f] = r]
    /\ UNCHANGED <<cells, combs, call>>

\* Check for cancellation after running.
WorkerCheck(f) ==
    /\ wpc[f] \in {"value", "error"}
    /\ wpc' = [wpc EXCEPT ![f] = IF f \in cancel THEN "exit"
                                 ELSE IF @ = "value" THEN "resolve" ELSE "reject"]
    /\ UNCHANGED <<cells, combs, call>>

\* A Cancel may have come between the check and this step.
WorkerSettle(f) ==
    /\ \/ wpc[f] = "resolve" /\ Resolve(f, {f})
       \/ wpc[f] = "reject"  /\ Reject(f, {f})
    /\ wpc' = [wpc EXCEPT ![f] = "exit"]
    /\ UNCHANGED <<combs, call>>

Worker(f) == WorkerStart(f) \/ WorkerCompute(f) \/ WorkerCheck(f) \/ WorkerSettle(f)

-----------------------------------------------------------------------------
(* Calling a combinator on the futures fs.                                 *)

CallAll(fs) ==
    /\ comb = "none" /\ "All" \in Combinators
    /\ comb' = "All" /\ args' = fs
    /\ apc' = "await" /\ todo' = fs
    /\ UNCHANGED <<cells, wpc, failure, gpc, errored, cpc, losers, call>>

\* Race and Any with no argument reject at once and start no goroutine.
CallEmpty(k) ==
    /\ comb = "none" /\ k \in Combinators \ {"All"}
    /\ comb' = k /\ args' = {}
    /\ Reject(Result, {})
    /\ UNCHANGED <<wpc, apc, todo, failure, gpc, errored, cpc, losers, call>>

CallRace(fs) ==
    /\ comb = "none" /\ "Race" \in Combinators /\ fs # {}
    /\ comb' = "Race" /\ args' = fs
    /\ gpc' = [i \in Leaf |-> IF i \in fs THEN "await" ELSE gpc[i]]
    /\ cpc' = "wait" /\ losers' = fs
    /\ UNCHANGED <<cells, wpc, apc, todo, failure, errored, call>>

CallAny(fs) ==
    /\ comb = "none" /\ "Any" \in Combinators /\ fs # {}
    /\ comb' = "Any" /\ args' = fs
    /\ gpc' = [i \in Leaf |-> IF i \in fs THEN "await" ELSE gpc[i]]
    /\ UNCHANGED <<cells, wpc, apc, todo, failure, errored, cpc, losers, call>>

-----------------------------------------------------------------------------
(* All: one goroutine awaits the arguments in order.                       *)

IsFirst(i, S) == i \in S /\ \A j \in S : i <= j

AllAwait ==
    /\ apc = "await"
    /\ \E i \in Leaf :
        /\ IsFirst(i, todo) /\ i \in done
        /\ todo' = todo \ {i}
        /\ IF state[i] = "rejected"
           THEN apc' = "cancel" /\ failure' = payload[i]
           ELSE UNCHANGED <<apc, failure>>
    /\ UNCHANGED <<cells, wpc, comb, args, gpc, errored, cpc, losers, call>>

AllCancel ==
    /\ apc = "cancel"
    /\ \E i \in Leaf :
        /\ IsFirst(i, todo)
        /\ Cancel(i)
        /\ todo' = todo \ {i}
    /\ UNCHANGED <<wpc, comb, args, apc, failure, gpc, errored, cpc, losers, call>>

AllReject ==
    /\ apc = "cancel" /\ todo = {}
    /\ Reject(Result, failure)
    /\ apc' = "exit"
    /\ UNCHANGED <<wpc, comb, args, todo, failure, gpc, errored, cpc, losers, call>>

AllResolve ==
    /\ apc = "await" /\ todo = {}
    /\ Resolve(Result, args)
    /\ apc' = "exit"
    /\ UNCHANGED <<wpc, comb, args, todo, failure, gpc, errored, cpc, losers, call>>

AllStep == AllAwait \/ AllCancel \/ AllReject \/ AllResolve

-----------------------------------------------------------------------------
(* Race and Any: one goroutine per argument.                               *)

\* future.Await() of the goroutine of argument i returns.
Awaited(i) ==
    /\ gpc[i] = "await" /\ i \in done
    /\ gpc' = [gpc EXCEPT ![i] = "got"]
    /\ UNCHANGED <<cells, wpc, comb, args, apc, todo, failure, errored, cpc, losers, call>>

RaceSettle(i) ==
    /\ comb = "Race" /\ gpc[i] = "got"
    /\ Forward(Result, i)
    /\ gpc' = [gpc EXCEPT ![i] = "exit"]
    /\ UNCHANGED <<wpc, comb, args, apc, todo, failure, errored, cpc, losers, call>>

\* Mutant: the first rejection rejects Any.
AnySettleFirst(i) ==
    /\ comb = "Any" /\ gpc[i] = "got"
    /\ Forward(Result, i)
    /\ gpc' = [gpc EXCEPT ![i] = "exit"]
    /\ UNCHANGED <<wpc, comb, args, apc, todo, failure, errored, cpc, losers, call>>

\* Mutant: errorCount is compared before it is incremented.
AnySettleStaleCount(i) ==
    /\ comb = "Any" /\ gpc[i] = "got"
    /\ gpc' = [gpc EXCEPT ![i] = "exit"]
    /\ IF state[i] = "rejected"
       THEN /\ errored' = errored \cup {i}
            /\ IF Cardinality(errored) = Cardinality(args)
               THEN Reject(Result, args)
               ELSE UNCHANGED cells
       ELSE /\ Resolve(Result, payload[i])
            /\ UNCHANGED errored
    /\ UNCHANGED <<wpc, comb, args, apc, todo, failure, cpc, losers, call>>

\* Under Any's own mutex: count the errors, reject on the last one.
AnySettle(i) ==
    /\ comb = "Any" /\ gpc[i] = "got"
    /\ gpc' = [gpc EXCEPT ![i] = "exit"]
    /\ IF state[i] = "rejected"
       THEN /\ errored' = errored \cup {i}
            /\ IF Cardinality(errored') = Cardinality(args)
               THEN Reject(Result, args)
               ELSE UNCHANGED cells
       ELSE /\ Resolve(Result, payload[i])
            /\ UNCHANGED errored
    /\ UNCHANGED <<wpc, comb, args, apc, todo, failure, cpc, losers, call>>

\* Race's canceller: <-result.Done(), then for each future, cancel it if
\* IsPending() said so: the check and Cancel lock the future separately.
RaceDecided ==
    /\ cpc = "wait" /\ Result \in done
    /\ cpc' = "scan"
    /\ UNCHANGED <<cells, wpc, comb, args, apc, todo, failure, gpc, errored, losers, call>>

\* Mutant: the canceller stops at the first future that is not pending.
RaceScanStops ==
    /\ cpc = "scan"
    /\ \E i \in Leaf :
        /\ IsFirst(i, losers)
        /\ IF state[i] = "pending"
           THEN cpc' = "kill" /\ UNCHANGED losers
           ELSE cpc' = cpc /\ losers' = {}
    /\ UNCHANGED <<cells, wpc, comb, args, apc, todo, failure, gpc, errored, call>>

RaceScan ==
    /\ cpc = "scan"
    /\ \E i \in Leaf :
        /\ IsFirst(i, losers)
        /\ IF state[i] = "pending"
           THEN cpc' = "kill" /\ UNCHANGED losers
           ELSE cpc' = cpc /\ losers' = losers \ {i}
    /\ UNCHANGED <<cells, wpc, comb, args, apc, todo, failure, gpc, errored, call>>

RaceKill ==
    /\ cpc = "kill"
    /\ \E i \in Leaf :
        /\ IsFirst(i, losers)
        /\ Cancel(i)
        /\ losers' = losers \ {i}
    /\ cpc' = "scan"
    /\ UNCHANGED <<wpc, comb, args, apc, todo, failure, gpc, errored, call>>

Canceller == RaceDecided \/ RaceScan \/ RaceKill

-----------------------------------------------------------------------------
(* The caller: Await, AwaitWithTimeout or AwaitWithContext on Result.      *)

CallerWait(m) ==
    /\ comb # "none" /\ call.pc = "idle"
    /\ call' = [call EXCEPT !.pc = "wait", !.mode = m]
    /\ UNCHANGED <<cells, wpc, combs>>

\* <-f.done was ready: return what the future holds.
CallerGot ==
    /\ call.pc = "wait" /\ Result \in done
    /\ call' = [call EXCEPT !.pc = "returned", !.out = state[Result], !.what = payload[Result]]
    /\ UNCHANGED <<cells, wpc, combs>>

\* The other case of the select may win even when done is closed.
CallerTimeout ==
    /\ call.pc = "wait" /\ call.mode = "timeout"
    /\ call' = [call EXCEPT !.pc = "returned", !.out = "timeout"]
    /\ UNCHANGED <<cells, wpc, combs>>

CallerContextDone ==
    /\ call.pc = "wait" /\ call.mode = "context"
    /\ call' = [call EXCEPT !.pc = "cancelling"]
    /\ UNCHANGED <<cells, wpc, combs>>

CallerCancels ==
    /\ call.pc = "cancelling"
    /\ Cancel(Result)
    /\ call' = [call EXCEPT !.pc = "returned", !.out = "context"]
    /\ UNCHANGED <<wpc, combs>>

-----------------------------------------------------------------------------
Init ==
    /\ state   = [f \in Cell |-> "pending"]
    /\ payload = [f \in Cell |-> {}]
    /\ done = {} /\ cancel = {}
    /\ wpc = [f \in Leaf |-> "start"]
    /\ comb = "none" /\ args = {}
    /\ apc = "off" /\ todo = {} /\ failure = {}
    /\ gpc = [f \in Leaf |-> "off"] /\ errored = {}
    /\ cpc = "off" /\ losers = {}
    /\ call = [pc |-> "idle", mode |-> "await", out |-> "none", what |-> {}]

Next ==
    \/ \E f \in Leaf : Worker(f)
    \/ \E f \in Cell : UserCancel(f)
    \/ \E fs \in SUBSET Leaf : CallAll(fs) \/ CallRace(fs) \/ CallAny(fs)
    \/ \E k \in Combinators : CallEmpty(k)
    \/ AllStep
    \/ \E i \in Leaf : Awaited(i) \/ RaceSettle(i) \/ AnySettle(i)
    \/ Canceller
    \/ \E m \in {"await", "timeout", "context"} : CallerWait(m)
    \/ CallerGot \/ CallerTimeout \/ CallerContextDone \/ CallerCancels

Spec == Init /\ [][Next]_vars

(***************************************************************************)
(* The Go scheduler runs every runnable goroutine eventually.  Nothing is  *)
(* assumed of WorkerCompute: fn() may run for ever.                        *)
(***************************************************************************)
Fairness ==
    /\ \A f \in Leaf : WF_vars(WorkerStart(f) \/ WorkerCheck(f) \/ WorkerSettle(f))
    /\ WF_vars(AllStep)
    /\ \A i \in Leaf : WF_vars(Awaited(i) \/ RaceSettle(i) \/ AnySettle(i))
    /\ WF_vars(Canceller)
    /\ WF_vars(CallerGot) /\ WF_vars(CallerCancels)

FairSpec == Spec /\ Fairness

-----------------------------------------------------------------------------
(* Properties.                                                             *)

\* Every variable keeps to its type.
TypeOK ==
    /\ state \in [Cell -> Settled \cup {"pending"}]
    /\ payload \in [Cell -> SUBSET Leaf]
    /\ done \subseteq Cell /\ cancel \subseteq done
    /\ wpc \in [Leaf -> {"start", "run", "value", "error", "resolve", "reject", "exit"}]
    /\ comb \in {"none", "All", "Race", "Any"} /\ args \subseteq Leaf
    /\ apc \in {"off", "await", "cancel", "exit"}
    /\ todo \subseteq Leaf /\ failure \subseteq Leaf
    /\ gpc \in [Leaf -> {"off", "await", "got", "exit"}]
    /\ errored \subseteq Leaf
    /\ cpc \in {"off", "wait", "scan", "kill"} /\ losers \subseteq Leaf
    /\ call \in [pc : {"idle", "wait", "cancelling", "returned"},
                 mode : {"await", "timeout", "context"},
                 out : Settled \cup {"none", "timeout", "context"},
                 what : SUBSET Leaf]

(***************************************************************************)
(* Whoever races to settle a future (its goroutine, a Cancel, a combinator *)
(* or the goroutines of Race and Any), it changes from pending to its      *)
(* outcome once and for ever: the futures implement OneShot.               *)
(***************************************************************************)
Cells == INSTANCE OneShot
    WITH Cells    <- Cell,
         Outcomes <- Settled \X (SUBSET Leaf),
         outcome  <- [f \in Cell |-> IF f \in done THEN {<<state[f], payload[f]>>} ELSE {}]
ImplementsOneShot == Cells!Spec

\* The result of the combinator was not decided by someone cancelling it.
Decided == Result \in done /\ Result \notin cancel

(***************************************************************************)
(* All resolves only when every argument resolved, and rejects with the    *)
(* error of an argument whose predecessors all resolved; by then no        *)
(* argument is left running: every one is settled or was cancelled.        *)
(***************************************************************************)
AllContract ==
    comb = "All" /\ Decided =>
        /\ args \subseteq done
        /\ state[Result] = "resolved" => \A i \in args : state[i] = "resolved"
        /\ state[Result] = "rejected" =>
             \E i \in args : /\ state[i] = "rejected" /\ payload[Result] = payload[i]
                             /\ \A j \in args : j < i => state[j] = "resolved"

(***************************************************************************)
(* Race settles with the outcome of one of its arguments.                  *)
(***************************************************************************)
RaceContract ==
    comb = "Race" /\ Decided /\ args # {} =>
        \E i \in args : /\ i \in done
                        /\ state[Result] = state[i] /\ payload[Result] = payload[i]

(***************************************************************************)
(* Any resolves with the value of a resolved argument and rejects only     *)
(* when every argument has rejected, however the goroutines interleave.    *)
(***************************************************************************)
AnyContract ==
    comb = "Any" /\ Decided =>
        /\ state[Result] = "resolved" =>
             \E i \in args : state[i] = "resolved" /\ payload[Result] = payload[i]
        /\ state[Result] = "rejected" => \A i \in args : state[i] = "rejected"

(***************************************************************************)
(* Whichever combinator is used, and however its goroutines, cancels and   *)
(* timeouts interleave, its result is the one its arguments justify.       *)
(***************************************************************************)
Contracts == AllContract /\ RaceContract /\ AnyContract

(***************************************************************************)
(* What an Await returned stays what every later observer of the future    *)
(* sees, although AwaitWithContext of the same caller may cancel it.       *)
(***************************************************************************)
AwaitStable ==
    call.pc = "returned" /\ call.out \in Settled =>
        call.out = state[Result] /\ call.what = payload[Result]

(***************************************************************************)
(* Once Race is decided, every future that lost is settled: the canceller  *)
(* reaches each of them although it checks and cancels in two steps.       *)
(***************************************************************************)
RaceCancelsLosers == (comb = "Race" /\ Decided) ~> (args \subseteq done)

(***************************************************************************)
(* No combinator forgets to settle its result: All once its arguments are  *)
(* settled, Race once one is, Any once one resolves or all are settled.    *)
(***************************************************************************)
Ready ==
    \/ comb = "All"  /\ args \subseteq done
    \/ comb = "Race" /\ (args = {} \/ args \cap done # {})
    \/ comb = "Any"  /\ (args \subseteq done \/ \E i \in args : state[i] = "resolved")
CombinatorSettles == Ready ~> (Result \in done)

(***************************************************************************)
(* future.go:237 "If any Future rejects, the returned Future rejects with  *)
(* that error": All awaits in argument order, so a rejection behind a      *)
(* future that never completes is never seen.                              *)
(***************************************************************************)
AllFailsFast ==
    \A i \in Leaf : (comb = "All" /\ i \in args /\ state[i] = "rejected")
                      ~> (Result \in done)
=============================================================================
