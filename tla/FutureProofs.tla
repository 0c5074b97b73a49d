----------------------------- MODULE FutureProofs -----------------------------
(***************************************************************************)
(* Proofs about Future, for any number of futures: the type invariant, the *)
(* contracts of All, Race and Any, the stability of an awaited outcome,    *)
(* and that the futures implement the write-once cells of OneShot.         *)
(***************************************************************************)
EXTENDS Future, FiniteSetTheorems, TLAPS

\* What one step may do to the futures: nothing, or settle a pending one.
Write(f) ==
    /\ f \notin done /\ done' = done \cup {f}
    /\ cancel' = cancel \/ cancel' = cancel \cup {f}
    /\ \E st \in Settled : state' = [state EXCEPT ![f] = st]
    /\ \E p \in SUBSET Leaf : payload' = [payload EXCEPT ![f] = p]

WriteOnce == UNCHANGED cells \/ \E f \in Cell : Write(f)

\* done is closed exactly when the state is no longer pending.
CellInv == \A f \in Cell : f \in done <=> state[f] # "pending"

\* What is known before and outside the calls of the combinators.
CallInv ==
    /\ comb = "none" => args = {} /\ Result \notin done /\ call.pc = "idle"
    /\ comb # "All" => apc = "off"
    /\ \A i \in Leaf : /\ gpc[i] # "off" => i \in args
                       /\ gpc[i] \in {"got", "exit"} => i \in done

\* The loop invariant of All's goroutine.
AllInv ==
    comb = "All" =>
        /\ todo \subseteq args
        /\ apc = "await" => \A j \in args \ todo : state[j] = "resolved"
        /\ apc = "cancel" =>
             /\ \A j \in args \ todo : j \in done
             /\ \E i \in args : /\ i \notin todo /\ state[i] = "rejected"
                                /\ failure = payload[i]
                                /\ \A j \in args : j < i => state[j] = "resolved"
        /\ apc # "exit" /\ Result \in done => Result \in cancel

\* What Any has counted.
AnyInv == \A i \in errored : i \in args /\ state[i] = "rejected"

\* What the caller holds.
CallerInv ==
    call.pc = "returned" /\ call.out \in Settled =>
        Result \in done /\ call.out = state[Result] /\ call.what = payload[Result]

Inv == TypeOK /\ CellInv /\ CallInv /\ AllInv /\ AnyInv /\ CallerInv /\ Contracts

LEMMA CellFacts == Result \in Cell /\ Leaf \subseteq Cell /\ Leaf \subseteq Nat
                   /\ Result \notin Leaf
  BY NAssumption DEF Cell, Leaf, Result

LEMMA SettleWrites ==
  ASSUME TypeOK, NEW f \in Cell, NEW st \in Settled, NEW p \in SUBSET Leaf,
         Settle(f, st, p), UNCHANGED cancel
  PROVE  WriteOnce
  BY DEF Settle, WriteOnce, Write, cells

LEMMA CancelWrites ==
  ASSUME TypeOK, NEW f \in Cell, Cancel(f)
  PROVE  WriteOnce
<1>1. CASE f \in done
  BY <1>1 DEF Cancel, WriteOnce
<1>2. CASE f \notin done
  <2>1. "rejected" \in Settled /\ {} \in SUBSET Leaf
    BY DEF Settled
  <2>2. Write(f)
    BY <1>2, <2>1 DEF Cancel, Write
  <2> QED BY <2>2 DEF WriteOnce
<1> QED BY <1>1, <1>2

\* A forwarded outcome is a well-typed settlement.
LEMMA ForwardSettles ==
  ASSUME TypeOK, CellInv, NEW i \in Leaf, i \in done, Forward(Result, i)
  PROVE  /\ Settle(Result, state[i], payload[i]) /\ UNCHANGED cancel
         /\ state[i] \in Settled /\ payload[i] \in SUBSET Leaf
<1>1. i \in Cell /\ state[i] \in Settled \cup {"pending"} /\ payload[i] \in SUBSET Leaf
  BY CellFacts DEF TypeOK
<1>2. state[i] = "rejected" \/ state[i] = "resolved"
  BY <1>1 DEF CellInv, Settled
<1> QED BY <1>1, <1>2 DEF Forward, Reject, Resolve, Settled

(***************************************************************************)
(* Every step of every goroutine leaves the futures alone or settles one   *)
(* that is pending: the locked guard of Resolve, Reject and Cancel.        *)
(***************************************************************************)
LEMMA StepWritesOnce ==
  ASSUME Inv, [Next]_vars
  PROVE  WriteOnce
<1> USE CellFacts
<1>r. Settled = {"resolved", "rejected"} /\ {} \in SUBSET Leaf
  BY DEF Settled
<1>t. TypeOK /\ CellInv
  BY DEF Inv
<1>1. CASE UNCHANGED vars
  BY <1>1 DEF vars, WriteOnce
<1>2. ASSUME NEW f \in Leaf, Worker(f) PROVE WriteOnce
  <2>1. CASE WorkerSettle(f)
    <3>1. {f} \in SUBSET Leaf /\ f \in Cell
      OBVIOUS
    <3> QED BY <2>1, <3>1, <1>r, <1>t, SettleWrites DEF WorkerSettle, Resolve, Reject
  <2> QED BY <1>2, <2>1 DEF Worker, WorkerStart, WorkerCompute, WorkerCheck, WriteOnce
<1>3. ASSUME NEW f \in Cell, UserCancel(f) PROVE WriteOnce
  BY <1>3, <1>t, CancelWrites DEF UserCancel
<1>4. ASSUME NEW fs \in SUBSET Leaf, CallAll(fs) \/ CallRace(fs) \/ CallAny(fs)
      PROVE  WriteOnce
  BY <1>4 DEF CallAll, CallRace, CallAny, WriteOnce
<1>5. ASSUME NEW k \in Combinators, CallEmpty(k) PROVE WriteOnce
  BY <1>5, <1>r, <1>t, SettleWrites DEF CallEmpty, Reject
<1>6. CASE AllStep
  <2>1. CASE AllAwait
    BY <2>1 DEF AllAwait, WriteOnce
  <2>2. CASE AllCancel
    BY <2>2, <1>t, CancelWrites DEF AllCancel, IsFirst
  <2>3. CASE AllReject
    <3>1. failure \in SUBSET Leaf
      BY <1>t DEF TypeOK
    <3> QED BY <2>3, <3>1, <1>r, <1>t, SettleWrites DEF AllReject, Reject
  <2>4. CASE AllResolve
    <3>1. args \in SUBSET Leaf
      BY <1>t DEF TypeOK
    <3> QED BY <2>4, <3>1, <1>r, <1>t, SettleWrites DEF AllResolve, Resolve
  <2> QED BY <1>6, <2>1, <2>2, <2>3, <2>4 DEF AllStep
<1>7. ASSUME NEW i \in Leaf, Awaited(i) \/ RaceSettle(i) \/ AnySettle(i)
      PROVE  WriteOnce
  <2>1. CASE Awaited(i)
    BY <2>1 DEF Awaited, WriteOnce
  <2>2. CASE RaceSettle(i)
    <3>1. i \in done /\ Forward(Result, i)
      BY <2>2 DEF Inv, CallInv, RaceSettle
    <3> QED BY <3>1, <1>t, ForwardSettles, SettleWrites
  <2>3. CASE AnySettle(i)
    <3>1. args \in SUBSET Leaf /\ payload[i] \in SUBSET Leaf
      BY <1>t DEF TypeOK
    <3>2. UNCHANGED cells \/ Reject(Result, args) \/ Resolve(Result, payload[i])
      BY <2>3 DEF AnySettle
    <3> QED BY <3>1, <3>2, <1>r, <1>t, SettleWrites DEF Reject, Resolve, WriteOnce
  <2> QED BY <1>7, <2>1, <2>2, <2>3
<1>8. CASE Canceller
  <2>1. CASE RaceDecided \/ RaceScan
    BY <2>1 DEF RaceDecided, RaceScan, WriteOnce
  <2>2. CASE RaceKill
    BY <2>2, <1>t, CancelWrites DEF RaceKill, IsFirst
  <2> QED BY <1>8, <2>1, <2>2 DEF Canceller
<1>9. ASSUME NEW m \in {"await", "timeout", "context"}, CallerWait(m) PROVE WriteOnce
  BY <1>9 DEF CallerWait, WriteOnce
<1>10. CASE CallerGot \/ CallerTimeout \/ CallerContextDone
  BY <1>10 DEF CallerGot, CallerTimeout, CallerContextDone, WriteOnce
<1>11. CASE CallerCancels
  BY <1>11, <1>t, CancelWrites DEF CallerCancels
<1> QED BY <1>1, <1>2, <1>3, <1>4, <1>5, <1>6, <1>7, <1>8, <1>9, <1>10, <1>11 DEF Next

(***************************************************************************)
(* What such a write leaves alone: settled futures, their outcome and      *)
(* whether they were cancelled.                                            *)
(***************************************************************************)
Stable ==
    /\ \A f \in done : /\ f \in done' /\ state'[f] = state[f] /\ payload'[f] = payload[f]
                       /\ f \in cancel' => f \in cancel
    /\ cancel \subseteq cancel'

LEMMA WriteStable ==
  ASSUME TypeOK, CellInv, WriteOnce
  PROVE  /\ Stable /\ CellInv'
         /\ state' \in [Cell -> Settled \cup {"pending"}]
         /\ payload' \in [Cell -> SUBSET Leaf]
         /\ done' \subseteq Cell /\ cancel' \subseteq done'
<1>1. CASE UNCHANGED cells
  BY <1>1 DEF TypeOK, CellInv, Stable, cells
<1>2. ASSUME NEW f \in Cell, Write(f) PROVE
         /\ Stable /\ CellInv'
         /\ state' \in [Cell -> Settled \cup {"pending"}]
         /\ payload' \in [Cell -> SUBSET Leaf]
         /\ done' \subseteq Cell /\ cancel' \subseteq done'
  <2>1. PICK st \in Settled : state' = [state EXCEPT ![f] = st]
    BY <1>2 DEF Write
  <2>2. PICK p \in SUBSET Leaf : payload' = [payload EXCEPT ![f] = p]
    BY <1>2 DEF Write
  <2>3. st # "pending"
    BY <2>1 DEF Settled
  <2>4. Stable
    BY <1>2, <2>1, <2>2 DEF Write, TypeOK, Stable
  <2>5. CellInv'
    BY <1>2, <2>1, <2>3 DEF Write, TypeOK, CellInv
  <2> QED BY <1>2, <2>1, <2>2, <2>4, <2>5 DEF Write, TypeOK
<1> QED BY <1>1, <1>2 DEF WriteOnce

-----------------------------------------------------------------------------
(* The type invariant.                                                     *)

LEMMA TypeStep ==
  ASSUME Inv, [Next]_vars
  PROVE  TypeOK'
<1> USE CellFacts
<1>w. /\ state' \in [Cell -> Settled \cup {"pending"}]
      /\ payload' \in [Cell -> SUBSET Leaf]
      /\ done' \subseteq Cell /\ cancel' \subseteq done'
  BY StepWritesOnce, WriteStable DEF Inv
<1>t. TypeOK
  BY DEF Inv
<1>c. state \in [Cell -> Settled \cup {"pending"}] /\ payload \in [Cell -> SUBSET Leaf]
  BY <1>t DEF TypeOK
<1>1. CASE UNCHANGED vars
  BY <1>t, <1>w, <1>1 DEF vars, combs, TypeOK
<1>2. ASSUME NEW f \in Leaf, Worker(f) PROVE TypeOK'
  <2>1. UNCHANGED <<combs, call>>
    BY <1>2 DEF Worker, WorkerStart, WorkerCompute, WorkerCheck, WorkerSettle
  <2>2. \E q \in {"run", "value", "error", "resolve", "reject", "exit"} :
           wpc' = [wpc EXCEPT ![f] = q]
    BY <1>2 DEF Worker, WorkerStart, WorkerCompute, WorkerCheck, WorkerSettle
  <2>3. wpc' \in [Leaf -> {"start", "run", "value", "error", "resolve", "reject", "exit"}]
    BY <1>t, <2>2 DEF TypeOK
  <2> QED BY <1>t, <1>w, <2>1, <2>3 DEF combs, TypeOK
<1>3. ASSUME NEW f \in Cell, UserCancel(f) PROVE TypeOK'
  BY <1>t, <1>w, <1>3 DEF UserCancel, combs, TypeOK
<1>4. ASSUME NEW fs \in SUBSET Leaf, CallAll(fs) \/ CallRace(fs) \/ CallAny(fs)
      PROVE  TypeOK'
  <2>1. gpc' \in [Leaf -> {"off", "await", "got", "exit"}]
    BY <1>t, <1>4 DEF CallAll, CallRace, CallAny, TypeOK
  <2> QED BY <1>t, <1>w, <1>4, <2>1 DEF CallAll, CallRace, CallAny, TypeOK
<1>5. ASSUME NEW k \in Combinators, CallEmpty(k) PROVE TypeOK'
  BY <1>t, <1>w, <1>5, CombinatorsAssumption DEF CallEmpty, TypeOK
<1>6. CASE AllStep
  <2>1. apc' \in {"off", "await", "cancel", "exit"}
    BY <1>t, <1>6 DEF AllStep, AllAwait, AllCancel, AllReject, AllResolve, TypeOK
  <2>2. todo' \subseteq Leaf /\ failure' \subseteq Leaf
    <3>1. CASE AllAwait
      <4>1. PICK i \in Leaf : /\ todo' = todo \ {i}
                              /\ failure' = payload[i] \/ failure' = failure
        BY <3>1 DEF AllAwait
      <4>2. payload[i] \in SUBSET Leaf
        BY <1>c
      <4>3. todo \subseteq Leaf /\ failure \subseteq Leaf
        BY <1>t DEF TypeOK
      <4>4. failure' \subseteq Leaf
        BY <4>1, <4>2, <4>3
      <4>5. todo' \subseteq Leaf
        BY <4>1, <4>3
      <4> QED BY <4>4, <4>5
    <3>2. CASE AllCancel
      BY <1>t, <3>2 DEF AllCancel, TypeOK
    <3>3. CASE AllReject \/ AllResolve
      BY <1>t, <3>3 DEF AllReject, AllResolve, TypeOK
    <3> QED BY <1>6, <3>1, <3>2, <3>3 DEF AllStep
  <2> QED BY <1>t, <1>w, <1>6, <2>1, <2>2
          DEF AllStep, AllAwait, AllCancel, AllReject, AllResolve, TypeOK
<1>7. ASSUME NEW i \in Leaf, Awaited(i) \/ RaceSettle(i) \/ AnySettle(i)
      PROVE  TypeOK'
  <2>1. CASE Awaited(i) \/ RaceSettle(i)
    <3>1. gpc' \in [Leaf -> {"off", "await", "got", "exit"}]
      BY <1>t, <2>1 DEF Awaited, RaceSettle, TypeOK
    <3>2. UNCHANGED <<wpc, comb, args, apc, todo, failure, errored, cpc, losers, call>>
      BY <2>1 DEF Awaited, RaceSettle
    <3> QED BY <1>t, <1>w, <3>1, <3>2 DEF TypeOK
  <2>2. CASE AnySettle(i)
    <3>1. errored' \subseteq Leaf
      BY <1>t, <2>2 DEF AnySettle, TypeOK
    <3> QED BY <1>t, <1>w, <2>2, <3>1 DEF AnySettle, TypeOK
  <2> QED BY <1>7, <2>1, <2>2
<1>8. CASE Canceller
  BY <1>t, <1>w, <1>8 DEF Canceller, RaceDecided, RaceScan, RaceKill, TypeOK
<1>9. ASSUME NEW m \in {"await", "timeout", "context"}, CallerWait(m) PROVE TypeOK'
  BY <1>t, <1>w, <1>9 DEF CallerWait, combs, TypeOK
<1>10. CASE CallerGot
  <2>1. state[Result] \in Settled
    BY <1>10 DEF CallerGot, Inv, CellInv, TypeOK
  <2> QED BY <1>t, <1>w, <1>10, <2>1 DEF CallerGot, combs, TypeOK
<1>11. CASE CallerTimeout \/ CallerContextDone
  <2>1. UNCHANGED <<wpc, combs>>
    BY <1>11 DEF CallerTimeout, CallerContextDone
  <2>2. call' = [call EXCEPT !.pc = "returned", !.out = "timeout"] \/ call' = [call EXCEPT !.pc = "cancelling"]
    BY <1>11 DEF CallerTimeout, CallerContextDone
  <2>3. call' \in [pc : {"idle", "wait", "cancelling", "returned"},
                   mode : {"await", "timeout", "context"},
                   out : Settled \cup {"none", "timeout", "context"},
                   what : SUBSET Leaf]
    BY <1>t, <2>2 DEF TypeOK
  <2> QED BY <1>t, <1>w, <2>1, <2>3 DEF combs, TypeOK
<1>12. CASE CallerCancels
  BY <1>t, <1>w, <1>12 DEF CallerCancels, combs, TypeOK
<1> QED BY <1>1, <1>2, <1>3, <1>4, <1>5, <1>6, <1>7, <1>8, <1>9, <1>10, <1>11, <1>12
        DEF Next

-----------------------------------------------------------------------------
(* The rest of the inductive invariant.                                    *)

LEMMA CallStep ==
  ASSUME Inv, [Next]_vars
  PROVE  CallInv'
<1> USE CellFacts
<1>s. Stable /\ TypeOK' /\ TypeOK /\ CallInv /\ WriteOnce
  BY TypeStep, StepWritesOnce, WriteStable DEF Inv
<1>n. \A f \in done : f \in done'
  BY <1>s DEF Stable
<1>1. CASE /\ UNCHANGED combs
           /\ comb = "none" => (Result \in done' => Result \in done) /\ call' = call
  BY <1>s, <1>n, <1>1 DEF combs, CallInv
<1>2. ASSUME NEW f \in Leaf, Worker(f) PROVE CallInv'
  <2>1. UNCHANGED <<combs, call>> /\ (Result \in done' => Result \in done)
    BY <1>2 DEF Worker, WorkerStart, WorkerCompute, WorkerCheck, WorkerSettle,
                Resolve, Reject, Settle, cells
  <2> QED BY <1>1, <2>1
<1>3. ASSUME NEW f \in Cell, UserCancel(f) PROVE CallInv'
  BY <1>1, <1>3 DEF UserCancel, Cancel, cells
<1>4. ASSUME NEW fs \in SUBSET Leaf, CallAll(fs) \/ CallRace(fs) \/ CallAny(fs)
      PROVE  CallInv'
  <2>1. \A i \in Leaf : gpc[i] = "off"
    BY <1>s, <1>4 DEF CallInv, CallAll, CallRace, CallAny
  <2>2. comb' # "none" /\ args' = fs /\ (comb' # "All" => apc' = "off")
    BY <1>s, <1>4 DEF CallInv, CallAll, CallRace, CallAny
  <2>3. \A i \in Leaf : gpc'[i] = "off" \/ (i \in fs /\ gpc'[i] = "await")
    BY <1>s, <1>4, <2>1 DEF TypeOK, CallAll, CallRace, CallAny
  <2> QED BY <2>2, <2>3 DEF CallInv
<1>5. ASSUME NEW k \in Combinators, CallEmpty(k) PROVE CallInv'
  BY <1>s, <1>5, CombinatorsAssumption DEF CallInv, CallEmpty
<1>6. CASE AllStep
  <2>1. comb = "All"
    BY <1>s, <1>6 DEF CallInv, AllStep, AllAwait, AllCancel, AllReject, AllResolve
  <2>2. UNCHANGED <<comb, args, gpc>>
    BY <1>6 DEF AllStep, AllAwait, AllCancel, AllReject, AllResolve
  <2> QED BY <1>s, <1>n, <2>1, <2>2 DEF CallInv
<1>7. ASSUME NEW i \in Leaf, Awaited(i) \/ RaceSettle(i) \/ AnySettle(i)
      PROVE  CallInv'
  <2>1. /\ gpc[i] # "off" /\ i \in done /\ UNCHANGED <<comb, args, apc>>
        /\ \E q \in {"got", "exit"} : gpc' = [gpc EXCEPT ![i] = q]
    BY <1>s, <1>7 DEF CallInv, Awaited, RaceSettle, AnySettle
  <2>2. comb # "none"
    BY <1>s, <2>1 DEF CallInv
  <2> QED BY <1>s, <1>n, <2>1, <2>2 DEF CallInv, TypeOK
<1>8. CASE Canceller
  <2>1. UNCHANGED <<comb, args, apc, gpc, call>>
    BY <1>8 DEF Canceller, RaceDecided, RaceScan, RaceKill
  <2>2. Result \in done' => Result \in done
    BY <1>8 DEF Canceller, RaceDecided, RaceScan, RaceKill, Cancel, cells
  <2> QED BY <1>s, <1>n, <2>1, <2>2 DEF CallInv
<1>9. ASSUME NEW m \in {"await", "timeout", "context"}, CallerWait(m) PROVE CallInv'
  BY <1>1, <1>9 DEF CallerWait, cells
<1>10. CASE CallerGot \/ CallerTimeout \/ CallerContextDone
  BY <1>1, <1>s, <1>10 DEF CallerGot, CallerTimeout, CallerContextDone, CallInv, cells
<1>11. CASE CallerCancels
  BY <1>1, <1>s, <1>11 DEF CallerCancels, CallInv
<1>12. CASE UNCHANGED vars
  BY <1>1, <1>12 DEF vars, cells
<1> QED BY <1>2, <1>3, <1>4, <1>5, <1>6, <1>7, <1>8, <1>9, <1>10, <1>11, <1>12 DEF Next

LEMMA AnyStep ==
  ASSUME Inv, [Next]_vars
  PROVE  AnyInv'
<1> USE CellFacts
<1>s. /\ Stable /\ TypeOK /\ TypeOK' /\ CallInv /\ CallInv' /\ AnyInv /\ CellInv
      /\ \A i \in errored : i \in Leaf
  BY TypeStep, CallStep, StepWritesOnce, WriteStable DEF Inv, TypeOK
<1>r. \A i \in Leaf : state[i] = "rejected" => i \in done /\ state'[i] = "rejected"
  BY <1>s DEF CellInv, Stable
<1>1. CASE UNCHANGED <<args, errored>>
  BY <1>s, <1>r, <1>1 DEF AnyInv
<1>2. ASSUME NEW i \in Leaf, AnySettle(i) PROVE AnyInv'
  <2>1. i \in args /\ args' = args
    BY <1>s, <1>2 DEF CallInv, AnySettle
  <2>2. errored' = errored \/ (errored' = errored \cup {i} /\ state[i] = "rejected")
    BY <1>2 DEF AnySettle
  <2>3. \A j \in errored' : j \in args /\ j \in Leaf /\ state[j] = "rejected"
    BY <1>s, <2>1, <2>2 DEF AnyInv
  <2> QED BY <1>r, <2>1, <2>3 DEF AnyInv
<1>3. CASE comb = "none" /\ UNCHANGED errored
  BY <1>s, <1>3 DEF CallInv, AnyInv
<1>4. CASE AllStep \/ Canceller
  BY <1>1, <1>4 DEF AllStep, AllAwait, AllCancel, AllReject, AllResolve,
                    Canceller, RaceDecided, RaceScan, RaceKill
<1>5. ASSUME NEW f \in Leaf, Worker(f) PROVE AnyInv'
  BY <1>1, <1>5 DEF Worker, WorkerStart, WorkerCompute, WorkerCheck, WorkerSettle, combs
<1>6. ASSUME NEW fs \in SUBSET Leaf, CallAll(fs) \/ CallRace(fs) \/ CallAny(fs)
      PROVE  AnyInv'
  BY <1>3, <1>6 DEF CallAll, CallRace, CallAny
<1>7. ASSUME NEW k \in Combinators, CallEmpty(k) PROVE AnyInv'
  BY <1>3, <1>7 DEF CallEmpty
<1>8. ASSUME NEW i \in Leaf, Awaited(i) \/ RaceSettle(i) PROVE AnyInv'
  BY <1>1, <1>8 DEF Awaited, RaceSettle
<1>9. CASE UNCHANGED combs
  BY <1>1, <1>9 DEF combs
<1> QED BY <1>2, <1>4, <1>5, <1>6, <1>7, <1>8, <1>9
        DEF Next, UserCancel, CallerWait, CallerGot, CallerTimeout, CallerContextDone,
            CallerCancels, vars

LEMMA CallerStep ==
  ASSUME Inv, [Next]_vars
  PROVE  CallerInv'
<1> USE CellFacts
<1>s. Stable /\ TypeOK /\ CallerInv
  BY StepWritesOnce, WriteStable DEF Inv
<1>1. CASE UNCHANGED call
  BY <1>s, <1>1 DEF Stable, CallerInv
<1>2. CASE CallerGot
  <2>1. /\ Result \in done /\ UNCHANGED cells
        /\ call'.out = state[Result] /\ call'.what = payload[Result]
    BY <1>s, <1>2 DEF CallerGot, TypeOK
  <2> QED BY <1>s, <2>1 DEF CallerInv, cells
<1>3. CASE CallerTimeout
  <2>1. call'.out = "timeout"
    BY <1>s, <1>3 DEF CallerTimeout, TypeOK
  <2> QED BY <2>1 DEF CallerInv, Settled
<1>4. CASE CallerContextDone
  <2>1. call'.pc = "cancelling"
    BY <1>s, <1>4 DEF CallerContextDone, TypeOK
  <2> QED BY <2>1 DEF CallerInv
<1>5. CASE CallerCancels
  <2>1. call'.out = "context"
    BY <1>s, <1>5 DEF CallerCancels, TypeOK
  <2> QED BY <2>1 DEF CallerInv, Settled
<1>6. ASSUME NEW m \in {"await", "timeout", "context"}, CallerWait(m) PROVE CallerInv'
  <2>1. call'.pc = "wait"
    BY <1>s, <1>6 DEF CallerWait, TypeOK
  <2> QED BY <2>1 DEF CallerInv
<1>7. ASSUME NEW f \in Leaf, Worker(f) PROVE CallerInv'
  BY <1>1, <1>7 DEF Worker, WorkerStart, WorkerCompute, WorkerCheck, WorkerSettle
<1>8. ASSUME NEW fs \in SUBSET Leaf, CallAll(fs) \/ CallRace(fs) \/ CallAny(fs)
      PROVE  CallerInv'
  BY <1>1, <1>8 DEF CallAll, CallRace, CallAny
<1>9. CASE AllStep \/ Canceller
  BY <1>1, <1>9 DEF AllStep, AllAwait, AllCancel, AllReject, AllResolve,
                    Canceller, RaceDecided, RaceScan, RaceKill
<1>10. ASSUME NEW i \in Leaf, Awaited(i) \/ RaceSettle(i) \/ AnySettle(i)
       PROVE  CallerInv'
  BY <1>1, <1>10 DEF Awaited, RaceSettle, AnySettle
<1> QED BY <1>1, <1>2, <1>3, <1>4, <1>5, <1>6, <1>7, <1>8, <1>9, <1>10
        DEF Next, UserCancel, CallEmpty, vars

\* A cell that is not pending keeps its state and payload.
LEMMA OutcomeKept ==
  ASSUME Inv, [Next]_vars
  PROVE  /\ Stable /\ TypeOK' /\ CallInv' /\ CellInv'
         /\ \A i \in Leaf : state[i] \in Settled =>
              i \in done /\ i \in done' /\ state'[i] = state[i] /\ payload'[i] = payload[i]
<1>1. Stable /\ CellInv' /\ TypeOK' /\ CallInv'
  BY TypeStep, CallStep, StepWritesOnce, WriteStable DEF Inv
<1>2. \A i \in Leaf : state[i] \in Settled => i \in done
  BY CellFacts DEF Inv, CellInv, Settled
<1> QED BY <1>1, <1>2 DEF Stable

LEMMA AllInvStep ==
  ASSUME Inv, [Next]_vars
  PROVE  AllInv'
<1> USE CellFacts
<1>s. /\ TypeOK /\ CellInv /\ CallInv /\ AllInv
      /\ Stable /\ TypeOK' /\ CellInv'
  BY OutcomeKept DEF Inv
<1>k. \A i \in Leaf : state[i] \in Settled =>
         i \in done /\ i \in done' /\ state'[i] = state[i] /\ payload'[i] = payload[i]
  BY OutcomeKept
<1>v. \A i \in Leaf : /\ state[i] = "resolved" => state'[i] = "resolved" /\ i \in done
                      /\ state[i] = "rejected" => state'[i] = "rejected" /\ i \in done
                                                  /\ payload'[i] = payload[i]
                      /\ i \in done => i \in done'
  BY <1>s, <1>k DEF Settled, Stable
<1>a. args \subseteq Leaf /\ todo \subseteq Leaf
  BY <1>s DEF TypeOK
\* Steps outside All that do not settle Result other than by cancelling it.
<1>1. ASSUME UNCHANGED <<comb, args, apc, todo, failure>>,
             comb = "All" /\ Result \in done' => Result \in done \/ Result \in cancel'
      PROVE  AllInv'
  <2>1. SUFFICES ASSUME comb = "All" PROVE AllInv'
    BY <1>1 DEF AllInv
  <2>2. apc = "await" => \A j \in args \ todo : state'[j] = "resolved"
    BY <1>s, <1>v, <1>a, <2>1 DEF AllInv
  <2>3. ASSUME apc = "cancel"
        PROVE  /\ \A j \in args \ todo : j \in done'
               /\ \E i \in args : /\ i \notin todo /\ state'[i] = "rejected"
                                  /\ failure = payload'[i]
                                  /\ \A j \in args : j < i => state'[j] = "resolved"
    BY <1>s, <1>v, <1>a, <2>1, <2>3 DEF AllInv
  <2>4. apc # "exit" /\ Result \in done' => Result \in cancel'
    BY <1>s, <1>1, <2>1 DEF AllInv, Stable
  <2> QED BY <1>s, <1>1, <2>1, <2>2, <2>3, <2>4 DEF AllInv
<1>2. CASE AllAwait
  <2>1. comb = "All" /\ comb' = "All" /\ args' = args /\ UNCHANGED cells /\ apc = "await"
    BY <1>s, <1>2 DEF CallInv, AllAwait
  <2>2. PICK i \in Leaf : /\ IsFirst(i, todo) /\ i \in done /\ todo' = todo \ {i}
                          /\ IF state[i] = "rejected"
                             THEN apc' = "cancel" /\ failure' = payload[i]
                             ELSE UNCHANGED <<apc, failure>>
    BY <1>2 DEF AllAwait
  <2>3. state[i] = "rejected" \/ state[i] = "resolved"
    BY <1>s, <2>2 DEF TypeOK, CellInv, Settled
  <2>4. \A j \in args \ todo : state[j] = "resolved" /\ j \in done
    BY <1>s, <1>v, <1>a, <2>1 DEF AllInv
  <2>5. i \in args /\ \A j \in args : j < i => j \notin todo
    BY <1>s, <1>a, <2>1, <2>2 DEF AllInv, IsFirst
  <2>6. CASE state[i] = "rejected"
    <3>1. apc' = "cancel" /\ \A j \in args' \ todo' : j \in done'
      BY <2>1, <2>2, <2>4, <2>6 DEF cells
    <3>2. /\ i \in args' /\ i \notin todo' /\ state'[i] = "rejected"
          /\ failure' = payload'[i]
          /\ \A j \in args' : j < i => state'[j] = "resolved"
      BY <2>1, <2>2, <2>4, <2>5, <2>6 DEF cells
    <3>3. todo' \subseteq args' /\ (Result \in done' => Result \in cancel')
      BY <1>s, <2>1, <2>2 DEF AllInv, cells
    <3> QED BY <3>1, <3>2, <3>3 DEF AllInv
  <2>7. CASE state[i] = "resolved"
    <3>1. apc' = "await" /\ \A j \in args' \ todo' : state'[j] = "resolved"
      BY <2>1, <2>2, <2>4, <2>7 DEF cells
    <3>2. todo' \subseteq args' /\ (Result \in done' => Result \in cancel')
      BY <1>s, <2>1, <2>2 DEF AllInv, cells
    <3> QED BY <3>1, <3>2 DEF AllInv
  <2> QED BY <2>3, <2>6, <2>7
<1>3. CASE AllCancel
  <2>1. comb = "All" /\ UNCHANGED <<comb, args, apc, failure>> /\ apc = "cancel"
    BY <1>s, <1>3 DEF CallInv, AllCancel
  <2>2. PICK i \in Leaf : i \in todo /\ Cancel(i) /\ todo' = todo \ {i}
    BY <1>3 DEF AllCancel, IsFirst
  <2>3. i \in done' /\ (Result \in done' => Result \in done)
    BY <2>2 DEF Cancel, cells
  <2>4. \A j \in args' \ todo' : j \in done'
    BY <1>s, <1>v, <1>a, <2>1, <2>2, <2>3 DEF AllInv
  <2>5. PICK k \in args : /\ k \notin todo /\ state[k] = "rejected" /\ failure = payload[k]
                          /\ \A j \in args : j < k => state[j] = "resolved"
    BY <1>s, <2>1 DEF AllInv
  <2>6. /\ k \in args' /\ k \notin todo' /\ state'[k] = "rejected" /\ failure' = payload'[k]
        /\ \A j \in args' : j < k => state'[j] = "resolved"
    BY <1>v, <1>a, <2>1, <2>2, <2>5
  <2>7. todo' \subseteq args' /\ (Result \in done' => Result \in cancel')
    BY <1>s, <2>1, <2>2, <2>3 DEF AllInv, Stable
  <2> QED BY <2>1, <2>4, <2>6, <2>7 DEF AllInv
<1>4. CASE AllReject \/ AllResolve
  BY <1>s, <1>4 DEF AllReject, AllResolve, AllInv
<1>5. ASSUME NEW fs \in SUBSET Leaf, CallAll(fs) \/ CallRace(fs) \/ CallAny(fs)
      PROVE  AllInv'
  <2>1. Result \notin done /\ UNCHANGED cells
    BY <1>s, <1>5 DEF CallInv, CallAll, CallRace, CallAny
  <2> QED BY <1>5, <2>1 DEF AllInv, CallAll, CallRace, CallAny, cells
<1>6. ASSUME NEW k \in Combinators, CallEmpty(k) PROVE AllInv'
  BY <1>6 DEF CallEmpty, AllInv
<1>7. ASSUME NEW f \in Leaf, Worker(f) PROVE AllInv'
  <2>1. UNCHANGED combs /\ (Result \in done' => Result \in done)
    BY <1>7 DEF Worker, WorkerStart, WorkerCompute, WorkerCheck, WorkerSettle,
                Resolve, Reject, Settle, cells
  <2> QED BY <1>1, <2>1 DEF combs
<1>8. ASSUME NEW f \in Cell, UserCancel(f) PROVE AllInv'
  BY <1>1, <1>8 DEF UserCancel, Cancel, combs, cells
<1>9. ASSUME NEW i \in Leaf, Awaited(i) \/ RaceSettle(i) \/ AnySettle(i)
      PROVE  AllInv'
  BY <1>1, <1>9 DEF Awaited, RaceSettle, AnySettle, cells
<1>10. CASE Canceller
  <2>1. UNCHANGED <<comb, args, apc, todo, failure>>
    BY <1>10 DEF Canceller, RaceDecided, RaceScan, RaceKill
  <2>2. Result \in done' => Result \in done
    BY <1>10 DEF Canceller, RaceDecided, RaceScan, RaceKill, Cancel, cells
  <2> QED BY <1>1, <2>1, <2>2
<1>11. CASE CallerCancels
  BY <1>1, <1>11 DEF CallerCancels, Cancel, combs, cells
<1>12. CASE UNCHANGED <<cells, combs>>
  BY <1>1, <1>12 DEF combs, cells
<1> QED BY <1>2, <1>3, <1>4, <1>5, <1>6, <1>7, <1>8, <1>9, <1>10, <1>11, <1>12
        DEF Next, AllStep, CallerWait, CallerGot, CallerTimeout, CallerContextDone, vars

(***************************************************************************)
(* The steps that decide a result.                                         *)
(***************************************************************************)
LEMMA WhoDecides ==
  ASSUME Inv, Next, Result \notin done, Result \in done', Result \notin cancel'
  PROVE  \/ AllReject \/ AllResolve
         \/ \E i \in Leaf : RaceSettle(i) \/ AnySettle(i)
         \/ \E k \in Combinators : CallEmpty(k)
<1> USE CellFacts
<1>1. ASSUME NEW f \in Leaf, Worker(f) PROVE FALSE
  BY <1>1 DEF Worker, WorkerStart, WorkerCompute, WorkerCheck, WorkerSettle,
              Resolve, Reject, Settle, cells
<1>2. ASSUME NEW f \in Cell, Cancel(f) PROVE FALSE
  BY <1>2 DEF Cancel, cells
<1>3. ~UNCHANGED cells
  BY DEF cells
<1>4. ASSUME NEW fs \in SUBSET Leaf, CallAll(fs) \/ CallRace(fs) \/ CallAny(fs)
      PROVE  FALSE
  BY <1>3, <1>4 DEF CallAll, CallRace, CallAny
<1>5. AllStep => AllReject \/ AllResolve
  BY <1>2, <1>3 DEF AllStep, AllAwait, AllCancel
<1>6. ASSUME NEW i \in Leaf, Awaited(i) PROVE FALSE
  BY <1>3, <1>6 DEF Awaited
<1>7. ~Canceller
  BY <1>2, <1>3 DEF Canceller, RaceDecided, RaceScan, RaceKill
<1>8. ~CallerGot /\ ~CallerTimeout /\ ~CallerContextDone /\ ~CallerCancels
  BY <1>2, <1>3 DEF CallerGot, CallerTimeout, CallerContextDone, CallerCancels
<1>9. ASSUME NEW m \in {"await", "timeout", "context"}, CallerWait(m) PROVE FALSE
  BY <1>3, <1>9 DEF CallerWait
<1>10. ASSUME NEW f \in Cell, UserCancel(f) PROVE FALSE
  BY <1>2, <1>10 DEF UserCancel
<1> QED BY <1>1, <1>4, <1>5, <1>6, <1>7, <1>8, <1>9, <1>10 DEF Next

\* A decided result stays decided, by the same call on the same futures.
LEMMA CallKept ==
  ASSUME Inv, [Next]_vars, Result \in done
  PROVE  UNCHANGED <<comb, args>>
<1>1. comb # "none"
  BY DEF Inv, CallInv
<1>2. CASE UNCHANGED vars
  BY <1>2 DEF vars, combs
<1>3. ASSUME NEW f \in Leaf, Worker(f) PROVE UNCHANGED <<comb, args>>
  BY <1>3 DEF Worker, WorkerStart, WorkerCompute, WorkerCheck, WorkerSettle, combs
<1>4. ASSUME NEW i \in Leaf, Awaited(i) \/ RaceSettle(i) \/ AnySettle(i)
      PROVE  UNCHANGED <<comb, args>>
  BY <1>4 DEF Awaited, RaceSettle, AnySettle
<1>5. CASE AllStep
  BY <1>5 DEF AllStep, AllAwait, AllCancel, AllReject, AllResolve
<1>6. CASE Canceller
  BY <1>6 DEF Canceller, RaceDecided, RaceScan, RaceKill
<1> QED BY <1>1, <1>2, <1>3, <1>4, <1>5, <1>6
        DEF Next, UserCancel, CallAll, CallRace, CallAny, CallEmpty, CallerWait,
            CallerGot, CallerTimeout, CallerContextDone, CallerCancels, combs

LEMMA ContractsKept ==
  ASSUME Inv, [Next]_vars, Decided
  PROVE  Contracts'
<1> USE CellFacts
<1>1. UNCHANGED <<comb, args>> /\ Contracts /\ TypeOK /\ args \subseteq Leaf
  BY CallKept DEF Decided, Inv, TypeOK
<1>2. state'[Result] = state[Result] /\ payload'[Result] = payload[Result] /\ Decided'
  BY OutcomeKept DEF Stable, Decided
<1>3. \A i \in Leaf : i \in done =>
         i \in done' /\ state'[i] = state[i] /\ payload'[i] = payload[i]
  BY OutcomeKept DEF Stable
<1>4. \A i \in Leaf : state[i] \in Settled => i \in done
  BY OutcomeKept
<1>5. AllContract'
  BY <1>1, <1>2, <1>3 DEF Contracts, AllContract, Decided
<1>6. RaceContract'
  BY <1>1, <1>2, <1>3 DEF Contracts, RaceContract, Decided
<1>7. AnyContract'
  BY <1>1, <1>2, <1>3, <1>4 DEF Contracts, AnyContract, Decided, Settled
<1> QED BY <1>5, <1>6, <1>7 DEF Contracts

LEMMA AllDecides ==
  ASSUME Inv, Result \notin done, AllReject \/ AllResolve
  PROVE  Contracts'
<1> USE CellFacts
<1>s. TypeOK /\ CellInv /\ CallInv /\ AllInv /\ args \subseteq Leaf
  BY DEF Inv, TypeOK
<1>c. comb = "All" /\ UNCHANGED <<comb, args>>
  BY <1>s DEF CallInv, AllReject, AllResolve
<1>1. CASE AllReject
  <2>1. /\ done' = done \cup {Result} /\ state' = [state EXCEPT ![Result] = "rejected"]
        /\ payload' = [payload EXCEPT ![Result] = failure]
    BY <1>1 DEF AllReject, Reject, Settle
  <2>2. /\ state'[Result] = "rejected" /\ payload'[Result] = failure
        /\ \A i \in Leaf : state'[i] = state[i] /\ payload'[i] = payload[i]
    BY <1>s, <2>1 DEF TypeOK
  <2>3. /\ \A j \in args : j \in done
        /\ \E i \in args : /\ state[i] = "rejected" /\ failure = payload[i]
                           /\ \A j \in args : j < i => state[j] = "resolved"
    BY <1>s, <1>c, <1>1 DEF AllInv, AllReject
  <2> QED BY <1>s, <1>c, <2>1, <2>2, <2>3
          DEF Contracts, AllContract, RaceContract, AnyContract
<1>2. CASE AllResolve
  <2>1. /\ done' = done \cup {Result} /\ state' = [state EXCEPT ![Result] = "resolved"]
    BY <1>2 DEF AllResolve, Resolve, Settle
  <2>2. state'[Result] = "resolved" /\ \A i \in Leaf : state'[i] = state[i]
    BY <1>s, <2>1 DEF TypeOK
  <2>3. \A j \in args : state[j] = "resolved" /\ j \in done
    BY <1>s, <1>c, <1>2 DEF AllInv, AllResolve, CellInv
  <2> QED BY <1>s, <1>c, <2>1, <2>2, <2>3
          DEF Contracts, AllContract, RaceContract, AnyContract
<1> QED BY <1>1, <1>2

LEMMA RaceDecides ==
  ASSUME Inv, Result \notin done, NEW i \in Leaf, RaceSettle(i)
  PROVE  Contracts'
<1> USE CellFacts
<1>s. TypeOK /\ CellInv /\ CallInv
  BY DEF Inv
<1>1. comb = "Race" /\ UNCHANGED <<comb, args>> /\ i \in args /\ i \in done /\ Forward(Result, i)
  BY <1>s DEF RaceSettle, CallInv
<1>2. Settle(Result, state[i], payload[i])
  BY <1>1, <1>s, ForwardSettles
<1>3. /\ done' = done \cup {Result} /\ state' = [state EXCEPT ![Result] = state[i]]
      /\ payload' = [payload EXCEPT ![Result] = payload[i]]
  BY <1>2 DEF Settle
<1>4. /\ state'[Result] = state[i] /\ payload'[Result] = payload[i]
      /\ state'[i] = state[i] /\ payload'[i] = payload[i] /\ i \in done'
  BY <1>1, <1>3, <1>s DEF TypeOK
<1> QED BY <1>1, <1>4 DEF Contracts, AllContract, RaceContract, AnyContract

LEMMA AnyDecides ==
  ASSUME Inv, Result \notin done, NEW i \in Leaf, AnySettle(i), Result \in done'
  PROVE  Contracts'
<1> USE CellFacts
<1>s. TypeOK /\ CellInv /\ CallInv /\ AnyInv /\ args \subseteq Leaf
  BY DEF Inv, TypeOK
<1>1. comb = "Any" /\ UNCHANGED <<comb, args>> /\ i \in args /\ i \in done
  BY <1>s DEF AnySettle, CallInv
<1>2. CASE state[i] = "rejected"
  <2>1. /\ errored' = errored \cup {i} /\ Cardinality(errored') = Cardinality(args)
        /\ Reject(Result, args)
    BY <1>2 DEF AnySettle, cells
  <2>2. errored' \subseteq args
    BY <1>s, <1>1, <2>1 DEF AnyInv
  <2>3. IsFiniteSet(args)
    <3>1. IsFiniteSet(Leaf)
      BY FS_Interval, NAssumption DEF Leaf
    <3> QED BY <3>1, <1>s, FS_Subset
  <2>4. errored' = args
    BY <2>1, <2>2, <2>3, FS_Subset
  <2>5. \A j \in args : state[j] = "rejected"
    BY <1>s, <1>2, <2>1, <2>4 DEF AnyInv
  <2>6. state' = [state EXCEPT ![Result] = "rejected"]
    BY <2>1 DEF Reject, Settle
  <2>7. state'[Result] = "rejected" /\ \A j \in args : state'[j] = "rejected"
    BY <1>s, <2>5, <2>6 DEF TypeOK
  <2> QED BY <1>1, <2>7 DEF Contracts, AllContract, RaceContract, AnyContract
<1>3. CASE state[i] # "rejected"
  <2>1. state[i] = "resolved" /\ Resolve(Result, payload[i])
    BY <1>s, <1>1, <1>3 DEF AnySettle, TypeOK, CellInv, Settled
  <2>2. /\ state' = [state EXCEPT ![Result] = "resolved"]
        /\ payload' = [payload EXCEPT ![Result] = payload[i]]
    BY <2>1 DEF Resolve, Settle
  <2>3. /\ state'[Result] = "resolved" /\ payload'[Result] = payload[i]
        /\ state'[i] = "resolved" /\ payload'[i] = payload[i]
    BY <1>s, <2>1, <2>2 DEF TypeOK
  <2> QED BY <1>1, <2>3 DEF Contracts, AllContract, RaceContract, AnyContract
<1> QED BY <1>2, <1>3

LEMMA ContractsStep ==
  ASSUME Inv, [Next]_vars
  PROVE  Contracts'
<1>1. CASE Decided
  BY <1>1, ContractsKept
<1>2. CASE ~Decided'
  BY <1>2 DEF Contracts, AllContract, RaceContract, AnyContract
<1>3. CASE ~Decided /\ Decided'
  <2>1. Result \notin done /\ Result \in done' /\ Result \notin cancel'
    BY <1>3, OutcomeKept DEF Decided, Stable
  <2>2. Next
    BY <2>1 DEF vars, cells
  <2>3. ASSUME NEW k \in Combinators, CallEmpty(k) PROVE Contracts'
    <3>1. comb' # "All" /\ args' = {} /\ state' = [state EXCEPT ![Result] = "rejected"]
      BY <2>1, <2>3, CombinatorsAssumption DEF CallEmpty, Reject, Settle
    <3>2. state'[Result] = "rejected"
      BY <3>1, CellFacts DEF Inv, TypeOK
    <3> QED BY <3>1, <3>2 DEF Contracts, AllContract, RaceContract, AnyContract
  <2> QED BY <2>1, <2>2, <2>3, WhoDecides, AllDecides, RaceDecides, AnyDecides
<1> QED BY <1>1, <1>2, <1>3

-----------------------------------------------------------------------------
(* The theorems.                                                           *)

(***************************************************************************)
(* The inductive invariant of the futures holds in every reachable state.  *)
(***************************************************************************)
THEOREM Inductive == Spec => []Inv
<1>1. Init => Inv
  BY CellFacts DEF Init, Inv, TypeOK, CellInv, CallInv, AllInv, AnyInv, CallerInv, Contracts,
                   AllContract, RaceContract, AnyContract, Decided, Settled
<1>2. Inv /\ [Next]_vars => Inv'
  BY OutcomeKept, AllInvStep, AnyStep, CallerStep, ContractsStep DEF Inv
<1> QED BY <1>1, <1>2, PTL DEF Spec

(***************************************************************************)
(* Every variable keeps its type, for any number of futures.               *)
(***************************************************************************)
THEOREM TypeCorrect == Spec => []TypeOK
<1>1. Inv => TypeOK
  BY DEF Inv
<1> QED BY <1>1, Inductive, PTL

(***************************************************************************)
(* future.go All, Race, Any: the result of a combinator that nobody        *)
(* cancelled is the one its arguments justify, however many there are and  *)
(* however their goroutines, cancels and timeouts interleave.              *)
(***************************************************************************)
THEOREM CombinatorsCorrect == Spec => []Contracts
<1>1. Inv => Contracts
  BY DEF Inv
<1> QED BY <1>1, Inductive, PTL

(***************************************************************************)
(* future.go Await: what an Await returned is what the future holds ever   *)
(* after.                                                                  *)
(***************************************************************************)
THEOREM AwaitCorrect == Spec => []AwaitStable
<1>1. Inv => AwaitStable
  BY DEF Inv, CallerInv, AwaitStable
<1> QED BY <1>1, Inductive, PTL

(***************************************************************************)
(* future.go Resolve, Reject, Cancel: the futures implement the write-once *)
(* cells of OneShot: "Can only be called once; subsequent calls are        *)
(* ignored", for all goroutines together.                                  *)
(***************************************************************************)
THEOREM FuturesAreOneShot == Spec => ImplementsOneShot
<1> DEFINE out == [f \in Cell |-> IF f \in done THEN {<<state[f], payload[f]>>} ELSE {}]
<1>1. Init => Cells!Init
  BY DEF Init, Cells!Init
<1>2. Inv /\ [Next]_vars => [Cells!Next]_out
  <2> SUFFICES ASSUME Inv, [Next]_vars PROVE [Cells!Next]_out
    OBVIOUS
  <2>1. CASE UNCHANGED cells
    BY <2>1 DEF cells
  <2>2. ASSUME NEW f \in Cell, Write(f) PROVE Cells!Next
    <3>1. PICK st \in Settled : state' = [state EXCEPT ![f] = st]
      BY <2>2 DEF Write
    <3>2. PICK p \in SUBSET Leaf : payload' = [payload EXCEPT ![f] = p]
      BY <2>2 DEF Write
    <3>3. state \in [Cell -> Settled \cup {"pending"}] /\ payload \in [Cell -> SUBSET Leaf]
      BY DEF Inv, TypeOK
    <3>4. /\ out[f] = {} /\ out'[f] = {<<st, p>>}
          /\ \A g \in Cell : g # f => out'[g] = out[g]
      BY <2>2, <3>1, <3>2, <3>3 DEF Write
    <3>5. out' = [out EXCEPT ![f] = {<<st, p>>}]
      BY <3>4
    <3>6. Cells!Settle(f, <<st, p>>)
      BY <3>4, <3>5 DEF Cells!Settle
    <3>7. <<st, p>> \in Settled \X (SUBSET Leaf)
      BY <3>1, <3>2
    <3> QED BY <3>6, <3>7 DEF Cells!Next
  <2> QED BY <2>1, <2>2, StepWritesOnce DEF WriteOnce
<1> QED BY <1>1, <1>2, Inductive, PTL DEF Spec, ImplementsOneShot, Cells!Spec
=============================================================================
