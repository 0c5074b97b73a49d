------------------------- MODULE RouteExecutionProofs -------------------------
(***************************************************************************)
(* Verified bytecode leaves the stack as it should: proofs about           *)
(* RouteExecution for any programs whose code VerifiedCode accepts, any    *)
(* stack limit and any number of async blocks.                             *)
(***************************************************************************)
EXTENDS VerifiedCode, TLAPS

----------------------------------------------------------------------------
(* Sequences of values of any kind *)

IsSeq(s) == \E S : s \in Seq(S)

\* A value may be appended to a sequence of any others.
LEMMA AppendSeq ==
  ASSUME NEW s, IsSeq(s), NEW v
  PROVE  /\ IsSeq(Append(s, v)) /\ Len(Append(s, v)) = Len(s) + 1
         /\ \A i \in 1..Len(s) : Append(s, v)[i] = s[i]
         /\ Append(s, v)[Len(s) + 1] = v
<1>1. PICK S : s \in Seq(S)
  BY DEF IsSeq
<1> DEFINE T == S \cup {v}
<1>2. s \in Seq(T) /\ v \in T
  BY <1>1
<1>3. Append(s, v) \in Seq(T)
  BY <1>2
<1> HIDE DEF T
<1> QED
  BY <1>2, <1>3 DEF IsSeq

\* The first n elements of a sequence.
LEMMA PrefixSeq ==
  ASSUME NEW s, IsSeq(s), NEW n \in 0..Len(s)
  PROVE  /\ IsSeq(SubSeq(s, 1, n)) /\ Len(SubSeq(s, 1, n)) = n
         /\ \A i \in 1..n : SubSeq(s, 1, n)[i] = s[i]
<1>1. PICK S : s \in Seq(S)
  BY DEF IsSeq
<1>2. SubSeq(s, 1, n) \in Seq(S)
  BY <1>1
<1> QED
  BY <1>1, <1>2 DEF IsSeq

LEMMA LenSeq ==
  ASSUME NEW s, IsSeq(s)
  PROVE  Len(s) \in Nat /\ DOMAIN s = 1..Len(s) /\ (s = << >> <=> Len(s) = 0)
<1>1. PICK S : s \in Seq(S)
  BY DEF IsSeq
<1> QED
  BY <1>1

LEMMA SomeSeq == ASSUME NEW s, NEW T, s \in Seq(T) PROVE IsSeq(s)
BY DEF IsSeq

LEMMA NoValues == ASSUME NEW s, s = << >> PROVE IsSeq(s) /\ Len(s) = 0
<1>1. s \in Seq(Nat) /\ Len(s) = 0
  OBVIOUS
<1> QED
  BY <1>1, SomeSeq

\* What the stack operations do to the number of values.
LEMMA DroppedSeq ==
  ASSUME NEW s, IsSeq(s), NEW n \in Nat, n <= Len(s)
  PROVE  IsSeq(Dropped(s, n)) /\ Len(Dropped(s, n)) = Len(s) - n
<1>1. Len(s) - n \in 0..Len(s)
  BY LenSeq
<1> QED
  BY <1>1, PrefixSeq DEF Dropped

LEMMA PushedSeq ==
  ASSUME NEW s, IsSeq(s), Len(s) <= MaxStackSize, NEW v
  PROVE  /\ IsSeq(Pushed(s, v)) /\ Len(Pushed(s, v)) <= MaxStackSize
         /\ Len(s) <= Len(Pushed(s, v)) /\ Len(Pushed(s, v)) <= Len(s) + 1
         /\ ~Full(s) => Len(Pushed(s, v)) = Len(s) + 1
<1> USE StackAssumption
<1>1. Len(s) \in Nat
  BY LenSeq
<1>2. CASE Full(s)
  BY <1>1, <1>2 DEF Pushed
<1>3. CASE ~Full(s)
  BY <1>1, <1>3, AppendSeq DEF Pushed, Full
<1> QED
  BY <1>2, <1>3

----------------------------------------------------------------------------
(* What a step does to a machine *)

Fields == DOMAIN Unused

Shape == DOMAIN vm = Threads /\ \A t \in Threads : DOMAIN vm[t] = Fields

\* The stack of a machine is a sequence that keeps to its limit.
StackOK(m) == IsSeq(m.stack) /\ Len(m.stack) <= MaxStackSize

\* n has d more values than m, unless a push was dropped.
Exact(m, n, d) == ~n.dropped => ~m.dropped /\ Len(n.stack) = Len(m.stack) + d

\* m runs on as n from the address pc, with at most d more values and names bound.
Goes(m, n, pc, d, names) ==
  /\ n.status = "running" /\ n.pc = pc
  /\ n.code = m.code /\ n.base = m.base /\ n.callStack = m.callStack /\ n.functions = m.functions
  /\ StackOK(n) /\ Len(n.stack) <= Len(m.stack) + d /\ Exact(m, n, d)
  /\ DOMAIN m.locals \cup names \subseteq DOMAIN n.locals

\* A machine that has ended without an error has an empty stack.
Ended(m) == m.status = "ended" /\ Len(m.stack) <= MaxStackSize /\ (m.result # Fail => m.stack = << >>)

Others(t) ==
  /\ DOMAIN vm' = Threads /\ DOMAIN vm'[t] = Fields
  /\ \A u \in Threads \ {t} : vm'[u] = vm[u]

LEMMA AbortEnds ==
  ASSUME Shape, NEW t \in Threads, StackOK(vm[t]), Abort(t)
  PROVE  Others(t) /\ Ended(vm'[t])
BY DEF Shape, Fields, Unused, Abort, Others, Ended, StackOK

LEMMA ReplaceGoes ==
  ASSUME Shape, NEW t \in Threads, Running(t), StackOK(vm[t]), NEW k \in Nat, Len(vm[t].stack) >= k, NEW v, Replace(t, k, v)
  PROVE  Others(t) /\ (Ended(vm'[t]) \/ Goes(vm[t], vm'[t], vm[t].pc + 1, 1 - k, {}))
<1>1. CASE v = Fail
  BY <1>1, AbortEnds DEF Replace
<1>2. CASE v # Fail
  <2> DEFINE rest == Dropped(vm[t].stack, k)
             new  == Pushed(rest, v)
  <2>1. vm' = [vm EXCEPT ![t].stack = new, ![t].pc = @ + 1, ![t].dropped = @ \/ Full(rest)]
    BY <1>2 DEF Replace
  <2>2. IsSeq(rest) /\ Len(rest) = Len(vm[t].stack) - k /\ Len(rest) \in Nat /\ Len(vm[t].stack) \in Nat
    BY DroppedSeq, LenSeq DEF StackOK
  <2>3. Len(rest) <= MaxStackSize
    BY <2>2, StackAssumption DEF StackOK
  <2>4. /\ IsSeq(new) /\ Len(new) <= MaxStackSize /\ Len(new) <= Len(rest) + 1
        /\ ~Full(rest) => Len(new) = Len(rest) + 1
    BY <2>2, <2>3, PushedSeq
  <2>5. Len(new) \in Nat
    BY <2>4, LenSeq
  <2> HIDE DEF rest, new
  <2>6. Others(t) /\ vm'[t].stack = new /\ vm'[t].pc = vm[t].pc + 1
    BY <2>1 DEF Shape, Fields, Unused, Others
  <2>7. \A f \in Fields \ {"stack", "pc", "dropped"} : vm'[t][f] = vm[t][f]
    BY <2>1 DEF Shape, Fields, Unused
  <2>8. Len(new) <= Len(vm[t].stack) + (1 - k)
    BY <2>2, <2>4, <2>5
  <2>9. Exact(vm[t], vm'[t], 1 - k)
    <3>1. vm'[t].dropped = (vm[t].dropped \/ Full(rest))
      BY <2>1 DEF Shape, Fields, Unused
    <3>2. ~Full(rest) => Len(new) = Len(vm[t].stack) + (1 - k)
      BY <2>2, <2>4, <2>5
    <3> QED
      BY <2>6, <3>1, <3>2 DEF Exact
  <2>10. Goes(vm[t], vm'[t], vm[t].pc + 1, 1 - k, {})
    BY <2>4, <2>6, <2>7, <2>8, <2>9 DEF Goes, StackOK, Running, Fields, Unused
  <2> QED
    BY <2>6, <2>10
<1> QED
  BY <1>1, <1>2

----------------------------------------------------------------------------
(* The invariant *)

\* The place of a machine, or of the caller a frame stands for.
At(x) == x.pc - x.base

\* x executes the block b and has the variables that are bound there.
Inside(x, b) ==
  /\ x.code = b.code /\ x.base = b.base /\ x.pc \in Int
  /\ At(x) \in Reached(b) /\ b.bound[At(x)] \subseteq DOMAIN x.locals

\* The blocks that are executed, the function called last with the highest number, and how many values
\* were on the stack when each began.
Levels == [Nat -> [block : Blocks, level : Nat]]

\* Behind the call the caller has what the function found on the stack and its result.
FramesFit(calls, w) ==
  \A k \in 1..Len(calls) :
     /\ Inside(calls[k], w[k - 1].block)
     /\ w[k].block.function
     /\ w[k].level + 1 <= w[k - 1].level + w[k - 1].block.height[At(calls[k])]

TopFits(m, top) == Inside(m, top.block) /\ Len(m.stack) <= top.level + top.block.height[At(m)]

\* Unless a push was dropped no block has fewer values than it takes.
Floors(m, w) ==
  ~m.dropped =>
     /\ w[Len(m.callStack)].level + w[Len(m.callStack)].block.floor[At(m)] <= Len(m.stack)
     /\ \A k \in 1..Len(m.callStack) :
          w[k - 1].level + w[k - 1].block.floor[At(m.callStack[k])] <= w[k].level + 1

Fits(m, w) ==
  /\ IsSeq(m.callStack) /\ StackOK(m)
  /\ w[0].level = 0 /\ ~w[0].block.function
  /\ FramesFit(m.callStack, w)
  /\ TopFits(m, w[Len(m.callStack)])
  /\ Floors(m, w)

FunctionsVerified(functions) ==
  \A f \in DOMAIN functions :
     \E b \in Blocks : BlockOf(b, functions[f].code, functions[f].base, TRUE) /\ b.bound[1] = {}

Runs(m) == m.status = "running" /\ FunctionsVerified(m.functions) /\ \E w \in Levels : Fits(m, w)

MachineOK(m) == (m.status = "unused" /\ m.stack = << >>) \/ Runs(m) \/ Ended(m)

MachinesOK == Shape /\ \A t \in Threads : MachineOK(vm[t])

Inv == program.tier # "ssa" => MachinesOK

----------------------------------------------------------------------------
(* Going on within a block *)

LEMMA BlockFacts ==
  ASSUME NEW b \in Blocks, NEW i \in Reached(b)
  PROVE  /\ i \in Nat /\ i >= 1 /\ i <= Len(b.code) + 1
         /\ b.height[i] \in Int /\ b.floor[i] \in Int /\ b.base \in Nat /\ b.function \in BOOLEAN
<1>1. BlockVerified(b)
  BY CodeAssumption
<1>2. i \in 1..(Len(b.code) + 1)
  BY <1>1 DEF BlockVerified
<1> QED
  BY <1>1, <1>2 DEF BlockVerified

LEMMA GoesFits ==
  ASSUME NEW m, NEW n, NEW w \in Levels, Fits(m, w), FunctionsVerified(m.functions),
         NEW pc \in Int, NEW j, NEW d \in Int, NEW names,
         j = pc - m.base, Leads(w[Len(m.callStack)].block, At(m), j, d, names),
         Goes(m, n, pc, d, names)
  PROVE  MachineOK(n)
<1> DEFINE top == w[Len(m.callStack)]
<1>1. Len(m.callStack) \in Nat
  BY LenSeq DEF Fits
<1>2. top.block \in Blocks /\ top.level \in Int
  BY <1>1 DEF Levels
<1>3. n.callStack = m.callStack /\ n.base = m.base /\ n.pc = pc /\ At(n) = j
  BY DEF Goes, At
<1>4. At(m) \in Reached(top.block) /\ j \in Reached(top.block)
  BY DEF Fits, TopFits, Inside, Leads
<1> DEFINE long == Len(n.stack)
           short == Len(m.stack)
           level == top.level
           here == top.block.height[At(m)]
           there == top.block.height[j]
           below == top.block.floor[At(m)]
           under == top.block.floor[j]
<1>5. here \in Int /\ there \in Int /\ below \in Int /\ under \in Int
  BY <1>2, <1>4, BlockFacts
<1>6. short \in Int /\ long \in Int /\ level \in Int
  BY <1>2, LenSeq DEF Fits, Goes, StackOK
<1>7. Inside(n, top.block)
  BY <1>3, <1>4 DEF Inside, Fits, TopFits, Goes, Leads
<1>8. long <= short + d /\ short <= level + here /\ here + d <= there /\ under <= below + d
  BY DEF Goes, Fits, TopFits, Leads
<1>9. ~n.dropped => ~m.dropped /\ long = short + d
  BY DEF Goes, Exact
<1>10. ~m.dropped => /\ level + below <= short
                     /\ \A k \in 1..Len(m.callStack) :
                          w[k - 1].level + w[k - 1].block.floor[At(m.callStack[k])] <= w[k].level + 1
  BY DEF Fits, Floors
<1> HIDE DEF long, short, level, here, there, below, under
<1>11. long <= level + there
  BY <1>5, <1>6, <1>8
<1>12. ~n.dropped => level + under <= long
  BY <1>5, <1>6, <1>8, <1>9, <1>10
<1>13. TopFits(n, top)
  BY <1>3, <1>7, <1>11 DEF TopFits, long, level, there
<1>14. Floors(n, w)
  BY <1>3, <1>9, <1>10, <1>12 DEF Floors, long, level, under
<1>15. Fits(n, w)
  BY <1>3, <1>13, <1>14 DEF Fits, Goes
<1> QED
  BY <1>15 DEF MachineOK, Runs, Goes

LEMMA AtInstruction ==
  ASSUME NEW t \in Threads, NEW w \in Levels, Fits(vm[t], w), InCode(t)
  PROVE  /\ InstructionVerified(w[Len(vm[t].callStack)].block, At(vm[t]), Opcode(t), Operand(t))
         /\ w[Len(vm[t].callStack)].block \in Blocks /\ At(vm[t]) \in Reached(w[Len(vm[t].callStack)].block)
         /\ vm[t].pc \in Int /\ vm[t].base \in Int /\ At(vm[t]) \in Int
<1> DEFINE b == w[Len(vm[t].callStack)].block
<1>1. Len(vm[t].callStack) \in Nat
  BY LenSeq DEF Fits
<1>2. b \in Blocks
  BY <1>1 DEF Levels
<1>3. BlockVerified(b)
  BY <1>2, CodeAssumption
<1>4. b.code = vm[t].code /\ b.base = vm[t].base /\ At(vm[t]) \in Reached(b) /\ vm[t].pc \in Int
  BY DEF Fits, TopFits, Inside
<1>5. At(vm[t]) \in DOMAIN b.code
  BY <1>4 DEF InCode, At
<1>6. InstructionVerified(b, At(vm[t]), b.code[At(vm[t])][1], b.code[At(vm[t])][2])
  BY <1>3, <1>4, <1>5 DEF BlockVerified
<1>7. b.base \in Nat
  BY <1>2, <1>4, BlockFacts
<1> HIDE DEF b
<1>8. At(vm[t]) \in Int
  BY <1>4, <1>7 DEF At
<1> QED
  BY <1>2, <1>4, <1>6, <1>7, <1>8 DEF b, Opcode, Operand, At

Special == {"Jump", "JumpIfFalse", "Return", "Halt", "Async", "StoreVar", "LoadVar"}

LEMMA TakesNat ==
  ASSUME NEW op, NEW arg, op \in {"BuildArray", "BuildObject", "Call"} => arg \in Nat
  PROVE  Takes(op, arg) \in Nat
BY DEF Takes, Arithmetic, Comparison, Logic, WsTells

\* An instruction that only works on the stack.
LEMMA NextFits ==
  ASSUME NEW t \in Threads, Runs(vm[t]), InCode(t), Opcode(t) \notin Special,
         NEW e \in Int, e + Takes(Opcode(t), Operand(t)) = Gives(Opcode(t), Operand(t)),
         Goes(vm[t], vm'[t], vm[t].pc + 1, e, {})
  PROVE  MachineOK(vm'[t])
<1>1. PICK w \in Levels : Fits(vm[t], w)
  BY DEF Runs
<1> DEFINE takes == Takes(Opcode(t), Operand(t))
           gives == Gives(Opcode(t), Operand(t))
<1>2. takes \in Nat /\ Leads(w[Len(vm[t].callStack)].block, At(vm[t]), At(vm[t]) + 1, gives - takes, {})
  BY <1>1, AtInstruction, TakesNat DEF InstructionVerified, Special
<1>3. gives \in Int
  BY DEF Gives
<1> HIDE DEF takes, gives
<1>4. vm[t].pc \in Int /\ vm[t].base \in Int
  BY <1>1, AtInstruction
<1>5. At(vm[t]) + 1 = (vm[t].pc + 1) - vm[t].base /\ vm[t].pc + 1 \in Int
  BY <1>4 DEF At
<1>6. e + takes = gives
  BY DEF takes, gives
<1>7. gives - takes = e
  BY <1>2, <1>3, <1>6
<1>8. FunctionsVerified(vm[t].functions)
  BY DEF Runs
<1> QED
  BY <1>1, <1>2, <1>5, <1>7, <1>8, GoesFits

\* The step of t ends its machine or leaves it as it should be.
Keeps(t) == Others(t) /\ MachineOK(vm'[t])

LEMMA RunningRuns == ASSUME NEW t \in Threads, MachineOK(vm[t]), Running(t) PROVE Runs(vm[t]) /\ StackOK(vm[t])
<1>1. Runs(vm[t])
  BY DEF MachineOK, Ended, Running
<1> QED
  BY <1>1 DEF Runs, Fits

LEMMA EndsKeep == ASSUME NEW t \in Threads, Others(t), Ended(vm'[t]) PROVE Keeps(t)
BY DEF Keeps, MachineOK

LEMMA AbortKeeps == ASSUME Shape, NEW t \in Threads, MachineOK(vm[t]), Running(t), Abort(t) PROVE Keeps(t)
BY RunningRuns, AbortEnds, EndsKeep

LEMMA ReplaceKeeps ==
  ASSUME Shape, NEW t \in Threads, MachineOK(vm[t]), Running(t), InCode(t), Opcode(t) \notin Special,
         NEW k, k = Takes(Opcode(t), Operand(t)), Gives(Opcode(t), Operand(t)) = 1,
         Len(vm[t].stack) >= k, NEW v, Replace(t, k, v)
  PROVE  Keeps(t)
<1>1. Runs(vm[t]) /\ StackOK(vm[t])
  BY RunningRuns
<1>2. PICK w \in Levels : Fits(vm[t], w)
  BY <1>1 DEF Runs
<1>3. k \in Nat
  BY <1>2, AtInstruction, TakesNat DEF InstructionVerified, Special
<1>4. Others(t) /\ (Ended(vm'[t]) \/ Goes(vm[t], vm'[t], vm[t].pc + 1, 1 - k, {}))
  BY <1>1, <1>3, ReplaceGoes
<1>5. 1 - k \in Int /\ (1 - k) + Takes(Opcode(t), Operand(t)) = Gives(Opcode(t), Operand(t))
  BY <1>3
<1>6. ASSUME Goes(vm[t], vm'[t], vm[t].pc + 1, 1 - k, {}) PROVE MachineOK(vm'[t])
  BY <1>1, <1>5, <1>6, NextFits
<1> QED
  BY <1>4, <1>6, EndsKeep DEF Keeps

----------------------------------------------------------------------------
(* One lemma for each kind of instruction *)

\* Instructions that replace the values they take by one.
LEMMA StackKeeps ==
  ASSUME Shape, NEW t \in Threads, MachineOK(vm[t]),
         \/ ExecPush(t) \/ ExecBinary(t) \/ ExecUnary(t) \/ ExecGetIndex(t) \/ ExecGetField(t)
         \/ ExecBuildArray(t) \/ ExecBuildObject(t) \/ ExecCall(t) \/ ExecAwait(t) \/ ExecTry(t)
         \/ ExecWsGetRooms(t) \/ ExecWsGetClients(t) \/ ExecWsCount(t)
  PROVE  Keeps(t)
<1> USE DEF Ready, Takes, Gives, Special, Arithmetic, Comparison, Logic, WsTells
<1>1. CASE ExecPush(t)
  BY <1>1, ReplaceKeeps DEF ExecPush
<1>2. CASE ExecBinary(t)
  BY <1>2, ReplaceKeeps DEF ExecBinary
<1>3. CASE ExecUnary(t)
  BY <1>3, ReplaceKeeps DEF ExecUnary
<1>4. CASE ExecGetIndex(t)
  BY <1>4, ReplaceKeeps DEF ExecGetIndex
<1>5. CASE ExecGetField(t)
  BY <1>5, ReplaceKeeps DEF ExecGetField
<1>6. CASE ExecBuildArray(t)
  BY <1>6, ReplaceKeeps DEF ExecBuildArray
<1>7. CASE ExecBuildObject(t)
  BY <1>7, ReplaceKeeps DEF ExecBuildObject
<1>8. CASE ExecCall(t)
  <2>1. PICK w \in Levels : Fits(vm[t], w)
    BY <1>8, RunningRuns DEF ExecCall, Runs
  <2>2. Operand(t) \in Nat /\ Len(vm[t].stack) \in Nat
    BY <1>8, <2>1, AtInstruction, LenSeq DEF ExecCall, InstructionVerified, Fits, StackOK
  <2> QED
    BY <1>8, <2>2, ReplaceKeeps DEF ExecCall
<1>9. CASE ExecAwait(t)
  BY <1>9, ReplaceKeeps DEF ExecAwait
<1>10. CASE ExecTry(t)
  BY <1>10, ReplaceKeeps DEF ExecTry
<1>11. CASE ExecWsGetRooms(t)
  BY <1>11, ReplaceKeeps, AbortKeeps DEF ExecWsGetRooms
<1>12. CASE ExecWsGetClients(t)
  BY <1>12, ReplaceKeeps, AbortKeeps DEF ExecWsGetClients
<1>13. CASE ExecWsCount(t)
  BY <1>13, ReplaceKeeps DEF ExecWsCount
<1> QED
  BY <1>1, <1>2, <1>3, <1>4, <1>5, <1>6, <1>7, <1>8, <1>9, <1>10, <1>11, <1>12, <1>13

\* What does not matter for going on.
Scratch == {"stack", "pc", "dropped", "iterators", "calls"}

\* Of the machines only t changes, and only in these fields.
Works(t, stack, pc) ==
  /\ Others(t) /\ vm'[t].stack = stack /\ vm'[t].pc = pc
  /\ \A f \in Fields \ Scratch : vm'[t][f] = vm[t][f]

LEMMA WorksGoes ==
  ASSUME NEW t \in Threads, Running(t), NEW stack, NEW pc, NEW d, Works(t, stack, pc),
         IsSeq(stack), Len(stack) <= MaxStackSize, Len(stack) <= Len(vm[t].stack) + d,
         ~vm'[t].dropped => ~vm[t].dropped /\ Len(stack) = Len(vm[t].stack) + d
  PROVE  Goes(vm[t], vm'[t], pc, d, {})
<1>1. Exact(vm[t], vm'[t], d)
  BY DEF Works, Exact
<1> QED
  BY <1>1 DEF Works, Goes, StackOK, Running, Fields, Unused, Scratch

\* No push is dropped.
DropsNone(t) == vm'[t].dropped = vm[t].dropped

\* An instruction that takes k values and leaves e - k more.
LEMMA WorksKeeps ==
  ASSUME Shape, NEW t \in Threads, MachineOK(vm[t]), Running(t), InCode(t), Opcode(t) \notin Special,
         NEW e \in Int, e + Takes(Opcode(t), Operand(t)) = Gives(Opcode(t), Operand(t)),
         NEW stack, Works(t, stack, vm[t].pc + 1),
         IsSeq(stack), Len(stack) <= MaxStackSize, Len(stack) <= Len(vm[t].stack) + e,
         ~vm'[t].dropped => ~vm[t].dropped /\ Len(stack) = Len(vm[t].stack) + e
  PROVE  Keeps(t)
<1>1. Runs(vm[t])
  BY RunningRuns
<1>2. Goes(vm[t], vm'[t], vm[t].pc + 1, e, {})
  BY WorksGoes
<1> QED
  BY <1>1, <1>2, NextFits DEF Keeps, Works

\* What is left when the topmost value is taken, and with another in its place.
LEMMA OneLess ==
  ASSUME NEW t \in Threads, StackOK(vm[t]), Len(vm[t].stack) >= 1
  PROVE  LET rest == Dropped(vm[t].stack, 1) IN
         /\ IsSeq(rest) /\ Len(rest) \in Nat /\ Len(rest) <= MaxStackSize /\ Len(rest) = Len(vm[t].stack) - 1
         /\ Len(vm[t].stack) \in Nat
         /\ \A v : /\ IsSeq(Pushed(rest, v)) /\ Len(Pushed(rest, v)) \in Nat
                   /\ Len(Pushed(rest, v)) <= MaxStackSize /\ Len(Pushed(rest, v)) = Len(vm[t].stack)
<1> DEFINE rest == Dropped(vm[t].stack, 1)
<1>1. Len(vm[t].stack) \in Nat
  BY LenSeq DEF StackOK
<1>2. IsSeq(rest) /\ Len(rest) = Len(vm[t].stack) - 1
  BY <1>1, DroppedSeq DEF StackOK
<1>3. Len(rest) \in Nat /\ Len(rest) <= MaxStackSize
  BY <1>1, <1>2, LenSeq, StackAssumption DEF StackOK
<1> HIDE DEF rest
<1>4. ASSUME NEW v
      PROVE  /\ IsSeq(Pushed(rest, v)) /\ Len(Pushed(rest, v)) \in Nat
             /\ Len(Pushed(rest, v)) <= MaxStackSize /\ Len(Pushed(rest, v)) = Len(vm[t].stack)
  <2>1. ~Full(rest)
    BY <1>1, <1>2, <1>3, StackAssumption DEF Full, StackOK
  <2>2. IsSeq(Pushed(rest, v)) /\ Len(Pushed(rest, v)) <= MaxStackSize /\ Len(Pushed(rest, v)) = Len(rest) + 1
    BY <1>2, <1>3, <2>1, PushedSeq
  <2> QED
    BY <1>1, <1>2, <2>2, LenSeq
<1> QED
  BY <1>1, <1>2, <1>3, <1>4 DEF rest

LEMMA PopKeeps == ASSUME Shape, NEW t \in Threads, MachineOK(vm[t]), ExecPop(t) PROVE Keeps(t)
<1> DEFINE rest == Dropped(vm[t].stack, 1)
<1>1. Running(t) /\ InCode(t) /\ Opcode(t) = "Pop" /\ Len(vm[t].stack) >= 1
  BY DEF ExecPop, Ready
<1>2. IsSeq(rest) /\ Len(rest) <= MaxStackSize /\ Len(rest) = Len(vm[t].stack) + -1 /\ Len(rest) <= Len(vm[t].stack) + -1
  BY <1>1, RunningRuns, OneLess
<1>3. vm' = [vm EXCEPT ![t].stack = rest, ![t].pc = @ + 1]
  BY DEF ExecPop
<1> HIDE DEF rest
<1>4. Works(t, rest, vm[t].pc + 1) /\ DropsNone(t)
  BY <1>3 DEF DropsNone, Works, Others, Shape, Fields, Unused, Scratch
<1>5. -1 + Takes(Opcode(t), Operand(t)) = Gives(Opcode(t), Operand(t)) /\ Opcode(t) \notin Special
  BY <1>1 DEF Takes, Gives, Special, Arithmetic, Comparison, Logic, WsTells
<1> QED
  BY <1>1, <1>2, <1>4, <1>5, WorksKeeps DEF DropsNone

LEMMA GetIterKeeps == ASSUME Shape, NEW t \in Threads, MachineOK(vm[t]), ExecGetIter(t) PROVE Keeps(t)
<1> DEFINE stack == Pushed(Dropped(vm[t].stack, 1), IntValue(Len(vm[t].iterators)))
<1>1. Running(t) /\ InCode(t) /\ Opcode(t) = "GetIter" /\ Len(vm[t].stack) >= 1
  BY DEF ExecGetIter, Ready
<1>2. IsSeq(stack) /\ Len(stack) <= MaxStackSize /\ Len(stack) = Len(vm[t].stack) + 0 /\ Len(stack) <= Len(vm[t].stack) + 0
  BY <1>1, RunningRuns, OneLess
<1>3. PICK its : vm' = [vm EXCEPT ![t].iterators = its, ![t].stack = stack, ![t].pc = @ + 1]
  BY DEF ExecGetIter
<1> HIDE DEF stack
<1>4. Works(t, stack, vm[t].pc + 1) /\ DropsNone(t)
  BY <1>3 DEF DropsNone, Works, Others, Shape, Fields, Unused, Scratch
<1>5. 0 + Takes(Opcode(t), Operand(t)) = Gives(Opcode(t), Operand(t)) /\ Opcode(t) \notin Special
  BY <1>1 DEF Takes, Gives, Special, Arithmetic, Comparison, Logic, WsTells
<1> QED
  BY <1>1, <1>2, <1>4, <1>5, WorksKeeps DEF DropsNone

LEMMA IterHasNextKeeps == ASSUME Shape, NEW t \in Threads, MachineOK(vm[t]), ExecIterHasNext(t) PROVE Keeps(t)
<1> DEFINE more  == vm[t].iterators[Iterator(t)].items # << >>
           stack == Pushed(Dropped(vm[t].stack, 1), BoolValue(more))
<1>1. Running(t) /\ InCode(t) /\ Opcode(t) = "IterHasNext" /\ Len(vm[t].stack) >= 1
  BY DEF ExecIterHasNext, Ready
<1>2. CASE IterValid(t)
  <2>1. IsSeq(stack) /\ Len(stack) <= MaxStackSize /\ Len(stack) = Len(vm[t].stack) + 0 /\ Len(stack) <= Len(vm[t].stack) + 0
    BY <1>1, RunningRuns, OneLess
  <2>2. vm' = [vm EXCEPT ![t].iterators[Iterator(t)].live = more, ![t].stack = stack, ![t].pc = @ + 1]
    BY <1>2 DEF ExecIterHasNext
  <2> HIDE DEF more, stack
  <2>3. Works(t, stack, vm[t].pc + 1) /\ DropsNone(t)
    BY <2>2 DEF DropsNone, Works, Others, Shape, Fields, Unused, Scratch
  <2>4. 0 + Takes(Opcode(t), Operand(t)) = Gives(Opcode(t), Operand(t)) /\ Opcode(t) \notin Special
    BY <1>1 DEF Takes, Gives, Special, Arithmetic, Comparison, Logic, WsTells
  <2> QED
    BY <1>1, <2>1, <2>3, <2>4, WorksKeeps DEF DropsNone
<1>3. CASE ~IterValid(t)
  BY <1>1, <1>3, AbortKeeps DEF ExecIterHasNext
<1> QED
  BY <1>2, <1>3

LEMMA IterNextKeeps == ASSUME Shape, NEW t \in Threads, MachineOK(vm[t]), ExecIterNext(t) PROVE Keeps(t)
<1> DEFINE valid == IterValid(t) /\ vm[t].iterators[Iterator(t)].items # << >>
           item  == Head(vm[t].iterators[Iterator(t)].items)
           rest  == Dropped(vm[t].stack, 1)
           under == IF Operand(t) THEN Pushed(rest, item[1]) ELSE rest
           stack == Pushed(under, item[2])
           more  == IF Operand(t) THEN 1 ELSE 0
<1>1. Running(t) /\ InCode(t) /\ Opcode(t) = "IterNext" /\ Len(vm[t].stack) >= 1
  BY DEF ExecIterNext, Ready
<1>2. CASE valid
  <2>1. vm' = [vm EXCEPT ![t].iterators[Iterator(t)].items = Tail(@), ![t].pc = @ + 1, ![t].stack = stack,
                         ![t].dropped = @ \/ (Operand(t) /\ Full(Pushed(rest, item[1])))]
    BY <1>2 DEF ExecIterNext
  <2>2. /\ IsSeq(rest) /\ Len(rest) \in Nat /\ Len(rest) <= MaxStackSize /\ Len(rest) = Len(vm[t].stack) - 1
        /\ IsSeq(Pushed(rest, item[1])) /\ Len(Pushed(rest, item[1])) \in Nat
        /\ Len(Pushed(rest, item[1])) <= MaxStackSize /\ Len(Pushed(rest, item[1])) = Len(vm[t].stack)
        /\ Len(vm[t].stack) \in Nat /\ ~Full(rest)
    <3>1. StackOK(vm[t])
      BY <1>1, RunningRuns
    <3>2. /\ IsSeq(rest) /\ Len(rest) \in Nat /\ Len(rest) <= MaxStackSize /\ Len(rest) = Len(vm[t].stack) - 1
          /\ IsSeq(Pushed(rest, item[1])) /\ Len(Pushed(rest, item[1])) \in Nat
          /\ Len(Pushed(rest, item[1])) <= MaxStackSize /\ Len(Pushed(rest, item[1])) = Len(vm[t].stack)
          /\ Len(vm[t].stack) \in Nat
      BY <1>1, <3>1, OneLess
    <3> HIDE DEF rest
    <3>3. ~Full(rest)
      BY <3>1, <3>2, StackAssumption DEF Full, StackOK
    <3> QED
      BY <3>2, <3>3
  <2>9. vm'[t].dropped = (vm[t].dropped \/ (Operand(t) /\ Full(Pushed(rest, item[1]))))
    BY <2>1 DEF Shape, Fields, Unused
  <2> HIDE DEF rest, item
  <2>3. /\ IsSeq(under) /\ Len(under) \in Nat /\ Len(under) <= MaxStackSize /\ Len(under) = Len(vm[t].stack) - 1 + more
        /\ Full(under) => vm'[t].dropped
    <3>1. CASE Operand(t)
      <4>1. under = Pushed(rest, item[1]) /\ more = 1
        BY <3>1
      <4>2. Full(under) => vm'[t].dropped
        BY <2>9, <3>1, <4>1
      <4> HIDE DEF under, more
      <4> QED
        BY <2>2, <4>1, <4>2
    <3>2. CASE ~Operand(t)
      <4>1. under = rest /\ more = 0
        BY <3>2
      <4> HIDE DEF under, more
      <4> QED
        BY <2>2, <4>1
    <3> QED
      BY <3>1, <3>2
  <2> HIDE DEF under
  <2>4. /\ IsSeq(stack) /\ Len(stack) <= MaxStackSize /\ Len(stack) <= Len(under) + 1
        /\ ~Full(under) => Len(stack) = Len(under) + 1
    BY <2>3, PushedSeq
  <2>10. ~vm'[t].dropped => ~vm[t].dropped /\ ~Full(under)
    BY <2>3, <2>9
  <2> HIDE DEF stack
  <2>5. more \in Int
    OBVIOUS
  <2>6. Len(stack) <= Len(vm[t].stack) + more /\ (~Full(under) => Len(stack) = Len(vm[t].stack) + more)
    <3> HIDE DEF more
    <3> QED
      BY <2>2, <2>3, <2>4, <2>5, LenSeq
  <2>7. Works(t, stack, vm[t].pc + 1)
    BY <2>1 DEF Works, Others, Shape, Fields, Unused, Scratch
  <2>8. more + Takes(Opcode(t), Operand(t)) = Gives(Opcode(t), Operand(t)) /\ Opcode(t) \notin Special
    BY <1>1 DEF Takes, Gives, Special, Arithmetic, Comparison, Logic, WsTells
  <2> HIDE DEF more
  <2> QED
    BY <1>1, <2>4, <2>5, <2>6, <2>7, <2>8, <2>10, WorksKeeps
<1>3. CASE ~valid
  BY <1>1, <1>3, AbortKeeps DEF ExecIterNext
<1> QED
  BY <1>2, <1>3

LEMMA WsTellKeeps == ASSUME Shape, NEW t \in Threads, MachineOK(vm[t]), ExecWsTell(t) PROVE Keeps(t)
<1> DEFINE n     == Needs(t)
           args  == Args(t, n)
           rest  == Dropped(vm[t].stack, Len(args))
           stack == Pushed(rest, NullValue)
<1>1. Running(t) /\ InCode(t) /\ Opcode(t) \in DOMAIN WsTells /\ Len(vm[t].stack) >= n
  BY DEF ExecWsTell, Ready
<1>2. n = Takes(Opcode(t), Operand(t)) /\ n \in {1, 2}
  BY <1>1 DEF Needs, Takes, WsTells, Arithmetic, Comparison, Logic
<1>3. CASE CanTell(t, args)
  <2>1. vm' = [vm EXCEPT ![t].calls = Append(@, ToldAs(Opcode(t), args)), ![t].pc = @ + 1, ![t].stack = stack]
    BY <1>3 DEF ExecWsTell
  <2>2. StackOK(vm[t])
    BY <1>1, RunningRuns
  <2> HIDE DEF n
  <2>3. Len(args) = n
    BY <1>2 DEF Args
  <2> HIDE DEF args
  <2>4. IsSeq(rest) /\ Len(rest) = Len(vm[t].stack) - n
    BY <1>1, <1>2, <2>2, <2>3, DroppedSeq DEF StackOK
  <2>5. Len(rest) \in Nat /\ Len(vm[t].stack) \in Nat /\ Len(rest) <= MaxStackSize
    BY <1>2, <2>2, <2>4, LenSeq, StackAssumption DEF StackOK
  <2> HIDE DEF rest
  <2>11. ~Full(rest)
    BY <1>2, <2>2, <2>4, <2>5, StackAssumption DEF Full, StackOK
  <2>6. IsSeq(stack) /\ Len(stack) <= MaxStackSize /\ Len(stack) = Len(rest) + 1
    BY <2>4, <2>5, <2>11, PushedSeq
  <2>7. Len(stack) = Len(vm[t].stack) + (1 - n) /\ Len(stack) <= Len(vm[t].stack) + (1 - n)
    BY <1>2, <2>4, <2>5, <2>6, LenSeq
  <2> HIDE DEF stack
  <2>8. Works(t, stack, vm[t].pc + 1) /\ DropsNone(t)
    BY <2>1 DEF DropsNone, Works, Others, Shape, Fields, Unused, Scratch
  <2>9. Gives(Opcode(t), Operand(t)) = 1 /\ Opcode(t) \notin Special
    BY <1>1 DEF Gives, Special, WsTells
  <2>10. 1 - n \in Int /\ (1 - n) + Takes(Opcode(t), Operand(t)) = Gives(Opcode(t), Operand(t))
    BY <1>2, <2>9
  <2> QED
    BY <1>1, <2>6, <2>7, <2>8, <2>9, <2>10, WorksKeeps DEF DropsNone
<1>4. CASE ~CanTell(t, args)
  BY <1>1, <1>4, AbortKeeps DEF ExecWsTell
<1> QED
  BY <1>3, <1>4

\* Steps that end the machine with an error.
LEMMA FailsKeep ==
  ASSUME Shape, NEW t \in Threads, MachineOK(vm[t]), Underflow(t) \/ AwaitTimeout(t) \/ WsRefused(t)
  PROVE  Keeps(t)
<1>1. CASE Underflow(t)
  BY <1>1, AbortKeeps DEF Underflow
<1>2. CASE AwaitTimeout(t) \/ WsRefused(t)
  <2>1. StackOK(vm[t])
    BY <1>2, RunningRuns DEF AwaitTimeout, WsRefused, Ready
  <2>2. Others(t) /\ Ended(vm'[t])
    BY <1>2, <2>1 DEF AwaitTimeout, WsRefused, Others, Ended, Shape, Fields, Unused, StackOK
  <2> QED
    BY <2>2, EndsKeep
<1> QED
  BY <1>1, <1>2

\* An instruction that leads to the place at pc with d more values, binding names.
LEMMA GoesKeeps ==
  ASSUME NEW t \in Threads, Runs(vm[t]), Others(t),
         NEW w \in Levels, Fits(vm[t], w),
         NEW pc \in Int, NEW j, j = pc - vm[t].base, NEW d \in Int, NEW names,
         Leads(w[Len(vm[t].callStack)].block, At(vm[t]), j, d, names),
         Goes(vm[t], vm'[t], pc, d, names)
  PROVE  Keeps(t)
<1>1. FunctionsVerified(vm[t].functions)
  BY DEF Runs
<1>2. d <= d
  OBVIOUS
<1>3. MachineOK(vm'[t])
  BY <1>1, <1>2, GoesFits
<1> QED
  BY <1>3 DEF Keeps

LEMMA LoadVarKeeps == ASSUME Shape, NEW t \in Threads, MachineOK(vm[t]), ExecLoadVar(t) PROVE Keeps(t)
<1>1. Running(t) /\ InCode(t) /\ Opcode(t) = "LoadVar"
  BY DEF ExecLoadVar, Ready
<1>2. Runs(vm[t]) /\ StackOK(vm[t])
  BY <1>1, RunningRuns
<1>3. PICK w \in Levels : Fits(vm[t], w)
  BY <1>2 DEF Runs
<1>4. Len(vm[t].stack) \in Nat
  BY <1>2, LenSeq DEF StackOK
<1>5. Others(t) /\ (Ended(vm'[t]) \/ Goes(vm[t], vm'[t], vm[t].pc + 1, 1, {}))
  <2>1. PICK v : Replace(t, 0, v)
    BY DEF ExecLoadVar
  <2>2. Others(t) /\ (Ended(vm'[t]) \/ Goes(vm[t], vm'[t], vm[t].pc + 1, 1 - 0, {}))
    BY <1>1, <1>2, <1>4, <2>1, ReplaceGoes
  <2> QED
    BY <2>2
<1>6. /\ vm[t].pc \in Int /\ vm[t].base \in Int
      /\ Leads(w[Len(vm[t].callStack)].block, At(vm[t]), At(vm[t]) + 1, 1, {})
  BY <1>1, <1>3, AtInstruction DEF InstructionVerified
<1>7. vm[t].pc + 1 \in Int /\ At(vm[t]) + 1 = (vm[t].pc + 1) - vm[t].base
  BY <1>6 DEF At
<1> DEFINE d == 1
<1>8. d \in Int /\ Leads(w[Len(vm[t].callStack)].block, At(vm[t]), At(vm[t]) + 1, d, {})
  BY <1>6
<1>9. ASSUME Goes(vm[t], vm'[t], vm[t].pc + 1, d, {}) PROVE Keeps(t)
  <2> HIDE DEF d
  <2> QED
    BY <1>2, <1>3, <1>5, <1>7, <1>8, <1>9, GoesKeeps
<1> QED
  BY <1>5, <1>9, EndsKeep

LEMMA StoreVarKeeps == ASSUME Shape, NEW t \in Threads, MachineOK(vm[t]), ExecStoreVar(t) PROVE Keeps(t)
<1> DEFINE rest  == Dropped(vm[t].stack, 1)
           names == DOMAIN vm[t].locals \cup {Operand(t)}
<1>1. Running(t) /\ InCode(t) /\ Opcode(t) = "StoreVar" /\ Len(vm[t].stack) >= 1
  BY DEF ExecStoreVar, Ready
<1>2. Runs(vm[t]) /\ StackOK(vm[t])
  BY <1>1, RunningRuns
<1>3. PICK w \in Levels : Fits(vm[t], w)
  BY <1>2 DEF Runs
<1>4. IsSeq(rest) /\ Len(rest) <= MaxStackSize /\ Len(rest) = Len(vm[t].stack) + -1 /\ Len(rest) <= Len(vm[t].stack) + -1
  BY <1>1, <1>2, OneLess
<1>5. PICK locals : /\ DOMAIN locals = names
                    /\ vm' = [vm EXCEPT ![t].stack = rest, ![t].pc = @ + 1, ![t].locals = locals]
  <2> DEFINE locals == [n \in names |-> IF n = Operand(t) THEN Top(t, 1) ELSE vm[t].locals[n]]
  <2>1. vm' = [vm EXCEPT ![t].stack = rest, ![t].pc = @ + 1, ![t].locals = locals]
    BY DEF ExecStoreVar
  <2>2. DOMAIN locals = names
    OBVIOUS
  <2> QED
    BY <2>1, <2>2
<1> HIDE DEF rest
<1>6. /\ Others(t) /\ vm'[t].stack = rest /\ vm'[t].pc = vm[t].pc + 1 /\ vm'[t].locals = locals
      /\ \A f \in Fields \ {"stack", "pc", "locals"} : vm'[t][f] = vm[t][f]
  BY <1>5 DEF Others, Shape, Fields, Unused
<1>7. Goes(vm[t], vm'[t], vm[t].pc + 1, -1, {Operand(t)})
  <2>1. Exact(vm[t], vm'[t], -1)
    BY <1>4, <1>6 DEF Exact, Fields, Unused
  <2> QED
    BY <1>1, <1>4, <1>5, <1>6, <2>1 DEF Goes, StackOK, Running, Fields, Unused
<1>8. /\ vm[t].pc \in Int /\ vm[t].base \in Int
      /\ Leads(w[Len(vm[t].callStack)].block, At(vm[t]), At(vm[t]) + 1, -1, {Operand(t)})
  BY <1>1, <1>3, AtInstruction DEF InstructionVerified
<1>9. vm[t].pc + 1 \in Int /\ At(vm[t]) + 1 = (vm[t].pc + 1) - vm[t].base
  BY <1>8 DEF At
<1> DEFINE d == -1
<1>10. /\ d \in Int /\ Leads(w[Len(vm[t].callStack)].block, At(vm[t]), At(vm[t]) + 1, d, {Operand(t)})
       /\ Goes(vm[t], vm'[t], vm[t].pc + 1, d, {Operand(t)})
  BY <1>7, <1>8
<1> HIDE DEF d
<1> QED
  BY <1>2, <1>3, <1>6, <1>9, <1>10, GoesKeeps

LEMMA JumpKeeps == ASSUME Shape, NEW t \in Threads, MachineOK(vm[t]), ExecJump(t) PROVE Keeps(t)
<1>1. Running(t) /\ InCode(t) /\ Opcode(t) = "Jump"
  BY DEF ExecJump, Ready
<1>2. Runs(vm[t]) /\ StackOK(vm[t])
  BY <1>1, RunningRuns
<1>3. PICK w \in Levels : Fits(vm[t], w)
  BY <1>2 DEF Runs
<1>4. vm[t].base = w[Len(vm[t].callStack)].block.base
  BY <1>3 DEF Fits, TopFits, Inside
<1>5. Operand(t) \in Int /\ Leads(w[Len(vm[t].callStack)].block, At(vm[t]), Operand(t) - vm[t].base, 0, {})
  BY <1>1, <1>3, <1>4, AtInstruction DEF InstructionVerified
<1>6. Works(t, vm[t].stack, Operand(t)) /\ DropsNone(t)
  BY DEF DropsNone, ExecJump, Works, Others, Shape, Fields, Unused, Scratch
<1>7. IsSeq(vm[t].stack) /\ Len(vm[t].stack) <= MaxStackSize /\ Len(vm[t].stack) = Len(vm[t].stack) + 0 /\ Len(vm[t].stack) <= Len(vm[t].stack) + 0
  BY <1>2, LenSeq DEF StackOK
<1>8. Goes(vm[t], vm'[t], Operand(t), 0, {})
  BY <1>1, <1>6, <1>7, WorksGoes DEF DropsNone
<1> DEFINE d == 0
<1>9. /\ d \in Int /\ Leads(w[Len(vm[t].callStack)].block, At(vm[t]), Operand(t) - vm[t].base, d, {})
      /\ Goes(vm[t], vm'[t], Operand(t), d, {})
  BY <1>5, <1>8
<1>10. Others(t)
  BY <1>6 DEF Works
<1> HIDE DEF d
<1> QED
  BY <1>2, <1>3, <1>5, <1>9, <1>10, GoesKeeps

LEMMA JumpIfFalseKeeps == ASSUME Shape, NEW t \in Threads, MachineOK(vm[t]), ExecJumpIfFalse(t) PROVE Keeps(t)
<1> DEFINE rest == Dropped(vm[t].stack, 1)
<1>1. Running(t) /\ InCode(t) /\ Opcode(t) = "JumpIfFalse" /\ Len(vm[t].stack) >= 1
  BY DEF ExecJumpIfFalse, Ready
<1>2. Runs(vm[t]) /\ StackOK(vm[t])
  BY <1>1, RunningRuns
<1>3. PICK w \in Levels : Fits(vm[t], w)
  BY <1>2 DEF Runs
<1>4. vm[t].base = w[Len(vm[t].callStack)].block.base
  BY <1>3 DEF Fits, TopFits, Inside
<1>5. /\ vm[t].pc \in Int /\ vm[t].base \in Int /\ Operand(t) \in Int
      /\ Leads(w[Len(vm[t].callStack)].block, At(vm[t]), Operand(t) - vm[t].base, -1, {})
      /\ Leads(w[Len(vm[t].callStack)].block, At(vm[t]), At(vm[t]) + 1, -1, {})
  BY <1>1, <1>3, <1>4, AtInstruction DEF InstructionVerified
<1>6. At(vm[t]) + 1 = (vm[t].pc + 1) - vm[t].base /\ vm[t].pc + 1 \in Int
  BY <1>5 DEF At
<1>7. IsSeq(rest) /\ Len(rest) <= MaxStackSize /\ Len(rest) = Len(vm[t].stack) + -1 /\ Len(rest) <= Len(vm[t].stack) + -1
  BY <1>1, <1>2, OneLess
<1>8. CASE Is(Top(t, 1), "bool")
  <2>1. PICK pc \in {vm[t].pc + 1, Operand(t)} : vm' = [vm EXCEPT ![t].stack = rest, ![t].pc = pc]
    <3>1. vm' = [vm EXCEPT ![t].stack = rest, ![t].pc = IF Top(t, 1)[2] THEN @ + 1 ELSE Operand(t)]
      BY <1>8 DEF ExecJumpIfFalse
    <3> HIDE DEF rest
    <3>2. CASE Top(t, 1)[2]
      <4>1. vm' = [vm EXCEPT ![t].stack = rest, ![t].pc = vm[t].pc + 1]
        BY <3>1, <3>2
      <4> QED
        BY <4>1
    <3>3. CASE ~Top(t, 1)[2]
      <4>1. vm' = [vm EXCEPT ![t].stack = rest, ![t].pc = Operand(t)]
        BY <3>1, <3>3
      <4> QED
        BY <4>1
    <3> QED
      BY <3>2, <3>3
  <2> HIDE DEF rest
  <2>2. Works(t, rest, pc) /\ DropsNone(t)
    BY <2>1 DEF DropsNone, Works, Others, Shape, Fields, Unused, Scratch
  <2>3. Goes(vm[t], vm'[t], pc, -1, {})
    BY <1>1, <1>7, <2>2, WorksGoes DEF DropsNone
  <2>4. pc \in Int /\ Leads(w[Len(vm[t].callStack)].block, At(vm[t]), pc - vm[t].base, -1, {})
    BY <1>5, <1>6, <2>1
  <2> DEFINE d == -1
  <2>5. /\ d \in Int /\ Leads(w[Len(vm[t].callStack)].block, At(vm[t]), pc - vm[t].base, d, {})
        /\ Goes(vm[t], vm'[t], pc, d, {})
    BY <2>3, <2>4
  <2>6. Others(t)
    BY <2>2 DEF Works
  <2> HIDE DEF d
  <2> QED
    BY <1>2, <1>3, <2>4, <2>5, <2>6, GoesKeeps
<1>9. CASE ~Is(Top(t, 1), "bool")
  BY <1>1, <1>9, AbortKeeps DEF ExecJumpIfFalse
<1> QED
  BY <1>8, <1>9

----------------------------------------------------------------------------
(* Calls, returns, ends and async blocks *)

\* Where a block begins the stack holds nothing of its own yet.
LEMMA BlockBegins ==
  ASSUME NEW b \in Blocks
  PROVE  1 \in Reached(b) /\ b.height[1] \in Int /\ b.height[1] >= 0 /\ b.floor[1] \in Int /\ b.floor[1] <= 0 /\ b.base \in Nat
BY CodeAssumption DEF BlockVerified

\* A caller that will go on behind its call is as a frame wants it.
LEMMA FrameInside ==
  ASSUME NEW t \in Threads, NEW w \in Levels, Fits(vm[t], w), InCode(t), Opcode(t) = "Call"
  PROVE  LET b == w[Len(vm[t].callStack)].block IN
         /\ Inside(Frame(t), b) /\ At(Frame(t)) = At(vm[t]) + 1
         /\ Operand(t) \in Nat
         /\ b.height[At(vm[t])] \in Int /\ b.height[At(vm[t]) + 1] \in Int
         /\ b.height[At(vm[t])] - Operand(t) <= b.height[At(vm[t]) + 1]
         /\ b.floor[At(vm[t])] \in Int /\ b.floor[At(vm[t]) + 1] \in Int
         /\ b.floor[At(vm[t]) + 1] <= b.floor[At(vm[t])] - Operand(t)
<1> DEFINE b == w[Len(vm[t].callStack)].block
<1>1. b \in Blocks /\ At(vm[t]) \in Reached(b) /\ vm[t].pc \in Int /\ vm[t].base \in Int /\ At(vm[t]) \in Int
  BY AtInstruction
<1>2. /\ Operand(t) \in Nat
      /\ Leads(b, At(vm[t]), At(vm[t]) + 1, Gives("Call", Operand(t)) - Takes("Call", Operand(t)), {})
  BY AtInstruction DEF InstructionVerified
<1>3. Gives("Call", Operand(t)) = 1 /\ Takes("Call", Operand(t)) = Operand(t) + 1
  BY DEF Gives, Takes, Arithmetic, Comparison, Logic, WsTells
<1>4. At(Frame(t)) = At(vm[t]) + 1 /\ Frame(t).pc \in Int
  BY <1>1 DEF At, Frame
<1>5. Inside(vm[t], b)
  BY DEF Fits, TopFits
<1> HIDE DEF b
<1>6. Inside(Frame(t), b)
  BY <1>2, <1>4, <1>5 DEF Inside, Leads, Frame
<1>7. /\ b.height[At(vm[t])] \in Int /\ b.height[At(vm[t]) + 1] \in Int
      /\ b.floor[At(vm[t])] \in Int /\ b.floor[At(vm[t]) + 1] \in Int
  BY <1>1, <1>2, BlockFacts DEF Leads
<1>8. /\ b.height[At(vm[t])] - Operand(t) <= b.height[At(vm[t]) + 1]
      /\ b.floor[At(vm[t]) + 1] <= b.floor[At(vm[t])] - Operand(t)
  <2>1. /\ b.height[At(vm[t])] + (1 - (Operand(t) + 1)) <= b.height[At(vm[t]) + 1]
        /\ b.floor[At(vm[t]) + 1] <= b.floor[At(vm[t])] + (1 - (Operand(t) + 1))
    BY <1>2, <1>3 DEF Leads
  <2> QED
    BY <1>2, <1>7, <2>1
<1> QED
  BY <1>2, <1>4, <1>6, <1>7, <1>8 DEF b

LEMMA CallLevels ==
  ASSUME NEW a \in Nat, NEW o \in Nat, NEW r \in Nat, r = a - (o + 1),
         NEW l \in Int, NEW h \in Int, NEW g \in Int, a <= l + h, h - o <= g
  PROVE  r + 1 <= l + g
OBVIOUS

LEMMA CallUserKeeps == ASSUME Shape, NEW t \in Threads, MachineOK(vm[t]), ExecCallUser(t) PROVE Keeps(t)
<1> DEFINE m     == vm[t]
           calls == Append(m.callStack, Frame(t))
           fn    == m.functions[Callee(t)[2]]
           rest  == Dropped(m.stack, Operand(t) + 1)
           k     == Len(m.callStack)
<1>1. Running(t) /\ InCode(t) /\ Opcode(t) = "Call" /\ Len(m.stack) > Operand(t) /\ Callee(t)[2] \in DOMAIN m.functions
  BY DEF ExecCallUser, Ready, CallsUser
<1>2. Runs(m) /\ StackOK(m)
  BY <1>1, RunningRuns
<1>3. PICK w \in Levels : Fits(m, w)
  BY <1>2 DEF Runs
<1>4. PICK fb \in Blocks : BlockOf(fb, fn.code, fn.base, TRUE) /\ fb.bound[1] = {}
  BY <1>1, <1>2 DEF Runs, FunctionsVerified
<1>5. k \in Nat /\ Len(m.stack) \in Nat
  BY <1>2, <1>3, LenSeq DEF Fits, StackOK
<1>6. /\ Inside(Frame(t), w[k].block) /\ At(Frame(t)) = At(m) + 1 /\ Operand(t) \in Nat
      /\ w[k].block.height[At(m)] \in Int /\ w[k].block.height[At(m) + 1] \in Int
      /\ w[k].block.height[At(m)] - Operand(t) <= w[k].block.height[At(m) + 1]
      /\ w[k].block.floor[At(m)] \in Int /\ w[k].block.floor[At(m) + 1] \in Int
      /\ w[k].block.floor[At(m) + 1] <= w[k].block.floor[At(m)] - Operand(t)
  BY <1>1, <1>3, FrameInside
<1>7. IsSeq(rest) /\ Len(rest) = Len(m.stack) - (Operand(t) + 1) /\ Len(rest) \in Nat /\ Len(rest) <= MaxStackSize
  <2>1. Operand(t) + 1 \in Nat /\ Operand(t) + 1 <= Len(m.stack)
    BY <1>1, <1>5, <1>6
  <2>2. IsSeq(m.stack) /\ Len(m.stack) <= MaxStackSize
    BY <1>2 DEF StackOK
  <2> HIDE DEF m
  <2>3. IsSeq(rest) /\ Len(rest) = Len(m.stack) - (Operand(t) + 1)
    BY <2>1, <2>2, DroppedSeq
  <2> HIDE DEF rest
  <2> QED
    BY <1>5, <2>1, <2>2, <2>3, StackAssumption
<1>8. /\ IsSeq(calls) /\ Len(calls) = k + 1 /\ calls[k + 1] = Frame(t)
      /\ \A i \in 1..k : calls[i] = m.callStack[i]
  BY <1>3, AppendSeq DEF Fits
<1>9. PICK locals : vm' = [vm EXCEPT ![t].callStack = calls, ![t].locals = locals, ![t].code = fn.code, ![t].base = fn.base,
                                    ![t].pc = fn.base + 1, ![t].stack = rest]
  BY DEF ExecCallUser
<1> HIDE DEF rest, calls, fn
<1>10. /\ Others(t) /\ vm'[t].callStack = calls /\ vm'[t].code = fn.code /\ vm'[t].base = fn.base
       /\ vm'[t].pc = fn.base + 1 /\ vm'[t].stack = rest
       /\ vm'[t].status = m.status /\ vm'[t].functions = m.functions /\ vm'[t].dropped = m.dropped
  BY <1>9 DEF Others, Shape, Fields, Unused
<1> DEFINE n  == vm'[t]
           w2 == [w EXCEPT ![k + 1] = [block |-> fb, level |-> Len(rest)]]
<1> HIDE DEF k
<1>11. w2 \in Levels /\ w2[k + 1].block = fb /\ w2[k + 1].level = Len(rest) /\ \A i \in 0..k : w2[i] = w[i]
  BY <1>5, <1>7 DEF Levels
<1> HIDE DEF w2
<1>12. TopFits(n, w2[k + 1])
  <2>1. 1 \in Reached(fb) /\ fb.height[1] \in Int /\ fb.height[1] >= 0 /\ fb.base \in Nat
    BY BlockBegins
  <2>2. At(n) = 1 /\ n.pc \in Int /\ n.code = fb.code /\ n.base = fb.base
    BY <1>4, <1>10, <2>1 DEF At, BlockOf
  <2>3. Inside(n, fb)
    BY <1>4, <2>1, <2>2 DEF Inside
  <2>4. Len(n.stack) <= Len(rest) + fb.height[At(n)]
    BY <1>7, <1>10, <2>1, <2>2
  <2> QED
    BY <1>11, <2>3, <2>4 DEF TopFits
<1>13. FramesFit(calls, w2)
  <2> SUFFICES ASSUME NEW i \in 1..(k + 1)
               PROVE  /\ Inside(calls[i], w2[i - 1].block) /\ w2[i].block.function
                      /\ w2[i].level + 1 <= w2[i - 1].level + w2[i - 1].block.height[At(calls[i])]
    BY <1>8 DEF FramesFit
  <2>1. CASE i = k + 1
    <3>1. w2[i - 1] = w[k]
      BY <1>5, <1>11, <2>1
    <3>2. calls[i] = Frame(t) /\ w2[i].block = fb /\ w2[i].level = Len(rest)
      BY <1>8, <1>11, <2>1
    <3>3. Len(m.stack) <= w[k].level + w[k].block.height[At(m)]
      BY <1>3 DEF Fits, TopFits, k
    <3>4. w[k].level \in Int
      BY <1>5 DEF Levels
    <3>5. Len(rest) + 1 <= w[k].level + w[k].block.height[At(m) + 1]
      <4> DEFINE a == Len(m.stack)
                 o == Operand(t)
                 r == Len(rest)
                 l == w[k].level
                 h == w[k].block.height[At(m)]
                 g == w[k].block.height[At(m) + 1]
      <4>1. /\ a \in Nat /\ o \in Nat /\ r \in Nat /\ r = a - (o + 1) /\ l \in Int /\ h \in Int /\ g \in Int
            /\ a <= l + h /\ h - o <= g
        BY <1>5, <1>6, <1>7, <3>3, <3>4
      <4> HIDE DEF a, o, r, l, h, g
      <4>2. r + 1 <= l + g
        BY <4>1, CallLevels
      <4> QED
        BY <4>2 DEF r, l, g
    <3>6. fb.function
      BY <1>4 DEF BlockOf
    <3> QED
      BY <1>6, <3>1, <3>2, <3>5, <3>6
  <2>2. CASE i \in 1..k
    <3>1. calls[i] = m.callStack[i] /\ w2[i] = w[i] /\ w2[i - 1] = w[i - 1]
      BY <1>5, <1>8, <1>11, <2>2
    <3>2. /\ Inside(m.callStack[i], w[i - 1].block) /\ w[i].block.function
          /\ w[i].level + 1 <= w[i - 1].level + w[i - 1].block.height[At(m.callStack[i])]
      BY <1>3, <2>2 DEF Fits, FramesFit, k
    <3> QED
      BY <3>1, <3>2
  <2> QED
    BY <1>5, <2>1, <2>2
<1>14. Floors(n, w2)
  <2> SUFFICES ASSUME ~m.dropped
               PROVE  /\ w2[k + 1].level + w2[k + 1].block.floor[At(n)] <= Len(n.stack)
                      /\ \A i \in 1..(k + 1) : w2[i - 1].level + w2[i - 1].block.floor[At(calls[i])] <= w2[i].level + 1
    BY <1>8, <1>10 DEF Floors
  <2>1. w2[k + 1].level + w2[k + 1].block.floor[At(n)] <= Len(n.stack)
    <3>1. fb.floor[1] \in Int /\ fb.floor[1] <= 0 /\ fb.base \in Nat
      BY BlockBegins
    <3>2. At(n) = 1
      BY <1>4, <1>10, <3>1 DEF At, BlockOf
    <3> QED
      BY <1>7, <1>10, <1>11, <3>1, <3>2
  <2>2. w2[k].level + w2[k].block.floor[At(calls[k + 1])] <= w2[k + 1].level + 1
    <3> DEFINE a == Len(m.stack)
               o == Operand(t)
               r == Len(rest)
               l == w[k].level
               h == w[k].block.floor[At(m)]
               g == w[k].block.floor[At(m) + 1]
    <3>1. w[k].level \in Int
      BY <1>5 DEF Levels
    <3>2. l + h <= a
      BY <1>3 DEF Fits, Floors, k
    <3>3. /\ a \in Int /\ o \in Int /\ r \in Int /\ r = a - (o + 1) /\ l \in Int /\ h \in Int /\ g \in Int
          /\ l + h <= a /\ g <= h - o
      BY <1>5, <1>6, <1>7, <3>1, <3>2
    <3> HIDE DEF a, o, r, l, h, g
    <3>4. l + g <= r + 1
      BY <3>3
    <3>5. w2[k] = w[k] /\ At(calls[k + 1]) = At(m) + 1 /\ w2[k + 1].level = Len(rest)
      BY <1>5, <1>6, <1>8, <1>11
    <3> QED
      BY <3>4, <3>5 DEF l, g, r
  <2>3. ASSUME NEW i \in 1..k
        PROVE  w2[i - 1].level + w2[i - 1].block.floor[At(calls[i])] <= w2[i].level + 1
    <3>1. calls[i] = m.callStack[i] /\ w2[i] = w[i] /\ w2[i - 1] = w[i - 1]
      BY <1>5, <1>8, <1>11
    <3>2. w[i - 1].level + w[i - 1].block.floor[At(m.callStack[i])] <= w[i].level + 1
      BY <1>3 DEF Fits, Floors, k
    <3> QED
      BY <3>1, <3>2
  <2>4. ASSUME NEW i \in 1..(k + 1)
        PROVE  w2[i - 1].level + w2[i - 1].block.floor[At(calls[i])] <= w2[i].level + 1
    <3>1. CASE i = k + 1
      <4>1. i - 1 = k
        BY <1>5, <3>1
      <4> QED
        BY <2>2, <3>1, <4>1
    <3>2. CASE i \in 1..k
      BY <2>3, <3>2
    <3> QED
      BY <1>5, <3>1, <3>2
  <2> QED
    BY <2>1, <2>4
<1>15. Fits(n, w2)
  <2>1. w2[0] = w[0]
    BY <1>5, <1>11
  <2> QED
    BY <1>3, <1>7, <1>8, <1>10, <1>12, <1>13, <1>14, <2>1 DEF Fits, StackOK
<1>16. Runs(n)
  BY <1>1, <1>2, <1>10, <1>11, <1>15 DEF Runs, Running
<1> QED
  BY <1>10, <1>16 DEF Keeps, MachineOK

\* A function that returns gives the caller what it was called for.
LEMMA ReturnKeeps == ASSUME Shape, NEW t \in Threads, MachineOK(vm[t]), ExecReturn(t) PROVE Keeps(t)
<1> DEFINE m     == vm[t]
           n     == vm'[t]
           k     == Len(m.callStack)
           frame == m.callStack[k]
           calls == SubSeq(m.callStack, 1, k - 1)
<1>1. Running(t) /\ InCode(t) /\ Opcode(t) = "Return" /\ m.callStack # << >>
  BY DEF ExecReturn, Ready
<1>2. Runs(m) /\ StackOK(m)
  BY <1>1, RunningRuns
<1>3. PICK w \in Levels : Fits(m, w)
  BY <1>2 DEF Runs
<1>4. k \in Nat /\ k >= 1 /\ Len(m.stack) \in Nat
  BY <1>1, <1>2, <1>3, LenSeq DEF Fits, StackOK
<1>5. IsSeq(calls) /\ Len(calls) = k - 1 /\ \A i \in 1..(k - 1) : calls[i] = m.callStack[i]
  <2>1. IsSeq(m.callStack) /\ k - 1 \in 0..Len(m.callStack)
    BY <1>3, <1>4 DEF Fits
  <2> QED
    BY <2>1, PrefixSeq
<1>6. vm' = [vm EXCEPT ![t].callStack = calls, ![t].locals = frame.locals, ![t].code = frame.code, ![t].base = frame.base,
                       ![t].pc = frame.pc]
  BY DEF ExecReturn, Front, Last
<1>7. /\ Inside(frame, w[k - 1].block)
      /\ w[k].level + 1 <= w[k - 1].level + w[k - 1].block.height[At(frame)]
  <2>1. FramesFit(m.callStack, w)
    BY <1>3 DEF Fits
  <2>2. k \in 1..k
    BY <1>4
  <2> HIDE DEF m
  <2> QED BY <2>1, <2>2 DEF FramesFit
<1>8. Len(m.stack) <= w[k].level + w[k].block.height[At(m)] /\ At(m) \in Reached(w[k].block)
  BY <1>3 DEF Fits, TopFits, Inside
<1>9. w[k].block.height[At(m)] <= 1
  BY <1>1, <1>3, AtInstruction DEF InstructionVerified
<1> HIDE DEF calls, frame
<1>10. /\ Others(t) /\ n.callStack = calls /\ n.locals = frame.locals /\ n.code = frame.code /\ n.base = frame.base
       /\ n.pc = frame.pc /\ n.stack = m.stack /\ n.status = m.status /\ n.functions = m.functions
       /\ n.dropped = m.dropped
  BY <1>6 DEF Others, Shape, Fields, Unused
<1> HIDE DEF k, n
<1>11. /\ w[k].level \in Int /\ w[k - 1].level \in Int /\ w[k].block \in Blocks /\ w[k - 1].block \in Blocks
       /\ w[k].block.height[At(m)] \in Int /\ w[k - 1].block.height[At(frame)] \in Int
  <2>1. k - 1 \in Nat
    BY <1>4
  <2>2. w[k].level \in Int /\ w[k - 1].level \in Int /\ w[k].block \in Blocks /\ w[k - 1].block \in Blocks
    BY <1>4, <2>1 DEF Levels
  <2>3. At(frame) \in Reached(w[k - 1].block)
    BY <1>7 DEF Inside
  <2> QED
    BY <1>8, <2>2, <2>3, BlockFacts
<1>12. Inside(n, w[k - 1].block) /\ At(n) = At(frame)
  BY <1>7, <1>10 DEF Inside, At
<1>13. Len(n.stack) <= w[k - 1].level + w[k - 1].block.height[At(n)]
  <2> DEFINE s == Len(m.stack)
             l == w[k].level
             h == w[k].block.height[At(m)]
             p == w[k - 1].level
             g == w[k - 1].block.height[At(frame)]
  <2>1. s \in Nat /\ l \in Int /\ h \in Int /\ p \in Int /\ g \in Int /\ s <= l + h /\ h <= 1 /\ l + 1 <= p + g
    BY <1>4, <1>7, <1>8, <1>9, <1>11
  <2>2. Len(n.stack) = s /\ w[k - 1].block.height[At(n)] = g
    BY <1>10, <1>12
  <2> HIDE DEF s, l, h, p, g
  <2>3. s <= p + g
    BY <2>1
  <2> QED
    BY <2>2, <2>3 DEF p
<1>14. FramesFit(calls, w)
  <2> SUFFICES ASSUME NEW i \in 1..(k - 1)
               PROVE  /\ Inside(calls[i], w[i - 1].block) /\ w[i].block.function
                      /\ w[i].level + 1 <= w[i - 1].level + w[i - 1].block.height[At(calls[i])]
    BY <1>5 DEF FramesFit
  <2>1. i \in 1..k /\ calls[i] = m.callStack[i]
    BY <1>4, <1>5
  <2> QED
    BY <1>3, <2>1 DEF Fits, FramesFit, k
<1>15. Floors(n, w)
  <2> SUFFICES ASSUME ~m.dropped
               PROVE  /\ w[k - 1].level + w[k - 1].block.floor[At(n)] <= Len(n.stack)
                      /\ \A i \in 1..(k - 1) : w[i - 1].level + w[i - 1].block.floor[At(calls[i])] <= w[i].level + 1
    BY <1>5, <1>10 DEF Floors
  <2>1. /\ w[k].level + w[k].block.floor[At(m)] <= Len(m.stack)
        /\ \A i \in 1..k : w[i - 1].level + w[i - 1].block.floor[At(m.callStack[i])] <= w[i].level + 1
    BY <1>3 DEF Fits, Floors, k
  <2>2. w[k].block.function
    BY <1>3, <1>4 DEF Fits, FramesFit, k
  <2>3. w[k].block.floor[At(m)] >= 1
    BY <1>1, <1>3, <2>2, AtInstruction DEF InstructionVerified, k
  <2>4. w[k - 1].level + w[k - 1].block.floor[At(n)] <= w[k].level + 1
    BY <1>4, <1>12, <2>1 DEF frame
  <2>5. w[k].block.floor[At(m)] \in Int /\ w[k - 1].block.floor[At(n)] \in Int
    BY <1>8, <1>11, <1>12, BlockFacts DEF Inside
  <2>6. w[k - 1].level + w[k - 1].block.floor[At(n)] <= Len(m.stack)
    <3> DEFINE a == Len(m.stack)
               l == w[k].level
               h == w[k].block.floor[At(m)]
               p == w[k - 1].level
               g == w[k - 1].block.floor[At(n)]
    <3>1. a \in Int /\ l \in Int /\ h \in Int /\ p \in Int /\ g \in Int /\ l + h <= a /\ h >= 1 /\ p + g <= l + 1
      BY <1>4, <1>11, <2>1, <2>3, <2>4, <2>5
    <3> HIDE DEF a, l, h, p, g
    <3>2. p + g <= a
      BY <3>1
    <3> QED
      BY <3>2 DEF a, p, g
  <2>7. ASSUME NEW i \in 1..(k - 1)
        PROVE  w[i - 1].level + w[i - 1].block.floor[At(calls[i])] <= w[i].level + 1
    <3>1. i \in 1..k /\ calls[i] = m.callStack[i]
      BY <1>4, <1>5
    <3> QED
      BY <2>1, <3>1
  <2> QED
    BY <1>10, <2>6, <2>7
<1>16. Fits(n, w)
  BY <1>3, <1>2, <1>5, <1>10, <1>12, <1>13, <1>14, <1>15 DEF Fits, TopFits, StackOK
<1>17. Runs(n)
  BY <1>1, <1>2, <1>10, <1>16 DEF Runs, Running
<1> QED
  BY <1>10, <1>17 DEF Keeps, MachineOK, n

\* Where the code of a route or an async block ends nothing but its result is on the stack.
LEMMA HaltKeeps == ASSUME Shape, NEW t \in Threads, MachineOK(vm[t]), ExecHalt(t) PROVE Keeps(t)
<1> DEFINE m == vm[t]
           k == Len(m.callStack)
<1>1. Running(t)
  BY DEF ExecHalt
<1>2. Runs(m) /\ StackOK(m)
  BY <1>1, RunningRuns
<1>3. PICK w \in Levels : Fits(m, w)
  BY <1>2 DEF Runs
<1>4. k \in Nat /\ Len(m.stack) \in Nat /\ (m.stack = << >> <=> Len(m.stack) = 0) /\ (m.callStack = << >> <=> k = 0)
  BY <1>2, <1>3, LenSeq DEF Fits, StackOK
<1>5. w[k].block \in Blocks /\ Inside(m, w[k].block)
  BY <1>3, <1>4 DEF Levels, Fits, TopFits
<1>6. ~w[k].block.function => k = 0
  BY <1>3, <1>4 DEF Fits, FramesFit
<1>7. k = 0 /\ w[k].block.height[At(m)] <= 1
  <2>1. CASE ~InCode(t)
    <3>1. At(m) \notin DOMAIN w[k].block.code
      BY <1>5, <2>1 DEF Inside, InCode, At
    <3>2. MayEnd(w[k].block, At(m))
      BY <1>5, <3>1, CodeAssumption DEF BlockVerified, Inside
    <3> QED
      BY <1>6, <3>2 DEF MayEnd
  <2>2. CASE InCode(t)
    <3>1. InstructionVerified(w[k].block, At(m), Opcode(t), Operand(t))
      BY <1>3, <2>2, AtInstruction
    <3>2. CASE Opcode(t) = "Halt"
      BY <1>6, <3>1, <3>2 DEF InstructionVerified, MayEnd
    <3>3. CASE Opcode(t) = "Return" /\ m.callStack = << >>
      BY <1>4, <3>1, <3>3 DEF InstructionVerified
    <3> QED
      BY <2>2, <3>2, <3>3 DEF ExecHalt
  <2> QED
    BY <2>1, <2>2
<1>8. Len(m.stack) <= 1
  <2>1. w[0].level = 0 /\ Len(m.stack) <= w[k].level + w[k].block.height[At(m)]
    BY <1>3 DEF Fits, TopFits
  <2>2. w[k].block.height[At(m)] \in Int
    BY <1>5, BlockFacts DEF Inside
  <2> QED
    BY <1>4, <1>7, <2>1, <2>2
<1>9. CASE m.stack = << >>
  <2>1. Others(t) /\ vm'[t].status = "ended" /\ vm'[t].stack = << >>
    BY <1>9 DEF ExecHalt, Finish, Others, Shape, Fields, Unused
  <2> QED
    BY <1>4, <2>1, EndsKeep, NoValues, StackAssumption DEF Ended
<1>10. CASE m.stack # << >>
  <2>1. Others(t) /\ vm'[t].status = "ended" /\ vm'[t].stack = Dropped(m.stack, 1)
    BY <1>10 DEF ExecHalt, Finish, Others, Shape, Fields, Unused
  <2>2. IsSeq(Dropped(m.stack, 1)) /\ Len(Dropped(m.stack, 1)) = 0
    BY <1>2, <1>4, <1>8, <1>10, DroppedSeq DEF StackOK
  <2>3. Dropped(m.stack, 1) = << >>
    BY <2>2, LenSeq
  <2> QED
    BY <2>1, <2>2, <2>3, EndsKeep, StackAssumption DEF Ended
<1> QED
  BY <1>9, <1>10

\* The new machine of an async block begins as a verified block does.
LEMMA AsyncKeeps ==
  ASSUME Shape, \A u \in Threads : MachineOK(vm[u]), NEW t \in Threads, ExecAsync(t)
  PROVE  MachinesOK'
<1> DEFINE m     == vm[t]
<1>1. Running(t) /\ InCode(t) /\ Opcode(t) = "Async"
  BY DEF ExecAsync, Ready
<1>2. Runs(m) /\ StackOK(m)
  BY <1>1, RunningRuns
<1>3. PICK w \in Levels : Fits(m, w)
  BY <1>2 DEF Runs
<1>4. PICK u \in Threads :
        /\ vm[u].status = "unused"
        /\ vm' = [vm EXCEPT ![u] = Started(AsyncBody(t), 0, m.locals),
                            ![t].stack = Pushed(@, <<"future", u>>), ![t].pc = @ + Operand(t) + 1,
                            ![t].dropped = @ \/ Full(m.stack)]
  BY DEF ExecAsync
<1>5. u # t
  BY <1>1, <1>4 DEF Running
<1>6. PICK b \in Blocks : b = w[Len(m.callStack)].block
  BY <1>3, AtInstruction, <1>1
<1>7. /\ m.pc \in Int /\ m.base \in Int /\ At(m) \in Int /\ Operand(t) \in Nat
      /\ Leads(b, At(m), At(m) + Operand(t) + 1, 1, {}) /\ AsyncVerified(b, At(m), Operand(t))
  BY <1>1, <1>3, <1>6, AtInstruction DEF InstructionVerified
<1>8. Inside(m, b)
  BY <1>3, <1>6 DEF Fits, TopFits
<1> DEFINE new == Pushed(m.stack, <<"future", u>>)
<1>9. /\ IsSeq(new) /\ Len(new) <= MaxStackSize /\ Len(new) <= Len(m.stack) + 1
      /\ ~Full(m.stack) => Len(new) = Len(m.stack) + 1
  BY <1>2, PushedSeq DEF StackOK
<1> HIDE DEF new
<1>10. /\ Shape' /\ vm'[u] = Started(AsyncBody(t), 0, m.locals)
       /\ vm'[t].stack = new /\ vm'[t].pc = m.pc + Operand(t) + 1
       /\ vm'[t].dropped = (m.dropped \/ Full(m.stack))
       /\ \A f \in Fields \ Scratch : vm'[t][f] = m[f]
       /\ \A v \in Threads \ {t, u} : vm'[v] = vm[v]
  <2>1. vm'[u] = Started(AsyncBody(t), 0, m.locals) /\ \A v \in Threads \ {t, u} : vm'[v] = vm[v]
    BY <1>4, <1>5 DEF Shape
  <2>2. vm'[t] = [m EXCEPT !.stack = Pushed(@, <<"future", u>>), !.pc = @ + Operand(t) + 1, !.dropped = @ \/ Full(m.stack)]
    BY <1>4, <1>5 DEF Shape
  <2>3. DOMAIN vm' = Threads /\ DOMAIN m = Fields
    BY <1>4 DEF Shape
  <2>4. DOMAIN Started(AsyncBody(t), 0, m.locals) = Fields
    BY DEF Started, Unused, Fields
  <2>5. DOMAIN vm'[t] = Fields
    BY <2>2, <2>3
  <2>6. Shape'
    BY <2>1, <2>3, <2>4, <2>5 DEF Shape
  <2>7. vm'[t].stack = new /\ vm'[t].pc = m.pc + Operand(t) + 1 /\ vm'[t].dropped = (m.dropped \/ Full(m.stack))
    BY <2>2, <2>3 DEF Fields, Unused, new
  <2>8. \A f \in Fields \ Scratch : vm'[t][f] = m[f]
    BY <2>2, <2>3 DEF Scratch
  <2> QED
    BY <2>1, <2>6, <2>7, <2>8
<1>11. MachineOK(vm'[t])
  <2>1. Goes(m, vm'[t], m.pc + Operand(t) + 1, 1, {})
    <3>1. Exact(m, vm'[t], 1)
      BY <1>9, <1>10 DEF Exact
    <3> QED
      BY <1>1, <1>9, <1>10, <3>1 DEF Goes, StackOK, Running, Fields, Unused, Scratch
  <2> DEFINE d == 1
             pc == m.pc + Operand(t) + 1
             j == At(m) + Operand(t) + 1
  <2>2. /\ d \in Int /\ pc \in Int /\ j = pc - m.base
        /\ Leads(w[Len(m.callStack)].block, At(m), j, d, {}) /\ Goes(m, vm'[t], pc, d, {})
    <3>1. d \in Int /\ pc \in Int
      BY <1>7
    <3>2. j = pc - m.base
      BY <1>7 DEF At
    <3>3. Leads(w[Len(m.callStack)].block, At(m), j, d, {})
      BY <1>6, <1>7, Zenon
    <3>4. Goes(m, vm'[t], pc, d, {})
      BY <2>1, Zenon
    <3> QED
      BY <3>1, <3>2, <3>3, <3>4, Zenon
  <2>3. FunctionsVerified(m.functions)
    BY <1>2 DEF Runs
  <2> HIDE DEF d, pc, j
  <2> QED
    BY <1>3, <2>2, <2>3, GoesFits
<1>12. MachineOK(vm'[u])
  <2>1. PICK a \in Blocks : a.code = AsyncBody(t) /\ a.base = 0 /\ ~a.function /\ a.bound[1] \subseteq b.bound[At(m)]
    <3>1. AsyncBody(t) = SubSeq(b.code, At(m) + 1, At(m) + Operand(t))
      BY <1>8 DEF Inside, AsyncBody, At
    <3> QED
      BY <1>7, <3>1 DEF AsyncVerified
  <2> DEFINE n  == vm'[u]
             w2 == [i \in Nat |-> [block |-> a, level |-> 0]]
  <2>2. /\ n.status = "running" /\ n.code = a.code /\ n.base = 0 /\ n.pc = 1 /\ n.locals = m.locals
        /\ n.stack = << >> /\ n.callStack = << >> /\ n.functions = NoFields
    BY <1>10, <2>1 DEF Started, Unused
  <2> HIDE DEF n
  <2>3. 1 \in Reached(a) /\ a.height[1] \in Int /\ a.height[1] >= 0 /\ a.floor[1] \in Int /\ a.floor[1] <= 0
    BY BlockBegins
  <2>4. At(n) = 1
    BY <2>2 DEF At
  <2>5. Inside(n, a)
    BY <1>8, <2>1, <2>2, <2>3, <2>4 DEF Inside
  <2>6. IsSeq(n.stack) /\ Len(n.stack) = 0 /\ IsSeq(n.callStack) /\ Len(n.callStack) = 0
    BY <2>2, NoValues
  <2>7. w2 \in Levels /\ w2[0].block = a /\ w2[0].level = 0
    BY DEF Levels
  <2> HIDE DEF w2
  <2>8. Fits(n, w2)
    BY <2>1, <2>3, <2>4, <2>5, <2>6, <2>7, StackAssumption DEF Fits, TopFits, FramesFit, Floors, StackOK
  <2>9. FunctionsVerified(n.functions)
    BY <2>2 DEF FunctionsVerified, NoFields
  <2> QED
    BY <2>2, <2>7, <2>8, <2>9 DEF MachineOK, Runs, n
<1>13. \A v \in Threads : MachineOK(vm'[v])
  BY <1>10, <1>11, <1>12
<1> QED
  BY <1>10, <1>13 DEF MachinesOK, Shape, MachineOK, Runs, Ended, Fits, TopFits, FramesFit, StackOK

----------------------------------------------------------------------------
(* All steps *)

LEMMA KeepsMachines ==
  ASSUME MachinesOK, NEW t \in Threads, Keeps(t)
  PROVE  MachinesOK'
BY DEF MachinesOK, Keeps, Others, Shape

LEMMA StepHolds ==
  ASSUME MachinesOK, NEW t \in Threads, Step(t)
  PROVE  MachinesOK'
<1>1. Shape /\ MachineOK(vm[t]) /\ \A u \in Threads : MachineOK(vm[u])
  BY DEF MachinesOK
<1>2. CASE \/ ExecPush(t) \/ ExecBinary(t) \/ ExecUnary(t) \/ ExecGetIndex(t) \/ ExecGetField(t)
           \/ ExecBuildArray(t) \/ ExecBuildObject(t) \/ ExecCall(t) \/ ExecAwait(t) \/ ExecTry(t)
           \/ ExecWsGetRooms(t) \/ ExecWsGetClients(t) \/ ExecWsCount(t)
  BY <1>1, <1>2, StackKeeps, KeepsMachines
<1>3. CASE Underflow(t) \/ AwaitTimeout(t) \/ WsRefused(t)
  BY <1>1, <1>3, FailsKeep, KeepsMachines
<1>4. CASE ExecPop(t)
  BY <1>1, <1>4, PopKeeps, KeepsMachines
<1>5. CASE ExecLoadVar(t)
  BY <1>1, <1>5, LoadVarKeeps, KeepsMachines
<1>6. CASE ExecStoreVar(t)
  BY <1>1, <1>6, StoreVarKeeps, KeepsMachines
<1>7. CASE ExecJump(t)
  BY <1>1, <1>7, JumpKeeps, KeepsMachines
<1>8. CASE ExecJumpIfFalse(t)
  BY <1>1, <1>8, JumpIfFalseKeeps, KeepsMachines
<1>9. CASE ExecGetIter(t)
  BY <1>1, <1>9, GetIterKeeps, KeepsMachines
<1>10. CASE ExecIterHasNext(t)
  BY <1>1, <1>10, IterHasNextKeeps, KeepsMachines
<1>11. CASE ExecIterNext(t)
  BY <1>1, <1>11, IterNextKeeps, KeepsMachines
<1>12. CASE ExecCallUser(t)
  BY <1>1, <1>12, CallUserKeeps, KeepsMachines
<1>13. CASE ExecReturn(t)
  BY <1>1, <1>13, ReturnKeeps, KeepsMachines
<1>14. CASE ExecHalt(t)
  BY <1>1, <1>14, HaltKeeps, KeepsMachines
<1>15. CASE ExecWsTell(t)
  BY <1>1, <1>15, WsTellKeeps, KeepsMachines
<1>16. CASE ExecAsync(t)
  BY <1>1, <1>16, AsyncKeeps
<1> QED
  BY <1>2, <1>3, <1>4, <1>5, <1>6, <1>7, <1>8, <1>9, <1>10, <1>11, <1>12, <1>13, <1>14, <1>15, <1>16 DEF Step

LEMMA InitHolds == Init => Inv
<1> SUFFICES ASSUME Init, program.tier # "ssa" PROVE MachinesOK
  BY DEF Inv
<1> DEFINE p == program
           m == vm[Main]
<1>1. ProgramVerified(p)
  BY CodeAssumption DEF Init
<1>2. PICK b \in Blocks : BlockOf(b, p.code, p.base, FALSE) /\ b.bound[1] \subseteq DOMAIN p.params
  BY <1>1 DEF ProgramVerified
<1>3. Main \in Threads
  BY ThreadsAssumption DEF Main, Threads
<1>4. /\ Shape /\ \A t \in Threads \ {Main} : vm[t].status = "unused" /\ vm[t].stack = << >>
      /\ m.status = "running" /\ m.code = p.code /\ m.base = p.base /\ m.pc = p.base + 1 /\ m.locals = p.params
      /\ m.functions = p.functions /\ m.stack = << >> /\ m.callStack = << >>
  BY <1>3 DEF Init, Load, Started, Unused, Shape, Fields
<1> DEFINE w == [i \in Nat |-> [block |-> b, level |-> 0]]
<1>5. 1 \in Reached(b) /\ b.height[1] \in Int /\ b.height[1] >= 0 /\ b.floor[1] \in Int /\ b.floor[1] <= 0 /\ b.base \in Nat
  BY BlockBegins
<1> HIDE DEF m, p
<1>6. At(m) = 1 /\ m.pc \in Int
  BY <1>2, <1>4, <1>5 DEF At, BlockOf
<1>7. Inside(m, b)
  BY <1>2, <1>4, <1>5, <1>6 DEF Inside, BlockOf
<1>8. IsSeq(m.stack) /\ Len(m.stack) = 0 /\ IsSeq(m.callStack) /\ Len(m.callStack) = 0
  BY <1>4, NoValues
<1>9. w \in Levels /\ w[0].block = b /\ w[0].level = 0
  BY DEF Levels
<1> HIDE DEF w
<1>10. ~b.function
  BY <1>2 DEF BlockOf
<1>11. Fits(m, w)
  BY <1>5, <1>6, <1>7, <1>8, <1>9, <1>10, StackAssumption DEF Fits, TopFits, FramesFit, Floors, StackOK
<1>12. FunctionsVerified(m.functions)
  BY <1>1, <1>4 DEF ProgramVerified, FunctionsVerified
<1>13. MachineOK(m)
  BY <1>4, <1>9, <1>11, <1>12 DEF MachineOK, Runs
<1> QED
  BY <1>4, <1>13 DEF MachinesOK, MachineOK, m

LEMMA SameMachines == ASSUME MachinesOK, UNCHANGED vm PROVE MachinesOK'
<1>1. Shape' /\ \A t \in Threads : MachineOK(vm'[t])
  BY DEF MachinesOK, Shape
<1> QED
  BY <1>1 DEF MachinesOK

LEMMA NextHolds == ASSUME Inv, [Next]_vars PROVE Inv'
<1> SUFFICES ASSUME program'.tier # "ssa" PROVE MachinesOK'
  BY DEF Inv
<1>1. program' = program
  BY DEF Next, Idle, vars
<1>2. MachinesOK
  BY <1>1 DEF Inv
<1>3. CASE \E t \in Threads : Step(t)
  BY <1>2, <1>3, StepHolds
<1>4. CASE UNCHANGED vars
  BY <1>2, <1>4, SameMachines DEF vars
<1> QED
  BY <1>3, <1>4 DEF Next, Idle

----------------------------------------------------------------------------
(* Theorems *)

\* Whatever a route whose code is verified calls, awaits or loops over, every machine is where one of
\* the blocks expects it (runLoop, executeRaw).
THEOREM Invariance == Spec => []Inv
BY InitHolds, NextHolds, PTL DEF Spec

\* A machine that ends without an error leaves nothing on its stack, whatever loops, branches, calls and
\* returns it went through (runLoop's result).
THEOREM StackBalancedHolds == Spec => []StackBalanced
<1>1. ASSUME Inv PROVE StackBalanced
  <2> SUFFICES ASSUME program.tier # "ssa", NEW t \in Threads, vm[t].status = "ended", vm[t].result # Fail
               PROVE  vm[t].stack = << >>
    BY DEF StackBalanced
  <2> QED
    BY <1>1 DEF Inv, MachinesOK, MachineOK, Runs, Ended
<1> QED
  BY <1>1, Invariance, PTL

\* A variable that is loaded outside a function has a value (execLoadVar's "undefined variable" is never met).
THEOREM ResolvedIsBoundHolds == Spec => []ResolvedIsBound
<1>1. ASSUME Inv PROVE ResolvedIsBound
  <2> SUFFICES ASSUME NEW t \in Threads, Ready(t, {"LoadVar"}, 0), vm[t].callStack = << >>, program.tier # "ssa"
               PROVE  Operand(t) \in DOMAIN vm[t].locals
    BY DEF ResolvedIsBound
  <2>1. Running(t) /\ InCode(t) /\ Opcode(t) = "LoadVar"
    BY DEF Ready
  <2>2. Runs(vm[t])
    BY <1>1, <2>1, RunningRuns DEF Inv, MachinesOK
  <2>3. PICK w \in Levels : Fits(vm[t], w)
    BY <2>2 DEF Runs
  <2>4. Len(vm[t].callStack) = 0
    BY NoValues
  <2>5. InstructionVerified(w[0].block, At(vm[t]), "LoadVar", Operand(t))
    BY <2>1, <2>3, <2>4, AtInstruction
  <2>6. Operand(t) \in w[0].block.bound[At(vm[t])]
    BY <2>3, <2>5 DEF InstructionVerified, Fits
  <2>7. w[0].block.bound[At(vm[t])] \subseteq DOMAIN vm[t].locals
    BY <2>3, <2>4 DEF Fits, TopFits, Inside
  <2> QED
    BY <2>6, <2>7
<1> QED
  BY <1>1, Invariance, PTL

\* The program counter of a running machine is inside its code or just behind it and no stack grows beyond
\* its limit (patchJump, Push).
THEOREM CountersHold == Spec => [](program.tier # "ssa" => CountersOK)
<1>1. ASSUME Inv, program.tier # "ssa", NEW t \in Threads
      PROVE  /\ vm[t].status \in {"unused", "running", "ended"}
             /\ vm[t].status = "running" => vm[t].pc - vm[t].base \in 1..(Len(vm[t].code) + 1)
             /\ Len(vm[t].stack) <= MaxStackSize
  <2>1. MachineOK(vm[t])
    BY <1>1 DEF Inv, MachinesOK
  <2>2. CASE Runs(vm[t])
    <3>1. PICK w \in Levels : Fits(vm[t], w)
      BY <2>2 DEF Runs
    <3>2. w[Len(vm[t].callStack)].block \in Blocks
      BY <3>1, LenSeq DEF Fits, Levels
    <3>3. PICK b \in Blocks : Inside(vm[t], b)
      BY <3>1, <3>2 DEF Fits, TopFits
    <3>4. At(vm[t]) \in 1..(Len(b.code) + 1) /\ b.code = vm[t].code
      BY <3>3, CodeAssumption DEF Inside, BlockVerified
    <3>5. vm[t].pc - vm[t].base \in 1..(Len(vm[t].code) + 1)
      BY <3>4 DEF At
    <3> QED
      BY <2>2, <3>1, <3>5 DEF Runs, Fits, StackOK
  <2>3. CASE vm[t].status = "unused" /\ vm[t].stack = << >>
    BY <2>3, NoValues, StackAssumption
  <2> QED
    BY <2>1, <2>2, <2>3 DEF MachineOK, Ended
<1>2. Inv /\ program.tier # "ssa" => CountersOK
  BY <1>1 DEF CountersOK
<1> QED
  BY <1>2, Invariance, PTL

\* Every instruction finds the values it takes: as long as no push was dropped, verified code never makes
\* Pop report "stack underflow", however deep its calls are and whatever its loops do.
NoUnderflow ==
  program.tier # "ssa" =>
     \A t \in Threads : Running(t) /\ InCode(t) /\ ~vm[t].dropped => Len(vm[t].stack) >= Needs(t)

\* It follows from Floors, the part of Fits about the least heights: the verifier lets an instruction take
\* no more than the floor of its place.
THEOREM NoUnderflowHolds == Spec => []NoUnderflow
<1>1. ASSUME Inv PROVE NoUnderflow
  <2> SUFFICES ASSUME program.tier # "ssa", NEW t \in Threads, Running(t), InCode(t), ~vm[t].dropped
               PROVE  Len(vm[t].stack) >= Needs(t)
    BY DEF NoUnderflow
  <2> DEFINE k == Len(vm[t].callStack)
  <2>1. Runs(vm[t])
    BY <1>1, RunningRuns DEF Inv, MachinesOK
  <2>2. PICK w \in Levels : Fits(vm[t], w)
    BY <2>1 DEF Runs
  <2>3. k \in Nat /\ Len(vm[t].stack) \in Nat
    BY <2>2, LenSeq DEF Fits, StackOK
  <2>4. w[k].level \in Nat /\ w[k].block \in Blocks
    BY <2>3 DEF Levels
  <2>5. w[k].level + w[k].block.floor[At(vm[t])] <= Len(vm[t].stack)
    BY <2>2 DEF Fits, Floors
  <2>6. At(vm[t]) \in Reached(w[k].block) /\ w[k].block.code = vm[t].code /\ At(vm[t]) \in DOMAIN w[k].block.code
    BY <2>2 DEF Fits, TopFits, Inside, InCode, At
  <2>7. Needs(t) <= w[k].block.floor[At(vm[t])]
    BY <2>4, <2>6, CodeAssumption DEF BlockVerified, Needs, Opcode, Operand, At
  <2>8. w[k].block.floor[At(vm[t])] \in Int
    BY <2>4, <2>6, BlockFacts
  <2>9. Needs(t) \in Nat
    <3>1. InstructionVerified(w[k].block, At(vm[t]), Opcode(t), Operand(t))
      BY <2>2, AtInstruction
    <3>2. Opcode(t) \in {"BuildArray", "BuildObject", "Call"} => Operand(t) \in Nat
      BY <3>1 DEF InstructionVerified
    <3> QED
      BY <3>2, TakesNat DEF Needs
  <2> HIDE DEF k
  <2> QED
    BY <2>3, <2>4, <2>5, <2>7, <2>8, <2>9
<1> QED
  BY <1>1, Invariance, PTL
=============================================================================
