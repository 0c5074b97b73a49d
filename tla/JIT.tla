-------------------------------- MODULE JIT --------------------------------
(***************************************************************************)
(* Tier-up of one compiled route while requests are served:                *)
(* createCompiledRouteHandler (cmd/glyph/handlers.go), JITRouteManager     *)
(* (cmd/glyph/jit_routes.go) and JITCompiler (pkg/jit).                    *)
(*                                                                         *)
(* Every request runs in a goroutine of its own and goes through the steps *)
(* below; each step is what happens under one lock or between two.  The    *)
(* compilation unit is made when the server starts and, in a server, never *)
(* removed, so its record stands for units[name].  Tiers Optimized and     *)
(* HighlyOptimized go through the same SSA compiler.  The thresholds of    *)
(* the code are 50 and 500 executions, and 20 for the GPU.                 *)
(***************************************************************************)
EXTENDS Integers

CONSTANTS
  Request,       \* goroutines that serve requests
  Hot, VeryHot,  \* executionThreshold and ten times that
  GpuAfter,      \* executions before the GPU is considered
  GpuCompatible, \* IsGPUCompatible(route)
  ForceGPU,      \* the server was told to try the GPU for every request (forceGPU)
  SsaCompiles,   \* SSACompiler.CompileRoute returns no error for the route
  MaxServed      \* bound on the requests

ASSUME ThresholdAssumption == Hot \in Nat /\ VeryHot \in Nat /\ Hot <= VeryHot /\ GpuAfter \in Nat
ASSUME RouteAssumption == GpuCompatible \in BOOLEAN /\ ForceGPU \in BOOLEAN /\ SsaCompiles \in BOOLEAN
ASSUME ServedAssumption == MaxServed \in Nat

VARIABLES
  unit,        \* the compilation unit: its tier and its bytecode
  executions,  \* profile.ExecutionCount
  gpuReady,
  current,     \* currentBytecode of the handler
  served,
  pc,          \* the next step of each request
  active,      \* the bytecode a request runs
  onGPU,       \* the request was answered by the GPU
  next,        \* the tier a recompilation is for
  upgraded,    \* the bytecode RecordExecution returns
  discarded    \* history: an upgrade was returned to a request that ran on the GPU

locals == <<pc, active, onGPU, next, upgraded>>
vars == <<unit, executions, gpuReady, current, served, locals, discarded>>

Baseline == 1
Optimized == 2
HighlyOptimized == 3
Tier == Baseline..HighlyOptimized

\* Mutant: only the highest tier is optimized.
CodeOfHighest(tier) == IF tier > Optimized THEN "ssa" ELSE "base"

\* compileWithTier: the compiler a tier uses.
CodeOf(tier) == IF tier >= Optimized THEN "ssa" ELSE "base"

Init ==
  /\ unit = [tier |-> Baseline, code |-> "base"]
  /\ executions = 0
  /\ gpuReady = FALSE
  /\ current = "base"
  /\ served = 0
  /\ pc = [r \in Request |-> "idle"]
  /\ active = [r \in Request |-> "base"]
  /\ onGPU = [r \in Request |-> FALSE]
  /\ next = [r \in Request |-> Baseline]
  /\ upgraded = [r \in Request |-> "none"]
  /\ discarded = FALSE

Goto(r, step) == pc' = [pc EXCEPT ![r] = step]

\* The locals of a request end with it.
Leave(r) ==
  /\ Goto(r, "idle")
  /\ active' = [active EXCEPT ![r] = "base"]
  /\ onGPU' = [onGPU EXCEPT ![r] = FALSE]
  /\ next' = [next EXCEPT ![r] = Baseline]
  /\ upgraded' = [upgraded EXCEPT ![r] = "none"]

----------------------------------------------------------------------------
(* The handler *)

\* The bytecode is read under bytecodeMu.
Arrive(r) ==
  /\ pc[r] = "idle"
  /\ served < MaxServed
  /\ served' = served + 1
  /\ active' = [active EXCEPT ![r] = current]
  /\ Goto(r, "run")
  /\ UNCHANGED <<unit, executions, gpuReady, current, onGPU, next, upgraded, discarded>>

\* A route that is ready for the GPU, or any when that is forced, is tried there first and falls back to the VM.
Execute(r) ==
  /\ pc[r] = "run"
  /\ \E gpu \in IF gpuReady \/ ForceGPU THEN BOOLEAN ELSE {FALSE} : onGPU' = [onGPU EXCEPT ![r] = gpu]
  /\ Goto(r, "record")
  /\ UNCHANGED <<unit, executions, gpuReady, current, served, active, next, upgraded, discarded>>

\* An execution of the VM that fails is answered with an error and not recorded.
ExecuteFails(r) ==
  /\ pc[r] = "run"
  /\ Leave(r)
  /\ UNCHANGED <<unit, executions, gpuReady, current, served, discarded>>

----------------------------------------------------------------------------
(* RecordExecution *)

Record(r) ==
  /\ pc[r] = "record"
  /\ executions' = executions + 1
  /\ Goto(r, "offload")
  /\ UNCHANGED <<unit, gpuReady, current, served, active, onGPU, next, upgraded, discarded>>

\* The average duration is not modelled: it may or may not exceed the 5 ms.
ConsiderGPU(r) ==
  /\ pc[r] = "offload"
  /\ gpuReady' \in IF executions > GpuAfter /\ GpuCompatible THEN {gpuReady, TRUE} ELSE {gpuReady}
  /\ Goto(r, "check")
  /\ UNCHANGED <<unit, executions, current, served, active, onGPU, next, upgraded, discarded>>

\* ShouldRecompile: the profile and the unit's tier are read without the lock of the units.  No caller
\* records variable types, so no variable is found monomorphic.
ShouldRecompile ==
  \/ executions >= Hot /\ unit.tier < Optimized
  \/ executions >= VeryHot /\ unit.tier < HighlyOptimized

CheckAdaptiveRecompilation(r) ==
  /\ pc[r] = "check"
  /\ Goto(r, IF ShouldRecompile THEN "compile" ELSE "done")
  /\ UNCHANGED <<unit, executions, gpuReady, current, served, active, onGPU, next, upgraded, discarded>>

\* getNextTier
NextTier(tier) == IF tier < HighlyOptimized THEN tier + 1 ELSE tier

\* recompileRoute reads the tier again, which another request may have raised meanwhile, and compiles
\* without a lock.  An error leaves everything as it was.
Compile(r) ==
  /\ pc[r] = "compile"
  /\ next' = [next EXCEPT ![r] = NextTier(unit.tier)]
  /\ Goto(r, IF SsaCompiles THEN "store" ELSE "done")
  /\ UNCHANGED <<unit, executions, gpuReady, current, served, active, onGPU, upgraded, discarded>>

Store(r) ==
  /\ pc[r] = "store"
  /\ unit' = [tier |-> next[r], code |-> CodeOf(next[r])]
  /\ Goto(r, "fetch")
  /\ UNCHANGED <<executions, gpuReady, current, served, active, onGPU, next, upgraded, discarded>>

\* GetUnit copies the unit as it is now.
Fetch(r) ==
  /\ pc[r] = "fetch"
  /\ upgraded' = [upgraded EXCEPT ![r] = unit.code]
  /\ Goto(r, "done")
  /\ UNCHANGED <<unit, executions, gpuReady, current, served, active, onGPU, next, discarded>>

\* Mutant: the upgrade is installed only by a request that ran the latest bytecode.
FinishIfSsa(r) ==
  /\ pc[r] = "done"
  /\ current' = IF upgraded[r] # "none" /\ active[r] = "ssa" THEN upgraded[r] ELSE current
  /\ discarded' = (discarded \/ (onGPU[r] /\ upgraded[r] # "none"))
  /\ Leave(r)
  /\ UNCHANGED <<unit, executions, gpuReady, served>>

\* The handler installs the upgrade it got, if its request ran on the VM.
Finish(r) ==
  /\ pc[r] = "done"
  /\ current' = IF upgraded[r] # "none" /\ ~onGPU[r] THEN upgraded[r] ELSE current
  /\ discarded' = (discarded \/ (onGPU[r] /\ upgraded[r] # "none"))
  /\ Leave(r)
  /\ UNCHANGED <<unit, executions, gpuReady, served>>

----------------------------------------------------------------------------
Step(r) ==
  \/ Execute(r)
  \/ ExecuteFails(r)
  \/ Record(r)
  \/ ConsiderGPU(r)
  \/ CheckAdaptiveRecompilation(r)
  \/ Compile(r)
  \/ Store(r)
  \/ Fetch(r)
  \/ Finish(r)

Next == \E r \in Request : Arrive(r) \/ Step(r)

Spec == Init /\ [][Next]_vars

\* A request that was accepted runs to its end; nobody has to send one.
FairSpec == Spec /\ \A r \in Request : WF_vars(Step(r))

----------------------------------------------------------------------------
(* Properties *)

TypeOK ==
  /\ unit \in [tier : Tier, code : {"base", "ssa"}]
  /\ executions \in Nat /\ served \in Nat
  /\ gpuReady \in BOOLEAN /\ discarded \in BOOLEAN
  /\ current \in {"base", "ssa"}
  /\ pc \in [Request -> {"idle", "run", "record", "offload", "check", "compile", "store", "fetch", "done"}]
  /\ active \in [Request -> {"base", "ssa"}]
  /\ onGPU \in [Request -> BOOLEAN]
  /\ next \in [Request -> Tier]
  /\ upgraded \in [Request -> {"none", "base", "ssa"}]

\* Requests that check, recompile and install in any order never put the baseline bytecode back once the
\* optimized one is served, although the unit's tier itself may fall from HighlyOptimized to Optimized.
ServedForward == [][current = "ssa" => current' = "ssa"]_vars

\* A unit that was recompiled is served in the end, unless the request that recompiled it ran on the GPU,
\* whose handler branch drops what RecordExecution returns.
UpgradeInstalled == unit.code = "ssa" ~> (current = "ssa" \/ discarded)

\* recompileRoute "recompiles a route to a higher optimization tier" (pkg/jit/jit.go:236).
TierNeverFalls == [][unit'.tier >= unit.tier]_vars
=============================================================================
