----------------------------- MODULE VerifiedCode -----------------------------
(***************************************************************************)
(* What the baseline compiler promises the VM about the code it emits.     *)
(* The VM takes this on trust: nothing verifies bytecode before execution. *)
(*                                                                         *)
(* A block is a piece of code with, for every place that can be reached in *)
(* it, how many values of its own it has on the stack there at most        *)
(* (height) and at least (floor), and which variables have a value         *)
(* (bound).  Blocks are the code of routes and of async blocks, and of     *)
(* functions (function = TRUE), whose variables nothing is known about.    *)
(* Where paths meet, the greatest height, the least floor and the common   *)
(* variables count; a loop must leave them alone.                          *)
(***************************************************************************)
EXTENDS RouteExecution

CONSTANT Blocks

\* How many values an instruction leaves where it takes others.
Gives(op, arg) ==
  CASE op = "IterNext"                                 -> IF arg THEN 2 ELSE 1
    [] op \in {"Pop", "StoreVar", "Jump", "JumpIfFalse"} -> 0
    [] OTHER                                           -> 1

Reached(b) == DOMAIN b.height

\* The instruction at i leads to the place j, where the stack has grown by d and names have been bound.
Leads(b, i, j, d, names) ==
  /\ j \in Reached(b) /\ b.bound[j] \subseteq b.bound[i] \cup names
  /\ b.height[i] + d <= b.height[j] /\ b.floor[j] <= b.floor[i] + d

\* At most the result is left; a function does not end by itself.
MayEnd(b, i) == b.height[i] <= 1 /\ ~b.function

\* The n instructions behind i, executed by a new VM, are a block that finds its variables bound.
AsyncVerified(b, i, n) ==
  \E a \in Blocks :
     a.code = SubSeq(b.code, i + 1, i + n) /\ a.base = 0 /\ ~a.function /\ a.bound[1] \subseteq b.bound[i]

InstructionVerified(b, i, op, arg) ==
  CASE op = "Jump"        -> arg \in Int /\ Leads(b, i, arg - b.base, 0, {})
    [] op = "JumpIfFalse" -> arg \in Int /\ Leads(b, i, arg - b.base, -1, {}) /\ Leads(b, i, i + 1, -1, {})
    [] op = "Return"      -> b.height[i] <= 1 /\ (b.function => b.floor[i] >= 1)
    [] op = "Halt"        -> MayEnd(b, i)
    [] op = "Async"       -> arg \in Nat /\ Leads(b, i, i + arg + 1, 1, {}) /\ AsyncVerified(b, i, arg)
    [] op = "StoreVar"    -> Leads(b, i, i + 1, -1, {arg})
    [] op = "LoadVar"     -> Leads(b, i, i + 1, 1, {}) /\ (b.function \/ arg \in b.bound[i])
    [] OTHER              -> /\ op \in {"BuildArray", "BuildObject", "Call"} => arg \in Nat
                             /\ Leads(b, i, i + 1, Gives(op, arg) - Takes(op, arg), {})

BlockVerified(b) ==
  /\ b.base \in Nat /\ b.function \in BOOLEAN
  /\ 1 \in Reached(b) /\ Reached(b) \subseteq 1..(Len(b.code) + 1)
  /\ \A i \in Reached(b) : b.height[i] \in Int /\ b.floor[i] \in Int
  /\ b.floor[1] <= 0 /\ 0 <= b.height[1]
  /\ \A i \in Reached(b) :
       IF i \in DOMAIN b.code
       THEN InstructionVerified(b, i, b.code[i][1], b.code[i][2]) /\ Takes(b.code[i][1], b.code[i][2]) <= b.floor[i]
       ELSE MayEnd(b, i)

BlockOf(b, code, base, function) == b.code = code /\ b.base = base /\ b.function = function

ProgramVerified(p) ==
  /\ \E b \in Blocks : BlockOf(b, p.code, p.base, FALSE) /\ b.bound[1] \subseteq DOMAIN p.params
  /\ \A f \in DOMAIN p.functions :
       \E b \in Blocks : BlockOf(b, p.functions[f].code, p.functions[f].base, TRUE) /\ b.bound[1] = {}

\* The code of the programs is verified, but for that of the JIT, which leaves constants on the stack.
ASSUME CodeAssumption ==
  /\ \A b \in Blocks : BlockVerified(b)
  /\ \A p \in Programs : p.tier # "ssa" => ProgramVerified(p)
=============================================================================
