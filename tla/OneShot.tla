------------------------------- MODULE OneShot -------------------------------
(***************************************************************************)
(* What a Future promises its observers (pkg/interpreter/future.go): a     *)
(* family of cells, each written at most once.  `outcome[c]` is empty      *)
(* while the cell is pending and the singleton of its outcome afterwards.  *)
(* The module says nothing of who settles a cell or when.                  *)
(***************************************************************************)

CONSTANTS Cells,     \* the futures
          Outcomes   \* what a settled future can hold

VARIABLE outcome

Init == outcome = [c \in Cells |-> {}]

\* A pending cell takes one outcome; a settled one is never written again.
Settle(c, o) ==
    /\ outcome[c] = {}
    /\ outcome' = [outcome EXCEPT ![c] = {o}]

Next == \E c \in Cells, o \in Outcomes : Settle(c, o)

Spec == Init /\ [][Next]_outcome
=============================================================================
