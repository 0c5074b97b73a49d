----------------------------- MODULE BoundedMap -----------------------------
(***************************************************************************)
(* What a cache promises to its callers: a lookup of a key returns the     *)
(* value of the last store under this key, or nothing.  It may forget any  *)
(* entry at any time and holds at most Capacity of them.  Values are       *)
(* numbered by the stores that brought them.                               *)
(***************************************************************************)
EXTENDS Naturals, FiniteSets

CONSTANTS Key, Capacity

VARIABLES
  store,  \* the value of each key, 0 if there is none
  puts    \* completed stores

vars == <<store, puts>>

Held(s) == {k \in Key : s[k] # 0}

Init == store = [k \in Key |-> 0] /\ puts = 0

\* Only some of the entries of ks are forgotten, the others stay as they are.
Forgets(ks) == \A k \in ks : store'[k] \in {0, store[k]}

\* A store may make room by forgetting other keys.
Put(k) ==
  /\ puts' = puts + 1
  /\ store'[k] = puts'
  /\ Forgets(Key \ {k})

Forget == Forgets(Key) /\ UNCHANGED puts

Next == (Forget \/ \E k \in Key : Put(k)) /\ Cardinality(Held(store')) <= Capacity

Spec == Init /\ [][Next]_vars
=============================================================================
