------------------------------- MODULE Values -------------------------------
(***************************************************************************)
(* Runtime values shared by the interpreter and the bytecode VM            *)
(* (pkg/vm/value.go; the interpreter uses the corresponding Go values).    *)
(* A value is a pair <<type, payload>>: comparing the types first makes    *)
(* values of different types comparable.  Names and strings are sequences  *)
(* of symbols; floats are left out.  Fail stands for a Go error.           *)
(***************************************************************************)
EXTENDS Integers, Sequences

IntValue(n)    == <<"int", n>>
BoolValue(b)   == <<"bool", b>>
StringValue(s) == <<"string", s>>
NullValue      == <<"null", 0>>
ArrayValue(s)  == <<"array", s>>
ObjectValue(f) == <<"object", f>>
ResultOk(v)    == <<"ok", v>>
ResultErr(v)   == <<"err", v>>
Fail           == <<"error", 0>>

Is(v, type) == v[1] = type
Both(a, b, type) == Is(a, type) /\ Is(b, type)

NoFields == [k \in {} |-> NullValue]

Bind(scope, n, v) == [k \in DOMAIN scope \cup {n} |-> IF k = n THEN v ELSE scope[k]]

\* Go's int64 division and remainder truncate towards zero.
Abs(n) == IF n < 0 THEN -n ELSE n
Quo(a, b) == LET q == Abs(a) \div Abs(b) IN IF (a < 0) = (b < 0) THEN q ELSE -q
Rem(a, b) == a - b * Quo(a, b)

\* Strings are ordered symbol by symbol, a proper prefix first.
Letters == <<" ", "+", "-", "0", "1", "2", "3", "4", "5", "6", "7", "8", "9", "A", "B", "C", "a", "b", "c">>
Rank(x) == CHOOSE i \in DOMAIN Letters : Letters[i] = x
StringLess(s, t) ==
  \E n \in 0..Len(s) :
     /\ n <= Len(t) /\ SubSeq(s, 1, n) = SubSeq(t, 1, n)
     /\ \/ n = Len(s) /\ n < Len(t)
        \/ n < Len(s) /\ n < Len(t) /\ Rank(s[n + 1]) < Rank(t[n + 1])

Scalar(v) == v[1] \in {"int", "bool", "string", "null"}
=============================================================================
