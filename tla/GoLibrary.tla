----------------------------- MODULE GoLibrary -----------------------------
(***************************************************************************)
(* What the built-in functions of the interpreter and of the VM call of    *)
(* Go's library: functions of strings and strconv, and the clock.  A       *)
(* string is the sequence of its symbols, so an index counts runes.        *)
(***************************************************************************)
EXTENDS Values, SequencesExt

CONSTANT Clock  \* the Unix time while a request is answered

ASSUME ClockAssumption == Clock \in Nat

\* Where p begins in s; the empty string is everywhere.
Places(s, p) == {i \in 1..(Len(s) - Len(p) + 1) : SubSeq(s, i, i + Len(p) - 1) = p}

Explode(s) == [i \in DOMAIN s |-> <<s[i]>>]

\* The parts of s between separators that do not overlap.
Cut(s, sep) ==
  LET from[i \in 1..(Len(s) + 1)] ==
        LET next == {j \in Places(s, sep) : j >= i}
        IN  IF next = {} THEN <<SubSeq(s, i, Len(s))>> ELSE <<SubSeq(s, i, Min(next) - 1)>> \o from[Min(next) + Len(sep)]
  IN  from[1]

\* An empty separator separates all symbols.
Split(s, sep) == IF sep = << >> THEN Explode(s) ELSE Cut(s, sep)

Joined(parts, sep) ==
  IF parts = << >> THEN << >> ELSE FoldLeft(LAMBDA text, part : text \o sep \o part, Head(parts), Tail(parts))

\* The empty string is replaced before and after every symbol.
Replaced(s, old, new) ==
  IF old = << >> THEN Joined(<<<< >>>> \o Explode(s) \o <<<< >>>>, new) ELSE Joined(Cut(s, old), new)

Trim(s) ==
  LET kept == {i \in DOMAIN s : s[i] # " "} IN IF kept = {} THEN << >> ELSE SubSeq(s, Min(kept), Max(kept))

Small == <<"a", "b", "c">>
Large == <<"A", "B", "C">>

Translated(s, from, to) ==
  [i \in DOMAIN s |-> IF Contains(from, s[i]) THEN to[CHOOSE k \in DOMAIN from : from[k] = s[i]] ELSE s[i]]

Upper(s) == Translated(s, Small, Large)
Lower(s) == Translated(s, Large, Small)

Digits == <<"0", "1", "2", "3", "4", "5", "6", "7", "8", "9">>

Decimal[n \in Nat] == (IF n < 10 THEN << >> ELSE Decimal[n \div 10]) \o <<Digits[(n % 10) + 1]>>

IntText(n) == IF n < 0 THEN <<"-">> \o Decimal[-n] ELSE Decimal[n]

BoolText(b) == IF b THEN <<"t", "r", "u", "e">> ELSE <<"f", "a", "l", "s", "e">>

\* The symbols of s that begin a decimal number, and its value.
Signed(s) == s # << >> /\ s[1] \in {"-", "+"}

Leading(s) == LET n == {i \in 0..Len(s) : \A k \in 1..i : Contains(Digits, s[k])} IN SubSeq(s, 1, Max(n))

Magnitude(digits) == FoldLeft(LAMBDA n, d : 10 * n + (CHOOSE k \in 0..9 : Digits[k + 1] = d), 0, digits)

Unsigned(s) == IF Signed(s) THEN Tail(s) ELSE s

ParsedPrefix(s) == IF s # << >> /\ s[1] = "-" THEN -Magnitude(Leading(Unsigned(s))) ELSE Magnitude(Leading(Unsigned(s)))

IsNumber(s) == Unsigned(s) # << >> /\ Leading(Unsigned(s)) = Unsigned(s)

----------------------------------------------------------------------------
(* Arguments of a built-in *)

\* n arguments of these types.
Typed(args, types) == Len(args) = Len(types) /\ \A i \in DOMAIN args : Is(args[i], types[i])

Texts(args, n) == Typed(args, [i \in 1..n |-> "string"])

\* What typeOf answers.
TypeNames == [int |-> "int", string |-> "str", bool |-> "bool", array |-> "array", object |-> "object", null |-> "null",
              ok |-> "result", err |-> "result", future |-> "future"]
=============================================================================
