------------------------------ MODULE Builtins ------------------------------
(***************************************************************************)
(* The interpreter's built-in functions (pkg/interpreter/builtins.go) on   *)
(* arguments that are evaluated already, from the first to the last; Apply *)
(* calls a callback with a sequence of values.                             *)
(*                                                                         *)
(* Values have no identity here, so what append, set and remove return is  *)
(* modelled and not that set and remove change the object itself and that  *)
(* append may share the array.  Left out: floats, the functions that draw  *)
(* random numbers, those that read and write files, those that execute     *)
(* bytecode, and the texts of arrays and objects, which are only a symbol  *)
(* that stands for the value.                                              *)
(***************************************************************************)
EXTENDS GoLibrary

\* fmt's %v.
Shown(v) ==
  CASE Is(v, "string") -> v[2]
    [] Is(v, "int")    -> IntText(v[2])
    [] Is(v, "bool")   -> BoolText(v[2])
    [] Is(v, "null")   -> <<"<nil>">>
    [] OTHER           -> <<"%v">>

----------------------------------------------------------------------------
(* Strings *)

CaseOf(f, args) ==
  CASE ~Texts(args, 1)   -> Fail
    [] f = <<"upper">>   -> StringValue(Upper(args[1][2]))
    [] f = <<"lower">>   -> StringValue(Lower(args[1][2]))
    [] f = <<"trim">>    -> StringValue(Trim(args[1][2]))

SplitText(args) ==
  IF Texts(args, 2)
  THEN LET parts == Split(args[1][2], args[2][2]) IN ArrayValue([i \in DOMAIN parts |-> StringValue(parts[i])])
  ELSE Fail

JoinTexts(args) ==
  IF Typed(args, <<"array", "string">>)
  THEN StringValue(Joined([i \in DOMAIN args[1][2] |-> Shown(args[1][2][i])], args[2][2])) ELSE Fail

ContainsText(args) == IF Texts(args, 2) THEN BoolValue(Places(args[1][2], args[2][2]) # {}) ELSE Fail

ReplaceText(args) ==
  IF Texts(args, 3) THEN StringValue(Replaced(args[1][2], args[2][2], args[3][2])) ELSE Fail

Substring(args) ==
  IF Typed(args, <<"string", "int", "int">>) /\ 0 <= args[2][2] /\ args[2][2] <= args[3][2] /\ args[3][2] <= Len(args[1][2])
  THEN StringValue(SubSeq(args[1][2], args[2][2] + 1, args[3][2])) ELSE Fail

Length(args) ==
  CASE Len(args) # 1                       -> Fail
    [] args[1][1] \in {"array", "string"}  -> IntValue(Len(args[1][2]))
    [] Is(args[1], "object")               -> IntValue(Cardinality(DOMAIN args[1][2]))
    [] OTHER                               -> Fail

StartsOrEnds(f, args) ==
  CASE ~Texts(args, 2)        -> Fail
    [] f = <<"startsWith">>   -> BoolValue(IsPrefix(args[2][2], args[1][2]))
    [] f = <<"endsWith">>     -> BoolValue(IsSuffix(args[2][2], args[1][2]))

IndexOf(args) ==
  CASE ~Texts(args, 2)                          -> Fail
    [] Places(args[1][2], args[2][2]) = {}      -> IntValue(-1)
    [] OTHER                                    -> IntValue(Min(Places(args[1][2], args[2][2])) - 1)

\* The code of a character is its place in the order of symbols.
CharAt(f, args) ==
  CASE ~Typed(args, <<"string", "int">>) \/ args[2][2] \notin 0..(Len(args[1][2]) - 1) -> Fail
    [] f = <<"charAt">> -> StringValue(<<args[1][2][args[2][2] + 1]>>)
    [] OTHER            -> IntValue(Rank(args[1][2][args[2][2] + 1]))

ParseInt(args) ==
  IF Texts(args, 1) /\ IsNumber(Trim(args[1][2])) THEN IntValue(ParsedPrefix(Trim(args[1][2]))) ELSE Fail

TextOf(args) == IF Len(args) = 1 THEN StringValue(Shown(args[1])) ELSE Fail

----------------------------------------------------------------------------
(* Numbers *)

AbsOf(args) == IF Typed(args, <<"int">>) THEN IntValue(Abs(args[1][2])) ELSE Fail

MinOrMax(f, args) ==
  IF Typed(args, <<"int", "int">>)
  THEN IF (args[1][2] < args[2][2]) = (f = <<"min">>) THEN args[1] ELSE args[2] ELSE Fail

\* An arithmetic shift; a negative or large count leaves only the sign.
ShiftedRight(n, bits) == IF bits \in 0..30 THEN n \div 2^bits ELSE IF n < 0 THEN -1 ELSE 0

RECURSIVE BitAnd(_, _)
BitAnd(a, b) ==
  CASE a = 0 \/ b = 0 -> 0
    [] a = -1         -> b
    [] b = -1         -> a
    [] OTHER          -> 2 * BitAnd(a \div 2, b \div 2) + (a % 2) * (b % 2)

Bits(f, args) ==
  CASE ~Typed(args, <<"int", "int">>) -> Fail
    [] f = <<"shr">>                  -> IntValue(ShiftedRight(args[1][2], args[2][2]))
    [] f = <<"band">>                 -> IntValue(BitAnd(args[1][2], args[2][2]))

IntToBytes(n, args) ==
  IF Typed(args, <<"int">>) THEN ArrayValue([i \in 1..n |-> IntValue(ShiftedRight(args[1][2], 8 * (i - 1)) % 256)]) ELSE Fail

ToInt(args) ==
  CASE Len(args) # 1          -> Fail
    [] Is(args[1], "int")     -> args[1]
    [] Is(args[1], "string")  -> IntValue(ParsedPrefix(Trim(args[1][2])))
    [] Is(args[1], "bool")    -> IntValue(IF args[1][2] THEN 1 ELSE 0)
    [] OTHER                  -> IntValue(0)

----------------------------------------------------------------------------
(* Arrays and objects *)

AppendTo(args) == IF Len(args) = 2 /\ Is(args[1], "array") THEN ArrayValue(Append(args[1][2], args[2])) ELSE Fail

Keyed(args, n) == Len(args) = n /\ Is(args[1], "object") /\ Is(args[2], "string")

SetField(args) ==
  IF Keyed(args, 3)
  THEN ObjectValue([k \in DOMAIN args[1][2] \cup {args[2][2]} |-> IF k = args[2][2] THEN args[3] ELSE args[1][2][k]]) ELSE Fail

RemoveField(args) ==
  IF Keyed(args, 2) THEN ObjectValue(Restrict(args[1][2], DOMAIN args[1][2] \ {args[2][2]})) ELSE Fail

\* The order of the keys is not fixed.
Keys(args) ==
  IF Typed(args, <<"object">>)
  THEN LET keys == SetToSeq(DOMAIN args[1][2]) IN ArrayValue([i \in DOMAIN keys |-> StringValue(keys[i])]) ELSE Fail

Failing(vs) == \E i \in DOMAIN vs : vs[i] = Fail

True == BoolValue(TRUE)

(* The built-ins that call a function are told what it gave: vs[i] is its value for element i. *)

Decides(f, v) == IF f = <<"every">> THEN v # True ELSE v = True

\* The first element whose value decides, unless the function failed before.
FirstOf(f, vs, elements) ==
  LET at == {i \in DOMAIN vs : vs[i] = Fail \/ Decides(f, vs[i])} IN
  CASE at = {}             -> IF f = <<"find">> THEN NullValue ELSE BoolValue(f = <<"every">>)
    [] vs[Min(at)] = Fail  -> Fail
    [] f = <<"find">>      -> elements[Min(at)]
    [] OTHER               -> BoolValue(f = <<"some">>)

Filtered(vs, elements) ==
  LET kept == SelectSeq([i \in DOMAIN vs |-> i], LAMBDA i : vs[i] = True) IN ArrayValue([i \in DOMAIN kept |-> elements[kept[i]]])

Iterated(f, vs, elements) ==
  CASE f \in {<<"find">>, <<"some">>, <<"every">>} -> FirstOf(f, vs, elements)
    [] Failing(vs)                                 -> Fail
    [] f = <<"map">>                               -> ArrayValue(vs)
    [] f = <<"filter">>                            -> Filtered(vs, elements)

\* A stable sort by insertion; less orders the places of s.
Sorted(s, less) ==
  LET order == FoldLeftDomain(LAMBDA sorted, i :
                 InsertAt(sorted, Cardinality({j \in DOMAIN sorted : ~less[<<i, sorted[j]>>]}) + 1, i), << >>, s)
  IN  ArrayValue([i \in DOMAIN s |-> s[order[i]]])

Ordered(s) == \A i, j \in DOMAIN s : Both(s[i], s[j], "int") \/ Both(s[i], s[j], "string")

DefaultLess(a, b) == IF Is(a, "int") THEN a[2] < b[2] ELSE StringLess(a[2], b[2])

SortedByDefault(s) == IF Ordered(s) THEN Sorted(s, [p \in (DOMAIN s) \X (DOMAIN s) |-> DefaultLess(s[p[1]], s[p[2]])]) ELSE Fail

ReverseArray(args) == IF Typed(args, <<"array">>) THEN ArrayValue(Reverse(args[1][2])) ELSE Fail

Flat(args) ==
  IF Typed(args, <<"array">>)
  THEN ArrayValue(FlattenSeq([i \in DOMAIN args[1][2] |-> IF Is(args[1][2][i], "array") THEN args[1][2][i][2] ELSE <<args[1][2][i]>>]))
  ELSE Fail

Slice(args) ==
  IF Typed(args, <<"array", "int", "int">>)
  THEN LET start == Max({args[2][2], 0}) end == Min({args[3][2], Len(args[1][2])}) IN ArrayValue(SubSeq(args[1][2], start + 1, end))
  ELSE Fail

----------------------------------------------------------------------------
(* Types, responses and the table *)

TypeOf(args) ==
  CASE Len(args) # 1                      -> Fail
    [] args[1][1] \in DOMAIN TypeNames    -> StringValue(<<TypeNames[args[1][1]]>>)
    [] OTHER                              -> StringValue(<<"%T">>)

Telemetry(args) == IF Typed(args, <<"int", "int">>) THEN NullValue ELSE Fail

\* The status code a response is made with, 0 when the argument is no number.
StatusCode(args, n, default) ==
  CASE Len(args) < n         -> default
    [] Is(args[n], "int")    -> args[n][2]
    [] OTHER                 -> 0

TextResponse(f, args) ==
  IF Len(args) \in 1..2 /\ Is(args[1], "string") /\ StatusCode(args, 2, 200) # 0
  THEN <<"response", [type |-> f, body |-> args[1], status |-> StatusCode(args, 2, 200)]>> ELSE Fail

Blob(args) ==
  IF Len(args) \in 2..3 /\ Both(args[1], args[2], "string") /\ StatusCode(args, 3, 200) # 0
  THEN <<"response", [type |-> args[2][2], body |-> args[1], status |-> StatusCode(args, 3, 200)]>> ELSE Fail

RedirectTo(args) ==
  IF Len(args) \in 1..2 /\ Is(args[1], "string") /\ StatusCode(args, 2, 302) \in {301, 302, 307, 308}
  THEN <<"response", [type |-> <<"redirect">>, body |-> args[1], status |-> StatusCode(args, 2, 302)]>> ELSE Fail

BuiltinNames ==
  {<<"time", ".", "now">>, <<"now">>, <<"Ok">>, <<"Err">>, <<"upper">>, <<"lower">>, <<"trim">>, <<"split">>, <<"join">>, <<"contains">>,
   <<"replace">>, <<"substring">>, <<"length">>, <<"startsWith">>, <<"endsWith">>, <<"indexOf">>, <<"charAt">>, <<"charCodeAt">>,
   <<"charAtCode">>, <<"parseInt">>, <<"toString">>, <<"abs">>, <<"min">>, <<"max">>, <<"append">>, <<"set">>, <<"remove">>, <<"keys">>,
   <<"map">>, <<"filter">>, <<"reduce">>, <<"find">>, <<"some">>, <<"every">>, <<"sort">>, <<"reverse">>, <<"flat">>, <<"slice">>,
   <<"print">>, <<"typeOf">>, <<"shr">>, <<"band">>, <<"intToBytes4">>, <<"intToBytes8">>, <<"toInt">>, <<"text">>, <<"html">>,
   <<"blob">>, <<"redirect">>, <<"telemetry">>}

Builtin(f, args) ==
  CASE f \in {<<"time", ".", "now">>, <<"now">>}                             -> IntValue(Clock)
    [] f = <<"Ok">>                                                          -> IF Len(args) = 1 THEN ResultOk(args[1]) ELSE Fail
    [] f = <<"Err">>                                                         -> IF Len(args) = 1 THEN ResultErr(args[1]) ELSE Fail
    [] f \in {<<"upper">>, <<"lower">>, <<"trim">>}                          -> CaseOf(f, args)
    [] f = <<"split">>                                                       -> SplitText(args)
    [] f = <<"join">>                                                        -> JoinTexts(args)
    [] f = <<"contains">>                                                    -> ContainsText(args)
    [] f = <<"replace">>                                                     -> ReplaceText(args)
    [] f = <<"substring">>                                                   -> Substring(args)
    [] f = <<"length">>                                                      -> Length(args)
    [] f \in {<<"startsWith">>, <<"endsWith">>}                              -> StartsOrEnds(f, args)
    [] f = <<"indexOf">>                                                     -> IndexOf(args)
    [] f \in {<<"charAt">>, <<"charCodeAt">>, <<"charAtCode">>}              -> CharAt(f, args)
    [] f = <<"parseInt">>                                                    -> ParseInt(args)
    [] f = <<"toString">>                                                    -> TextOf(args)
    [] f = <<"abs">>                                                         -> AbsOf(args)
    [] f \in {<<"min">>, <<"max">>}                                          -> MinOrMax(f, args)
    [] f = <<"append">>                                                      -> AppendTo(args)
    [] f = <<"set">>                                                         -> SetField(args)
    [] f = <<"remove">>                                                      -> RemoveField(args)
    [] f = <<"keys">>                                                        -> Keys(args)
    [] f = <<"reverse">>                                                     -> ReverseArray(args)
    [] f = <<"flat">>                                                        -> Flat(args)
    [] f = <<"slice">>                                                       -> Slice(args)
    [] f = <<"print">>                                                       -> NullValue
    [] f = <<"typeOf">>                                                      -> TypeOf(args)
    [] f \in {<<"shr">>, <<"band">>}                                         -> Bits(f, args)
    [] f = <<"intToBytes4">>                                                 -> IntToBytes(4, args)
    [] f = <<"intToBytes8">>                                                 -> IntToBytes(8, args)
    [] f = <<"toInt">>                                                       -> ToInt(args)
    [] f \in {<<"text">>, <<"html">>}                                        -> TextResponse(f, args)
    [] f = <<"blob">>                                                        -> Blob(args)
    [] f = <<"redirect">>                                                    -> RedirectTo(args)
    [] f = <<"telemetry">>                                                   -> Telemetry(args)
=============================================================================
