---------------------------- MODULE TypeChecker ----------------------------
(***************************************************************************)
(* The run-time type checks of the interpreter (pkg/interpreter/           *)
(* typechecker.go).  A type is <<"int">>, <<"string">>, <<"bool">>,        *)
(* <<"float">>, <<"array", t>>, <<"optional", t>>, <<"union", ts>>,        *)
(* <<"named", n>>, <<"param", n>>, <<"generic", t, ts>>, <<"function",     *)
(* ts, t>>, or <<"none">> for an annotation that is absent.  A type        *)
(* definition is a record of its fields (name, type, required, default),   *)
(* its traits and the names of its methods.                                *)
(***************************************************************************)
EXTENDS Values, SequencesExt

CONSTANTS TypeDefs,  \* the types of the program, by name
          TraitDefs  \* its traits: the names of the methods each requires

AnyType == <<"named", <<"any">>>>

\* The element type of an array cannot be told from its value; other values than these have no type.
RuntimeType(v) ==
  CASE v[1] \in {"int", "string", "bool"} -> <<v[1]>>
    [] Is(v, "array")                     -> <<"array", <<"none">>>>
    [] Is(v, "object")                    -> <<"named", <<"object">>>>
    [] OTHER                              -> <<"none">>

RECURSIVE Compatible(_, _)
Compatible(actual, expected) ==
  CASE actual = <<"none">> \/ expected = <<"none">> \/ AnyType \in {actual, expected} -> TRUE
    [] actual[1] \in {"int", "string", "bool", "float"} /\ actual[1] = expected[1] -> TRUE
    [] actual[1] = "array" /\ expected[1] = "array"         -> Compatible(actual[2], expected[2])
    [] actual[1] = "optional" /\ expected[1] = "optional"   -> Compatible(actual[2], expected[2])
    [] actual[1] = "named" /\ expected[1] = "named"         -> actual[2] \in {<<"object">>, expected[2]}
    [] actual[1] = "int" /\ expected[1] = "float"           -> TRUE
    [] expected[1] = "optional"                             -> Compatible(actual, expected[2])
    [] expected[1] = "union"                                -> \E i \in DOMAIN expected[2] : Compatible(actual, expected[2][i])
    [] actual[1] = "union"                                  -> \A i \in DOMAIN actual[2] : Compatible(actual[2][i], expected)
    [] OTHER                                                -> FALSE

\* Types of what the program injects; their values are not looked at.
Service(t) == t[1] = "service" \/ (t[1] = "named" /\ t[2] \in {<<"Database">>, <<"Redis">>, <<"MongoDB">>, <<"LLM">>})

Defined(t) == t[1] = "named" /\ t[2] \in DOMAIN TypeDefs

RECURSIVE Checks(_, _)

FieldOf(def, name) == SelectInSeq(def.fields, LAMBDA f : f.name = name)

\* A field with a default is not required, and a field the definition does not have is let through.
ObjectChecks(o, def) ==
  /\ \A i \in DOMAIN def.fields :
        def.fields[i].required /\ def.fields[i].default = <<"none">> => def.fields[i].name \in DOMAIN o
  /\ \A k \in DOMAIN o : FieldOf(def, k) # 0 => Checks(o[k], def.fields[FieldOf(def, k)].type)

\* null has every type.
Checks(v, t) ==
  \/ t = <<"none">> \/ Is(v, "null") \/ Service(t)
  \/ /\ RuntimeType(v) # <<"none">>
     /\ Compatible(RuntimeType(v), t)
     /\ t[1] = "array" => \A i \in DOMAIN v[2] : Checks(v[2][i], t[2])
     /\ Defined(t) /\ Is(v, "object") => ObjectChecks(v[2], TypeDefs[t[2]])

----------------------------------------------------------------------------
(* Generic functions.  A binding maps the names of type parameters.        *)

RECURSIVE Substituted(_, _)
Substituted(t, binding) ==
  CASE t[1] = "param" /\ t[2] \in DOMAIN binding -> binding[t[2]]
    [] t[1] \in {"array", "optional"}            -> <<t[1], Substituted(t[2], binding)>>
    [] t[1] = "union"                            -> <<"union", [i \in DOMAIN t[2] |-> Substituted(t[2][i], binding)]>>
    [] t[1] = "generic"                          -> <<"generic", Substituted(t[2], binding), [i \in DOMAIN t[3] |-> Substituted(t[3][i], binding)]>>
    [] t[1] = "function"                         -> <<"function", [i \in DOMAIN t[2] |-> Substituted(t[2][i], binding)], Substituted(t[3], binding)>>
    [] OTHER                                     -> t

Implements(t, trait) ==
  LET name == IF t[1] = "generic" THEN t[2] ELSE t IN Defined(name) /\ Contains(TypeDefs[name[2]].traits, trait)

Built == [Comparable |-> {"int", "string", "bool", "float"}, Numeric |-> {"int", "float"}, Hashable |-> {"int", "string", "bool"}]

Satisfies(t, constraint) ==
  \/ constraint \in {<<"none">>, <<"named", <<"Any">>>>}
  \/ \E name \in DOMAIN Built : constraint = <<"named", <<name>>>> /\ t[1] \in Built[name]
  \/ IF constraint[1] = "named" /\ constraint[2] \in DOMAIN TraitDefs THEN Implements(t, constraint[2]) ELSE Compatible(t, constraint)

\* A type parameter is inferred from the first argument that mentions it, of an array from its first element.
RECURSIVE Inferred(_, _, _)
Inferred(t, v, binding) ==
  CASE t[1] = "param" /\ t[2] \notin DOMAIN binding          -> [n \in DOMAIN binding \cup {t[2]} |-> IF n = t[2] THEN RuntimeType(v) ELSE binding[n]]
    [] t[1] = "array" /\ Is(v, "array") /\ v[2] # << >>       -> Inferred(t[2], v[2][1], binding)
    [] OTHER                                                  -> binding

\* The binding of a call without type arguments; params are pairs of name and constraint.
InferredBinding(fn, args) ==
  FoldLeftDomain(LAMBDA binding, i : IF i > Len(args) THEN binding ELSE Inferred(fn.params[i].type, args[i], binding),
                 [n \in {} |-> <<"none">>], fn.params)

Names(typeParams) == {typeParams[i][1] : i \in DOMAIN typeParams}

\* The call is possible: every parameter has a type and every type satisfies its constraint.
Instantiable(fn, binding) ==
  /\ Names(fn.typeParams) \subseteq DOMAIN binding
  /\ \A i \in DOMAIN fn.typeParams : Satisfies(binding[fn.typeParams[i][1]], fn.typeParams[i][2])

Instantiated(fn, binding) ==
  [fn EXCEPT !.params = [i \in DOMAIN @ |-> [@[i] EXCEPT !.type = Substituted(@, binding)]],
             !.returns = Substituted(@, binding), !.typeParams = << >>]

\* A type has the methods of the traits it declares, and the traits exist.
TraitsHeld(def) ==
  \A i \in DOMAIN def.traits :
     def.traits[i] \in DOMAIN TraitDefs /\ \A m \in TraitDefs[def.traits[i]] : Contains(def.methods, m)
=============================================================================
