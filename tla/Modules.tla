------------------------------ MODULE Modules ------------------------------
(***************************************************************************)
(* Loading a program of several files (pkg/interpreter/interpreter.go      *)
(* LoadModuleWithPath, processImport, loadModuleInternals; modules.go).    *)
(* The main file's items are executed in order.  An import resolves the    *)
(* file, loads what it defines into the one global environment - its own   *)
(* imports first - and then binds the names the import statement asks for. *)
(*                                                                         *)
(* The Go calls nest; here they are a stack of frames, the main file's     *)
(* first.  A file is the sequence of its items: <<"import", path, names,   *)
(* alias>> (names are pairs of a name and the name it is bound to; an      *)
(* import without names binds a namespace), <<"function", n, fn>>,         *)
(* <<"const", n, e, type>>, macros and invocations of macros.  A file is   *)
(* named by its directories and its name without .glyph; the path of an    *)
(* import is <<"relative", segments>> or <<"package", segments>>.          *)
(* Left out: absolute paths, paths that end in .glyph, files that cannot   *)
(* be parsed.  Types and the other items have no effect on the names.      *)
(*                                                                         *)
(* What an expression evaluates to, which values have a type and what a    *)
(* macro expands to is the interpreter's: three constant operators, which  *)
(* module Serving defines.                                                 *)
(***************************************************************************)
EXTENDS Values, SequencesExt

CONSTANTS Programs,    \* records: files, main, handlers, requests
          SearchPaths, \* the directories packages are searched in, one after the other
          MaxNesting,  \* bound: how many imports are being processed at once
          Evaluated(_, _),  \* the value of an expression in a global environment, or Fail
          Fits(_, _),       \* a value has a type, while the program is loaded
          Invoked(_, _, _)  \* what the statements that an invocation expands to leave behind, or Fail, for
                            \* the items above it, the invocation and a global environment

ASSUME NestingAssumption == MaxNesting \in Nat \ {0}

IsImport(item) == item[1] = "import"

IsFunction(item) == item[1] = "function"

Declares(item) == item[1] \in {"function", "const"}

IsSequence(s) == Len(s) \in Nat /\ DOMAIN s = 1..Len(s)

ASSUME ProgramsAssumption ==
  \A p \in Programs :
     /\ p.main \in DOMAIN p.files
     /\ \A f \in DOMAIN p.files :
          /\ IsSequence(p.files[f])
          /\ \A i \in DOMAIN p.files[f] : IsImport(p.files[f][i]) => IsSequence(p.files[f][i][3])

VARIABLES program,
          stack,      \* frames [file, at, left, named]: the item it is at, the exports that are not registered
                      \* yet, and how many names the import statement has bound
          cache,      \* moduleResolver.ModuleCache
          functions,  \* the interpreter's function table
          globals,    \* globalEnv
          status,     \* "loading", "loaded", "failed"
          atLoad,     \* the global environment when loading ended
          computed    \* history: the constants' values when the main file's items bound their names

loadVars == <<program, stack, cache, functions, globals, status, atLoad, computed>>

Exporting(f) == {i \in DOMAIN program.files[f] : Declares(program.files[f][i])}

Exports(f) == {program.files[f][i][2] : i \in Exporting(f)}

\* The last definition of a name is the one that is exported.
Exported(f, n) == program.files[f][Max({i \in Exporting(f) : program.files[f][i][2] = n})]

----------------------------------------------------------------------------
(* resolvePath *)

NotFound == << >>

PathJoin(directory, segments) ==
  FoldLeft(LAMBDA d, segment : CASE segment = <<".">> -> d [] segment = <<".", ".">> -> Front(d) [] OTHER -> Append(d, segment),
           directory, segments)

\* A file of that name, or the main or else the index file of a directory of that name.
FindGlyphFile(path) ==
  LET tried == <<path, Append(path, <<"m", "a", "i", "n">>), Append(path, <<"i", "n", "d", "e", "x">>)>>
      found == {i \in DOMAIN tried : tried[i] \in DOMAIN program.files}
  IN  IF found = {} THEN NotFound ELSE tried[Min(found)]

Searched(segments) ==
  LET in(i) == FindGlyphFile(PathJoin(SearchPaths[i], segments))
      found == {i \in DOMAIN SearchPaths : in(i) # NotFound}
  IN  IF found = {} THEN NotFound ELSE in(Min(found))

ResolvePath(path, base) ==
  IF path[1] = "relative" THEN FindGlyphFile(PathJoin(base, path[2])) ELSE Searched(path[2])

\* The file an import statement of another file names.
Resolved(item, importer) == ResolvePath(item[2], Front(importer))

\* extractModuleName
Namespace(item) == IF item[4] = << >> THEN Last(item[2][2]) ELSE item[4]

----------------------------------------------------------------------------
(* The items of a file *)

LoadInit ==
  /\ program \in Programs
  /\ stack = <<[file |-> program.main, at |-> 1, left |-> {}, named |-> 0]>>
  /\ cache = {} /\ functions = NoFields /\ globals = NoFields
  /\ status = "loading"
  /\ atLoad = NoFields /\ computed = NoFields

Frame == Last(stack)

ItemsOf(i) == program.files[stack[i].file]

AtItem == Frame.at \in DOMAIN ItemsOf(Len(stack))

Item == ItemsOf(Len(stack))[Frame.at]

Loading == status = "loading" /\ UNCHANGED <<program, atLoad>>

Proceeds == UNCHANGED <<cache, status>>

LoadFails == status' = "failed" /\ UNCHANGED <<stack, cache, functions, globals, computed>>

NextItem == stack' = [stack EXCEPT ![Len(stack)].at = @ + 1]

\* Mutant: only what the import asks for is registered.
ProcessImportAsked ==
  /\ Loading /\ AtItem /\ IsImport(Item) /\ Len(stack) < MaxNesting
  /\ LET file == Resolved(Item, Frame.file) IN
     IF file \in DOMAIN program.files
     THEN /\ cache' = cache \cup {file}
          /\ stack' = Append(stack, [file |-> file, at |-> 1, left |-> Exports(file) \cap {Item[3][i][1] : i \in DOMAIN Item[3]}, named |-> 0])
          /\ UNCHANGED <<functions, globals, status, computed>>
     ELSE LoadFails

(***************************************************************************)
(* processImport: ResolveModule parses a file that is not in the cache.    *)
(* Its loading stack never holds more than the file it is reading, since   *)
(* the imports of that file are processed later.                           *)
(***************************************************************************)
ProcessImport ==
  /\ Loading /\ AtItem /\ IsImport(Item) /\ Len(stack) < MaxNesting
  /\ LET file == Resolved(Item, Frame.file) IN
     IF file \in DOMAIN program.files
     THEN /\ cache' = cache \cup {file}
          /\ stack' = Append(stack, [file |-> file, at |-> 1, left |-> Exports(file), named |-> 0])
          /\ UNCHANGED <<functions, globals, status, computed>>
     ELSE LoadFails

\* Of an imported file's items the imports come first; what it defines is in its exports.
SkipItem ==
  /\ Loading /\ AtItem /\ Len(stack) > 1 /\ ~IsImport(Item)
  /\ NextItem /\ Proceeds /\ UNCHANGED <<functions, globals, computed>>

Value(item) == IF IsFunction(item) THEN <<"function", item[3]>> ELSE Evaluated(item[3], globals)

DefineAs(n, item) ==
  /\ globals' = Bind(globals, n, Value(item))
  /\ functions' = IF IsFunction(item) THEN Bind(functions, n, item[3]) ELSE functions

\* loadModuleInternals registers the exports in the order of a Go map, unless the name is taken; a
\* constant whose value cannot be computed yet is passed over.
KeptConst(n, item) == ~IsFunction(item) /\ (n \in DOMAIN globals \/ Value(item) = Fail)  \* Mutant: functions are replaced.

Kept(n, item) == IF IsFunction(item) THEN n \in DOMAIN functions ELSE n \in DOMAIN globals \/ Value(item) = Fail

Register(n, item) == IF Kept(n, item) THEN UNCHANGED <<globals, functions>> ELSE DefineAs(n, item)

LoadModuleInternals ==
  /\ Loading /\ ~AtItem /\ Len(stack) > 1
  /\ \E n \in Frame.left :
       /\ Register(n, Exported(Frame.file, n))
       /\ stack' = [stack EXCEPT ![Len(stack)].left = @ \ {n}]
  /\ Proceeds /\ UNCHANGED computed

----------------------------------------------------------------------------
(* The import statement that the innermost frame was loaded for            *)

Importing == ItemsOf(Len(stack) - 1)[stack[Len(stack) - 1].at]

\* The value of a constant that an item of the main file gives a name to.
Compute(n, item) == computed' = IF IsFunction(item) THEN computed ELSE Bind(computed, n, Value(item))

Registered == ~AtItem /\ Len(stack) > 1 /\ Frame.left = {}

\* The names are bound one after the other, whatever was bound to them before.
BindName ==
  /\ Loading /\ Registered /\ Frame.named < Len(Importing[3])
  /\ LET name == Importing[3][Frame.named + 1]
         item == Exported(Frame.file, name[1])
     IN  IF name[1] \in Exports(Frame.file) /\ Value(item) # Fail
         THEN /\ DefineAs(name[2], item)
              /\ IF Len(stack) = 2 THEN Compute(name[2], item) ELSE UNCHANGED computed
              /\ stack' = [stack EXCEPT ![Len(stack)].named = @ + 1]
              /\ Proceeds
         ELSE LoadFails

ReturnHere == stack' = Front(stack)  \* Mutant: the import is processed again.

Return == stack' = [Front(stack) EXCEPT ![Len(stack) - 1].at = @ + 1]

\* A namespace holds the declarations of its constants, not their values.
Member(item) == IF IsFunction(item) THEN <<"function", item[3]>> ELSE <<"declaration", item[3]>>

NamespaceOf(f) == ObjectValue([n \in Exports(f) |-> Member(Exported(f, n))])

FinishImport ==
  /\ Loading /\ Registered /\ Frame.named >= Len(Importing[3])
  /\ Return
  /\ globals' = IF Importing[3] = << >> THEN Bind(globals, Namespace(Importing), NamespaceOf(Frame.file)) ELSE globals
  /\ Proceeds /\ UNCHANGED <<functions, computed>>

----------------------------------------------------------------------------
(* The other items of the main file *)

InMain == AtItem /\ Len(stack) = 1

\* Only here is the type of a constant looked at: not where a file that is imported declares one.
Mistyped(item) == ~IsFunction(item) /\ ~Fits(Value(item), item[4])

Declare ==
  /\ Loading /\ InMain /\ Declares(Item)
  /\ IF Value(Item) = Fail \/ Mistyped(Item) THEN LoadFails
     ELSE DefineAs(Item[2], Item) /\ Compute(Item[2], Item) /\ NextItem /\ Proceeds

\* A macro is known to the items below it; an import brings none.
DefineMacro ==
  /\ Loading /\ InMain /\ Item[1] = "macro"
  /\ NextItem /\ Proceeds /\ UNCHANGED <<functions, globals, computed>>

Overlaid(scope, left) == [k \in DOMAIN scope \cup DOMAIN left |-> IF k \in DOMAIN left THEN left[k] ELSE scope[k]]

\* The statements an invocation expands to are executed on the globals.
InvokeMacro ==
  /\ Loading /\ InMain /\ Item[1] = "invoke"
  /\ \E left \in {Invoked(SubSeq(ItemsOf(1), 1, Frame.at), Item, globals)} :
        IF left = Fail THEN LoadFails
        ELSE globals' = Overlaid(globals, left) /\ NextItem /\ Proceeds /\ UNCHANGED <<functions, computed>>

Loaded ==
  /\ status = "loading" /\ ~AtItem /\ Len(stack) = 1
  /\ status' = "loaded" /\ atLoad' = globals
  /\ UNCHANGED <<program, stack, cache, functions, globals, computed>>

LoadNext ==
  \/ ProcessImport \/ SkipItem \/ LoadModuleInternals \/ BindName \/ FinishImport
  \/ Declare \/ DefineMacro \/ InvokeMacro \/ Loaded

\* The handlers of a loaded program change the globals only.
ServesOnly == status = "loaded" /\ UNCHANGED <<program, stack, cache, functions, status, atLoad, computed>>

LoadSpec == LoadInit /\ [][LoadNext \/ ServesOnly]_loadVars

----------------------------------------------------------------------------
(* Properties *)

\* The functions of the files that were loaded, directly or not.
FunctionNames == UNION {{n \in Exports(f) : IsFunction(Exported(f, n))} : f \in cache}

\* Every function of every file that was loaded can be called by its name, so an imported function
\* finds those it was written beside.
SiblingsBound == status = "loaded" => FunctionNames \subseteq DOMAIN functions \cap DOMAIN atLoad

Main == program.files[program.main]

\* The names an item binds, one after the other.
BoundBy(item) ==
  CASE IsImport(item) /\ item[3] # << >> -> [i \in DOMAIN item[3] |-> item[3][i][2]]
    [] IsImport(item) /\ item[3] = << >> -> <<Namespace(item)>>
    [] Declares(item)                    -> <<item[2]>>
    [] OTHER                             -> << >>

NamesOf(item) == {BoundBy(item)[i] : i \in DOMAIN BoundBy(item)}

ImportsOf(f) == {program.files[f][j] : j \in {i \in DOMAIN program.files[f] : IsImport(program.files[f][i])}}

\* The names that the import statements of the imported files bind.
Rebound == UNION {UNION {NamesOf(item) : item \in ImportsOf(f)} : f \in cache}

Behind(j, h, k, i) == j > k \/ (j = k /\ h > i)

\* Nothing in the main file behind the i-th name of its k-th item binds that name again; a macro may.
BoundLast(k, i) ==
  \A j \in DOMAIN Main :
     /\ j > k => Main[j][1] # "invoke"
     /\ \A h \in DOMAIN BoundBy(Main[j]) : Behind(j, h, k, i) => BoundBy(Main[j])[h] # BoundBy(Main[k])[i]

\* The definition behind the i-th name of the k-th item, if it is not a namespace.
Definition(k, i) == IF IsImport(Main[k]) THEN Exported(Resolved(Main[k], program.main), Main[k][3][i][1]) ELSE Main[k]

IsNamespace(item) == IsImport(item) /\ item[3] = << >>

NamesFunction(k, i) == ~IsNamespace(Main[k]) /\ IsFunction(Definition(k, i))

Meaning(k, i) ==
  CASE IsNamespace(Main[k]) -> NamespaceOf(Resolved(Main[k], program.main))
    [] NamesFunction(k, i)  -> <<"function", Definition(k, i)[3]>>
    [] OTHER                -> computed[BoundBy(Main[k])[i]]

\* What the main file imports or defines is what the name means when the program is loaded, whatever
\* the imported files define under the same name: loadModuleInternals registers only what does not
\* exist yet.  Not so for a name that an imported file imports something under, nor for a constant or
\* a namespace with the name of an imported file's function, which replaces it.
ExplicitKept ==
  status = "loaded" =>
     \A k \in DOMAIN Main : \A i \in DOMAIN BoundBy(Main[k]) :
        LET n == BoundBy(Main[k])[i] IN
        BoundLast(k, i) /\ n \notin Rebound =>
           /\ NamesFunction(k, i) => n \in DOMAIN functions /\ functions[n] = Definition(k, i)[3]
           /\ NamesFunction(k, i) \/ n \notin FunctionNames => n \in DOMAIN atLoad /\ atLoad[n] = Meaning(k, i)

----------------------------------------------------------------------------
(* What a comment says and the code does not do *)

\* Only what does not exist yet is registered "to avoid overwriting explicit imports or previously
\* loaded definitions" (interpreter.go:305): also a constant or a namespace keeps its name, but the
\* function table knows of neither.
NothingOverwritten ==
  status = "loaded" =>
     \A k \in DOMAIN Main : \A i \in DOMAIN BoundBy(Main[k]) :
        LET n == BoundBy(Main[k])[i] IN
        BoundLast(k, i) /\ n \notin Rebound => n \in DOMAIN atLoad /\ atLoad[n] = Meaning(k, i)
=============================================================================
