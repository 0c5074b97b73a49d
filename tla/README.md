# TLA+ models of glyphlang

Glyph programs declare HTTP routes, WebSocket routes, commands, tasks and functions. The
repository reads them in two source forms, interprets them or compiles them to bytecode,
optimizes what is executed often, and serves them. This directory models the path of a program
from its text to its answers, and the parts in which goroutines, failures or long sequences of
legal steps make the code hard to test: futures, the WebSocket server, the logger and its files,
the caches, the development server, the JIT tiers.

Paths are relative to the repository. The lines each definition models are in `PROJECT.json`
under `map`.

## 1. The system

```
.glyph  -> lexer --+                        +-> interpreter (pkg/interpreter) ----------------------+
  ^  expand/compact+-> parser -> modules -> |                                                       +-> HTTP server of cmd/glyph
  v  formatter     |             macros     +-> optimizer -> compiler -> bytecode -> VM (pkg/vm) ---+-> WebSocket server
.glyphx -> lexer --+                                 SSA tier <- JIT profile <- requests                 logger, cache, metrics
                                   glyph dev: watch, restart, tell the browsers
```

| Part | State | Operations | Talks to | What is hard | What makes it correct |
|---|---|---|---|---|---|
| Futures, `interpreter/future.go` | state, value, `done` and `cancel` channels under a mutex | Resolve, Reject, Cancel, Await (timeout, context), RunAsync, All, Race, Any | goroutines of async blocks | everyone may settle or cancel at once; combinators await in one order, inputs settle in another | settled once; combinators give the outcome of their inputs and always settle |
| WebSocket server, `websocket/` | hub tables, rooms, per-connection channels, saved states | accept, register, pumps, handle, broadcast, join, leave, shutdown | hub goroutine, two pumps per connection, handlers run by the hub | select picks any case; channels close under a sender; the hub can wait for itself | tables agree, limits hold, no closed channel is used, pumps end |
| Logger, `logging/logger.go` | buffer and sync channels, `stopped`, file | log, Sync, Close, processLogs, rotate | every goroutine | the flag is tested before the channels are used; crash during rotation | nothing lost or doubled; Sync and Close mean what they say; files without gaps |
| Caches, `cache/cache.go` | map, LRU list, sizes, tags | Get, Set, Delete, tags, cleanup, HTTP middleware | handlers | eviction loop; a response stored after its key was invalidated | size accounting, LRU order, one callback per value, a lookup returns the last store or nothing |
| Dev server, `cmd/glyph/server.go` | `m.server`, debounce timer, live reload connections | save, event, timer, restart, notify, Ctrl+C | file watcher, browsers | timers fire while a restart runs; the file changes under the reader | never back to an older version; the last version is served in the end |
| JIT tiers, `jit/`, `cmd/glyph/jit_routes.go`, `handlers.go` | unit and profile per route, `currentBytecode` | record, check, recompile, store, install | requests, SSA compiler, GPU | every step under another lock, or none | the optimized code stays once it is served; a recompiled unit is installed |
| Lexers, parser, `parser/` | position in the tokens | one function per construct | | precedences, two lexers, ambiguous beginnings | a file means the tree its author meant |
| Transformer, formatter, `formatter/` | none | `glyph expand`, `glyph compact`, Format | lexers, parser | it never parses, or it never sees the text | both files of a program mean the same |
| Modules, `interpreter/interpreter.go`, `modules.go` | module cache, function table, the one global environment | resolve, load, import, register exports | interpreter | a map iterated while definitions are skipped if the name exists; nested imports | explicit names are kept; a function finds those it was written beside |
| Macros, `compiler/macros.go`, `interpreter/macros.go` | macro tables | register, expand, substitute | both | two expanders of one language | they expand alike |
| Interpreter, `interpreter/` | environments | one function per syntax node, built-ins, types | providers, futures | agreement with the compiled form; requests share the globals | the reference for the VM |
| Router and handlers, `server/router.go`, `cmd/glyph/handlers.go` | routes in order | match, bind, answer | interpreter or VM | what is bound, defaulted, refused or wrapped differs per kind of handler | requests do not see each other |
| Compiler and optimizer, `compiler/` | code, constants, scopes, loops; tables of constants, copies, expressions | one function per syntax node; passes | VM format | jump patching, scopes, nested exits; facts that end at joins and loops | bytecode means what the tree means, optimized or not |
| SSA tier, `ssa/`, `compiler/ssa_compiler.go` | values in blocks | build, passes, lower | VM format | where a value is on the stack, and when | the hot code answers as the cold one |
| VM, `vm/` | stack, locals, iterators, one VM per async block | one function per opcode | futures of async blocks | schedules, timeouts, stack limit | agrees, balanced stack, ends |
| Pools, hot reload library, GPU mitosis, rate limiter, `pkg/server` | small tables | see source | | no command reaches most of them | |
| LSP, code generators, docs, CLI, connectors | none that is shared, or connections of drivers | text to text, I/O | | | outside the model |

Every part, modelled or not, is listed under `components` in `PROJECT.json` with what is left out
and why. Everything that is hard to test is listed under `hazards`, with the property that watches
it.

## 2. Modules

| Module | Models | Notes |
|---|---|---|
| `OneShot` | what a future promises | abstract specification: cells written at most once |
| `Future` | `interpreter/future.go` | implements `OneShot`; checked with `Future.cfg`, proved in `FutureProofs` |
| `WebSocketHub` | `websocket/{server,connection,room,handler,message,vm_handler}.go` | checked by `MCWebSocketHub`, proved in `WebSocketHubProofs` |
| `Logger` | `log`, `Sync`, `Close`, `processLogs` | checked with `Logger.cfg`, proved in `LoggerProofs` |
| `LogRotation` | `rotatingFileWriter` | checked with `LogRotation.cfg`, proved in `LogRotationProofs` |
| `BoundedMap` | what a cache promises | abstract specification: a map that may forget |
| `LRUCache` | `LRUCache` of `cache/cache.go` | implements `BoundedMap`; proved in `LRUCacheProofs` |
| `HTTPCache` | the HTTP middleware over an `LRUCache` | composition, checked by `MCHTTPCache`, proved about in `LRUCacheProofs` |
| `DevServer` | `glyph dev` | checked by `MCDevServer`, proved in `DevServerProofs` |
| `JIT` | one route's way to the SSA tier | checked by `MCJIT`, proved in `ProgramProofs` |
| `SourceText` | the two lexers from words and symbols on | |
| `Parser` | `parser/parser.go` | recursive functions from tokens to trees |
| `Formatter` | `formatter/formatter.go` | trees to text |
| `SourceForms` | `formatter/transformer.go`, `glyph expand` and `compact` | two files and the edits of an author; checked by `MCSourceForms` |
| `GoLibrary` | strings and strconv as the code uses them | external |
| `Values`, `Builtins`, `TypeChecker` | values, built-in functions, run-time types | |
| `Interpreter` | `executor.go`, `evaluator.go`, `environment.go` | recursive functions, the reference |
| `Macros`, `MacroExpander` | the expansion of one invocation; of a module | |
| `Modules` | a program of several files is loaded | state machine; what an expression evaluates to and an invocation leaves behind are constants; proved in `ProgramProofs` |
| `Handlers` | router, query parameters, what surrounds a body | |
| `Serving` | `Modules` and `Handlers` composed: load, then serve | checked by `MCServing` |
| `Compiler` | `compiler.go`, `symbols.go`, `websocket.go` | recursive functions from trees to instructions |
| `Optimizer` | `optimizer.go` | passes over trees |
| `SSA` | `ssa/`, `ssa_compiler.go` | build, passes, lowering |
| `VM` | `vm.go`, `value.go`, what `vm_handler.go` refuses | the state machine; one action per group of opcodes |
| `CompiledRoutes` | `cmd/glyph/routes.go` | composes `Compiler`, `Optimizer` and instances of `SSA`, `MacroExpander` and `Interpreter`: the bytecode and the reference answer of each request |
| `RouteExecution` | `cmd/glyph/handlers.go`, `server.go` | one request, or one event of a WebSocket route, served by `VM`, over a constant set of programs; `MCRouteExecution` takes them from `CompiledRoutes` and checks it |
| `VerifiedCode` | what the compiler promises the VM about its code: a bytecode verifier (heights and floors of the stack, bound variables), which the program does not have | extends `RouteExecution` with `CodeAssumption`; proved about in `RouteExecutionProofs` |

The recursive functions follow the Go methods. Statements and expressions contain each other; to
keep few RECURSIVE operators, which TLC evaluates slowly when they are many, such a recursion goes
through one operator that dispatches on what it is given: `Walk` in `Interpreter`, `CompileNode` in
`Compiler`, `Parse` in `Parser`, `Build` in `SSA`, `formatNode` in `Formatter`.

### Futures

Future 0 is the result of one call of All, Race or Any; futures 1..N are its possible inputs,
each computed by a goroutine of `RunAsync`. What is done under `Future.mu` is one action. The
check for cancellation, the computation and the settlement of a worker are three, since nothing
protects the sequence. All is one goroutine that walks over its arguments (`AllAwait`,
`AllCancel`, `AllReject`, `AllResolve`); Race and Any have one goroutine per argument, Race one
more that scans and cancels losers in separate steps. A payload is the set of inputs whose value
or error it carries, which is all that the contracts tell apart. A computation may never return.

### WebSocket server

One process per goroutine: accept path, read pump, write pump per connection, hub, shutdown.
`register` and `unregister` are rendezvous with the hub; the buffered channels have capacities
`HubCap` and `SendCap`. The hub runs handlers itself, one operation per step (`reply`, `join`,
`leave`, `bcast`, ...): `OnConnect`, `OnMessage`, `OnDisconnect` are the compiled handlers, the
default handlers are `Handlers`. A send on a closed channel ends the process (`hpc = "panicked"`).
Message contents do not matter, so channels without a sender to remember are lengths.

### Logger and rotation

`Logger` has clients that log, sync and close in any order, and the processor. The test of
`stopped` and the use of a channel are separate steps, as in the code. `before` remembers what a
Sync or Close has to flush. `LogRotation` is the writer under its lock: only a crash can come
between its steps, a close, rename or create may fail, and a restart begins with the files on disk. `from`, the
number of entries that had been written when a file was created, says where the file belongs in the history,
so `NoGap` needs no sum over files.

### Caches

Every operation of `LRUCache` holds the mutex and is one action, but for a Set of a new key: its
loop evicts one entry per step (`EvictOldest`) before `Insert`, and keeps the mutex all the while
(`pending`). An entry passes from `later` to `past` when its time is over. `items` is the set of
keys of the map; an element of the list is found by its key, since Set replaces the entry of an
element but never its key. Whatever is removed leaves the list by `Without`; `SumOfSizes` counts the
bytes of the entries it is given, which is their sum without an order to add them in. `notified`, `overwritten` and `recent` are history: calls of the
callback per value, values replaced, keys in the order of their use. A Get of a missing key and
the statistics are left out, and the callback must not call the cache again. `ImplementsMap` maps
the list to the `store` of `BoundedMap`: an entry that expired stays in the store until a Get or the
cleanup finds it or an eviction takes it, and these are steps in which a key is forgotten.

`HTTPCache` adds the middleware: a miss (`fill`) whose handler runs without a lock, and the store
of its answer as a step of its own. In between anything may happen to the cache, by the
middleware's invalidations or by the application.

### Development server

A version of the file is the number of the save that wrote it. `watch` is the watch loop with its
one debounce timer; `blocked` counts the timers' goroutines that wait for `m.mu`, `holder` is the
one that has it: it shuts the old server down, reads the file (`ReadFile`), and starts a server or
fails. A reload that succeeded then notifies the live reload connections that are registered at
that moment. A browser shows a version, connects, is cut off by the write timeout (`mute`: still
registered, but gets nothing), loads again or is closed. Ctrl+C is the main goroutine. The 100 ms
that the code sleeps after starting a server are taken to be enough for it to listen.

### JIT tiers

A request goes through the steps of the handler and of `RecordExecution`: run what is installed,
count, ask the GPU, compare with the thresholds, compile, store in the unit, fetch, install. Each
takes another lock or none, and any number of requests are between any two steps. Tiers two and
three use the same SSA compiler, so bytecode is "base" or "ssa". With `ForceGPU` every request tries the
GPU; since a try may fail, this includes the runs of a server that asks it for ready routes only.

### Source forms

A text is a sequence of lexemes: symbols, words, literals, ends of lines, comments. The two lexers
give tokens (`SourceText`); `Parser` follows the methods of the parser, one operator each, on a
state of tokens and position that carries the error. A tree is a tuple as in `Interpreter`.

`SourceForms` has the two files of a program and what its author means. `glyph expand` and
`glyph compact` write the one file from the other, the author edits either, and the formatter
writes either from the tree of the other. The texts come from a printer of the model that knows
only precedences, and from hand-written texts for each kind of item, so the parser is compared with
an independent definition of what a text means. The formatter loses parts of a tree (section 5), so
`FormatExpanded` and `FormatCompact` require a tree it can write (`ReadableTree`).

### Programs, modules and handlers

`Modules` loads the main file item by item. The Go calls nest; here they are a stack of frames.
When an import has been executed its file's exports are registered in any order, because Go
iterates over a map, and each only if no such name exists; then the names the statement asks for are
bound one by one. Evaluation, type checks and macros come in as three constant operators, for which
`Serving` puts the interpreter's; types by name are not checked while a program is loaded, since the
checker is told them afterwards. `Handlers` says which handler a request
gets and what is bound before its body runs: path, query and body of a route, arguments with
defaults of a command, resolver or gRPC method, the message of a worker, the event of a handler.
`Serving` composes them: requests that run side by side execute one statement per step on the
globals, which they share without a lock.

### Routes, compiled and hot

A route body is a syntax tree. `CompileRoute` gives a sequence of instructions; an address is the
index of an instruction, and `HeaderSize` stands for the bytes of the header, which the compiler
adds to jump targets. The constant pool is left out: an operand carries its constant. `VM` executes
instructions one at a time, with a thread per async block and a frame per call of a function.
`CompiledRoutes` pairs the bytecode of a route with what `Interpreter` answers to the same request;
`RouteExecution` picks one such program and runs it. Errors are one value, `Fail`. The same bodies
are also compiled as functions, commands, cron tasks, event handlers and queue workers, out of
modules whose macros are expanded first, after each level of the optimizer, the peephole pass or
the inliner, and by the SSA compiler.

Events of WebSocket routes (`Event`) run in the same machine. What counts in an event is not its value but
the calls it makes on its connection, which the machine collects in `calls`. The interpreter knows
no `ws.*`, so the reference for an event is a second body that writes each call down in a list and returns
the list; in the same way a route that asks the hub for statistics (`Asking`) is paired with one that has
the answers as literals. `HubRooms` and `HubClients` are a hub with two rooms and two connections that
does not change meanwhile, and no room is full; what the hub does with a call is module
`WebSocketHub`. A connection may refuse a send or a close (`WsRefused`), after which nothing more is called.
An async block has a machine without a handler, so its calls fail.

The optimizer is written for trees whose nodes are pointers. The parser makes values, for which it
leaves every statement as it is; so `Parsed` routes skip it, and `OptimizedRoute` covers programs
built by hand, as the tests of the optimizer do. Its tables hold what the text said last: what is noted
in one branch counts in the other one and behind the join, what is noted in a loop counts behind it, and a
copy of `x` still counts when `x` has changed. So an optimized route need not answer as the written one.
`OptimizedKeepsValue` is about the texts for which the passes are right all the same, and
`OptimizerJustified` (with `PeepholeJustified` and `InlinerJustified`) says of a text, without looking at the
tables, whether it is one: nothing is noted of a variable that is assigned again in a branch or a loop,
nothing becomes a copy of a variable that is assigned twice, what moves out of a loop cannot fail, and an
expression that is shared stays what it was. The routes of the run are of both kinds: joins of a variable
that one branch or both assign, loops that change it, copies of what changes. `OptimizedKeepsAll`, which
asks the same of every text, is false (section 5).

The routes of the run stay inside the fragment on which the ways to serve a route are meant to
agree. Outside it they differ today, and the models show why:

- a missing field in an object pattern is an error in the VM, a non-match in the interpreter;
  an array pattern does not check the length in the VM;
- loop variables and pattern names overwrite outer variables of the same name in the VM, which
  has one flat map of locals;
- `&&` and `||` evaluate both sides in compiled code;
- `$ obj.f = v` stores a local called `obj.f` in compiled code, but changes the object in the interpreter;
- a body that ends without return is null when compiled, its last value when interpreted;
- duplicate keys of an object literal: the first wins in the VM, the last in the interpreter;
- comparing two arrays with `==` is false in the VM and panics in the interpreter;
- `length` of an object, `await` of what is no future, redeclaration, integer against float;
- validation statements of a route are skipped by the compiler (`compiler.go:563`).

## 3. Runs

| Run | Instance | Shows |
|---|---|---|
| `futures` | 2 inputs, all combinators, cancellation by anyone; 210,867 states | contracts of All, Race, Any; an awaited outcome is final; futures implement `OneShot`; losers of Race are cancelled; a combinator whose inputs suffice settles |
| `hub` | 2 connections, limit 1 per hub and room, send channel 1, hub channels 2, 2 messages each, a handler that broadcasts, saved states, heartbeat; 473,850 states | registered connections are open, limits hold, the gauge counts what it counts, rooms hold no dropped connection, pumps end |
| `hub_panic` (violation) | one connection, ping | a reply after unregister sends on a closed channel |
| `logger` | 2 clients, buffer 1, 3 entries; 22,536 states | Sync and Close flush, nothing is lost or doubled, buffered entries are written |
| `rotation` | 6 entries of sizes 1, 2 and 4 with maximum 3, 3 backups, faults, 2 crashes; 874,912 states | no gap, correct size, only the oldest file is given up |
| `cache` | 3 keys, capacity 2, 3 bytes, 3 Sets, tags, any expiry, misses in flight, invalidation by key and prefix; 158,636 states | map, list and counters agree; eviction in order of use; each value reported once; the cache implements `BoundedMap`; Set of a value that fits ends; the cleanup removes what expired; a response overtaken by an invalidation does not stay |
| `routes` | 5,892 programs, up to 3 requests each, stack 4, 2 async blocks, while limit 6, macro depth 3; 139,705 states | the bytecode agrees with the interpreter under every schedule, a hot route with the written one, and an optimized one unless the optimizer takes an outdated fact for granted, the stack is balanced, resolved names are bound, every request is answered, an event makes its calls in order; the code of every program that is not hot is verified (`CodeAssumption`) |
| `routes_hot` (violation) | routes of every statement and expression, hot | some answer differently once they are hot |
| `serving` | 2,357 programs of up to four files, two requests at once, imports nested up to 4; 44,167 states | explicit names are kept, functions find their siblings, requests do not see each other, two forms of one handler agree, loading and every request end |
| `forms` | 913 programs; 7,486 states | whatever is expanded, compacted, edited and formatted, the parser reads the tree the author meant |
| `dev` | 3 saves, 1 browser; 18,862 states | the server never goes back, no browser is sent to an older version, the last good version the watcher saw is served |
| `jit` | 3 goroutines, 4 requests, thresholds 1 and 3, a GPU that is forced and may answer; 256,928 states | late requests never bring the baseline back, an upgrade is installed |

The bounds. Two connections are one that acts and one it acts on; a channel of capacity 1 is
empty, full and overflowing within three messages, and a limit of 1 is reached by the second
connection. Two futures let one settle first and the other lose, reject late or stay open. Three
log entries fill a buffer of 1, the processor's hand and the direct path at once. Six entries go
through the three backups and drop the oldest. Two places and three bytes for three keys make a Set
evict one entry, two or none, for its count or for its size, and a value of size 4 never fits. Three
saves are one that is being served, one that waits for the lock and one that comes while it waits.
Three goroutines are one with the upgrade in its hands while another stores a newer one and a third
still runs the baseline. A stack of 4 is overrun by the deeper expressions and by no other route;
six iterations end every loop of the routes but those that are to hit the limit. Macro depth 3 is
reached by one macro that invokes itself and by none of the others. Programs of the parser and the
formatter combine any two operators and any two nested statements, the smallest size at which
precedence and nesting can go wrong. `MaxReads`, `MaxSets`, `MaxEntries`, `MaxCrashes`, `MaxThreads`,
`MaxSaves`, `MaxServed` and `MaxNesting` are bounds of the models, not of the code; the thresholds,
the while limit (1,000,000) and the macro depth (100) are constants of the code made small.

Deadlock is checked in `routes`, `serving`, `cache`, `forms` and `dev`: in the other models a system
at rest (all closed, all settled, all served) is a legal end, and that the right things happen before
is stated by the liveness properties.

Fairness. Go runs every goroutine that is not blocked, so each goroutine's steps are weakly fair
(for a select: some ready case is taken). In `dev`, besides, a timer that was armed fires and a page
that was told to load again does; in `cache` time goes on. Nothing else is assumed of the
environment: a computation of a future may never return, a client need not call anything, a peer
need not read, nobody has to save a file, open a page, interrupt or send a request. The one strong
fairness is that of the cleanup of the cache: its ticker fires again and again, and a Go mutex goes
to who has waited long enough. In `Serving` weak fairness is written out (`CanLoad`, `CanGoOn`),
because TLC would evaluate ENABLED of a step by evaluating the statement's syntax tree.

Each property has a mutant in `PROJECT.json`: a definition changed as a plausible mistake in the
code would change it, under which TLC finds the property violated. The mutated forms are in the
modules, right before the definitions they replace. In its map a helper of the language modules whose lines
lie within those of the definition that uses it has no entry of its own.

## 4. What is proved

TLAPS checks the proofs for every value of the constants, under the assumptions named in the
modules (capacities are positive, limits are naturals, handlers are sequences of operations,
the set of connections is finite, N and the bounds are natural numbers, the thresholds are ordered,
a program's files are sequences of items and its main file is one of them).

`FutureProofs` (any number of futures):

- `TypeCorrect`, `CombinatorsCorrect`, `AwaitCorrect`, from `Inductive`: the invariant is `TypeOK`
  with `CellInv` (done exactly when not pending), `CallInv` (what is known before a combinator is
  called), `AllInv` (the arguments All has passed are resolved; the one it stopped at has the
  error it will report; those it cancelled are done), `AnyInv` (every recorded error belongs to a
  rejected argument), `CallerInv` and the contracts. `AllInv` and `AnyInv` are needed because the
  contracts alone say nothing about a combinator that is still on its way. The key lemma is
  `StepWritesOnce`: a step leaves a settled cell alone, so what a goroutine saw stays true.
- `FuturesAreOneShot`: `Spec` implements `OneShot`, with the mapping from `state` and `payload`
  to written cells; by `StepWritesOnce` every step is a write of empty cells or a stutter.

`WebSocketHubProofs` (any connections, rooms, capacities, limits, handlers):

- `HubTypeCorrect`, including that no channel exceeds its capacity;
- `HubOpen`, `HubLimits`, `HubActive`, from `HubInductive`: `RegInv` (registered connections are
  accepted, open and not yet reported gone) makes them inductive, because unregister, eviction
  and rejection may come in any order for the same connection;
- `RoomsOpen`, under `JoinsOnConnect` (compiled handlers join rooms only on connect): `PeerInv`
  says that a message comes from a connection that was once in the hub, `JoinInv` that a pending
  join is for a connection the hub holds, or is followed by a reply on a closed channel, which
  ends the process, and `MemberInv` that a room holds a closed connection only in between.
  Without the assumption the property is false: a compiled message handler that joins, run after
  the unregister, puts a closed connection in a room and goes on.

`ProgramProofs` (any files, main file, search paths, ways to evaluate and to expand; any requests and
thresholds), about loading, for `LoadSpec`:

- `SiblingsBoundHolds`, from `LoadInvariance`. When a file has been loaded, its functions are in no table
  yet, and their files are processed inside one another. So the invariant speaks of the whole stack:
  `Siblings` says that a function that is missing is among the exports some frame has still to register,
  `Awaits` that a frame above the first came from the import statement below it and is in the module
  cache, `FunctionsBound` that the function table is no larger than the globals.
- `ExplicitKeptHolds`: the property speaks of the end, its invariant `Stated` of every moment. A name the main
  file has bound (`Reached`, which looks into the second frame while an import binds its names one by one) and not
  bound again since (`Latest`) means what the item said (`Holds`). That nothing else disturbs it is proved step by
  step: the registration of exports, because it passes over what exists (`StatedRegister`; there `FunctionsBound` is
  needed, because one table is asked and both are written); the import statements of imported files,
  because their names are in `Rebound` (`StatedBindName`, `StatedFinishImport`); an invocation of a macro, because no
  name is `Latest` behind it (`StatedNextItem`). `StatedAfter` and `StatedKept` are the two ways a step can
  keep `Stated`: it binds one name of the main file, or none.
- Every step of `Serving` is a step of `LoadNext` or keeps what `ServesOnly` keeps, by its definition; both
  properties are checked there on the interpreter's own operators.

The same module about the tier-up of a route (`JIT`):

- `ServedForwardHolds`: `ServedForward` alone is not inductive, because what is installed was put
  together steps before, under locks released since. The invariant says what a request carries in
  between: `StoresHigher` (it compiles for a tier above the baseline only), `FetchesSsa` (the unit it
  is about to read is recompiled, and nobody ever stores a baseline again), `UpgradesSsa` (what
  `RecordExecution` returned is no baseline).

`DevServerProofs` (any browsers and saves):

- `NoRollbackHolds`, `RefreshNotStaleHolds`: versions only pass down. `ReadBetween` (what the
  goroutine with `m.mu` read is no older than what is served, and no newer than the file),
  `ServedFromFile`, `NotifiedServed` (a goroutine notifies only about a version the server has
  reached) and `ToldServed` (so does what a browser was told). `ReadBetween` is where the lock
  matters: were the file read before `m.mu` is taken, another restart could come between.

`LoggerProofs` (any goroutines, entries and buffer, both formats):

- `LoggerTypeCorrect`, `FlushCorrect`, `OnceCorrect`. Neither `FlushCompletes` nor `WrittenOnce` is
  inductive. `GivenOut` says that a number handed out is new, `OnePlace` that an entry is with one
  client, in the buffer, with the processor or in the file, never in two of them, `ClosedOnce` that one
  client closes and that the file is closed only after the processor has drained and left, `OneWait`
  that the channel on which a Sync waits is in one place, and `Kept` that nothing is lost while the
  file is open and that what a Sync is for is in the file or ahead of its request.

`LogRotationProofs` (any sizes, backups, failures, crashes):

- `NoGapHolds`, `SizeHolds`, `OldestDroppedHolds`. `LogFile` says when the log file exists (while it is open, and
  in rotate until it was renamed, so that the rename never moves a file that is not there), and
  `Shifting` that the loop of rotate leaves a free name behind it, so only the rename to the last number
  overwrites a file. Three lemmas carry the order of the files through the ways in which they change:
  `LogFileOrder`, `AppendOrder`, `RenameOrder`.

`LRUCacheProofs` (any keys, tags, sizes, capacity, size limit, TTL and number of calls; under the
middleware, `HTTPSpec`, and the first two also for the application alone, `Spec`):

- `AccountingHolds` (`AccountingAlone`), `CacheTypeCorrect`, `NotifiedOnceHolds`, `EvictsLeastRecentHolds`,
  from `Invariance` (`InvarianceAlone`). The invariant is `ListInv` (the keys of the list are distinct and
  those of the map, the counters are the number and the sum of the entries, the capacity holds),
  `ValuesInv` (every stored value came from a Set of the past; that of the entry a Set makes room for came
  last, and its key is not in the map), `InOrder` (of two entries of the list, the
  one in front has been used later) and `NotifiedOnce`. `InOrder` is what makes the eviction of the last
  element an eviction of the least recently used key; `ValuesInv` makes `NotifiedOnce` inductive, because a
  value must not come twice.
- One lemma serves all operations that do the same to the list: `RemoveStep` for delete, eviction,
  tags, prefix, an expired Get and the cleanup; `MoveStep` for a hit and an overwrite;
  `InsertStep`, `ClearStep`, `ExpireStep` for the rest. They rest on lemmas about the list (`WithoutKeeps`: a filter keeps
  order and distinctness; `FrontList`, `FrontOrder`) and about sums (`SumSplit`).
- `CacheImplementsMap`: every step of the cache is a store, a removal of any keys, or a stutter of
  `BoundedMap` (`StoreStep`, `ForgetStep`), so whatever a lookup finds is what the last Set of its key stored.
- What is safety in two properties that as a whole are liveness. Of `SetReturns`: `VictimLeftHolds` (a Set of a
  value that can fit always has a victim while it has to make room) and `RoundsEvictHolds` (each round that
  finds one takes it, and nothing joins the list meanwhile, so there are at most as many rounds as entries);
  `SpinsForEverHolds` is the converse, that a Set of a value above the limit keeps the mutex for ever.
  Of `StaleResponseLeaves`: `StaleExpiresHolds` (a response overtaken by an invalidation is
  held only with a time to live). That the caller goes on, and that time does, is fairness and stays with TLC.

`RouteExecutionProofs` (any programs, stack limit and number of async blocks; under `CodeAssumption`):

- `StackBalancedHolds`, `ResolvedIsBoundHolds`, `CountersHold` (the program counter stays in the code
  and the stack within its limit) and `NoUnderflowHolds` (an instruction finds the values it takes, as long as
  no push was dropped at the limit), from `Invariance`. They are about bytecode as a JVM's verifier is: `VerifiedCode`
  says of every place of a block of code how many values the block has on the stack there at most
  (`height`) and at least (`floor`), and which variables are bound, and that each instruction leads from what holds at its place to what holds at the
  next ones. The theorems say that machines which execute such code never get anywhere else.
- The invariant `Fits` has to speak of every frame at once. A function knows nothing of its caller's stack,
  so `Levels` keeps, for the running block and the caller in each frame, how many values lie below
  its own; `FramesFit` says that what lies below a function, with the one value it leaves when it returns, is
  what its caller expects behind the call. That only functions have frames below them
  (`~w[0].block.function`, and a function does not end by itself) makes the end of the code the end of a
  route. An async block begins with the variables its creator has bound at that place (`AsyncVerified`).
- `ReplaceGoes` and `WorksGoes` say what an instruction does to its machine, `GoesFits` that going to a place
  the verifier allows keeps the invariant; there is one lemma for each group of instructions that do the same.
- `CodeAssumption` is evaluated by TLC for the programs of `routes`, with the blocks a data-flow analysis
  in `MCRouteExecution` finds in what `Compiler` and `Optimizer` emit. Code of the JIT tiers is exempt, since
  it leaves constants on the stack, as are variables inside functions, which may be called with too few
  arguments. It is false for branches in async blocks (section 5), where the compiler breaks its promise.

Induction. `Without` is a recursive function. What it returns for every list is proved by induction over
the naturals, from the least element of a set of naturals (`LeastElement`, `UpTo`), since the library's
induction theorems take an operator.

Only model-checked: all liveness (fairness and ENABLED are beyond the prover), and the properties of
what is built from recursive operators over syntax trees: `FilesMeanTheSame` (parser and formatter),
`CompiledAgrees`, `OptimizedKeepsValue`, `HotKeepsValue` (compiler, optimizer, SSA tier against the interpreter),
`RequestsIsolated` and `FormsAgree` (the interpreter). That the compiler emits verified code is of this kind;
that verified code runs as it should is proved. So is what an expression evaluates to; what loading makes
of the names, whatever it is, is proved.

## 5. Disagreements with the documentation

Two runs have TLC find a violation of what the documentation says: `hub_panic` and `routes_hot`; see
`findings`. More such statements are defined in the modules; a copy of a cfg that names one of them
has TLC find a counterexample:

| Statement | Says | Copy of | Changed |
|---|---|---|---|
| `AllFailsFast` (`Future`) | All rejects when any input rejects (`future.go:237`) | `Future.cfg` | `Combinators = {"All"}`, only this PROPERTY |
| `ShutdownDrains` (`WebSocketHub`) | Shutdown waits for all connections | `MCWebSocketPanic.cfg` | only this INVARIANT |
| `CloseReturns` (`Logger`) | Close ends; the drain of a Sync spins on the closed buffer (`logger.go:251`) | `Logger.cfg` | `Format = "json"`, `MaxEntries = 1`, only this PROPERTY |
| `CodeAssumption` (`VerifiedCode`) | with if and while inside async blocks, whose jumps the header displaces, the code is not verified: TLC reports the assumption false | `MCRouteExecution.cfg` | `Programs <- MCBranchPrograms` |
| `OptimizedKeepsAll` (`RouteExecution`) | "optimization produces same result as non-optimized code" (`optimizer_test.go:430`), but constants and copies outlive joins, loops and the source of the copy (`optimizer.go:253`) | `MCRouteExecution.cfg` | only this, as the one INVARIANT |
| `HotKeepsValue` (`RouteExecution`) | a route may ask for statistics of the hub (`docs/API_REFERENCE.md:1129`), but the SSA tier compiles `ws.get_rooms` as a function of the program, so the route fails once it is hot | `MCRouteHot.cfg` | `Programs <- MCHotStatPrograms` |
| `PreviousStillServes` (`DevServer`) | "Server still running with previous version" (`cmd/glyph/server.go:318`), but it was shut down before the file was read | `MCDevServer.cfg` | only this, as an INVARIANT |
| `ConnectedRefresh` (`DevServer`) | connected browsers refresh (`docs/CLI.md:467`), but `WriteTimeout` cuts the stream off after 15 s | `MCDevServer.cfg` | only this PROPERTY |
| `FilesMeanTheSame` (`SourceForms`) | the forms correspond one to one (`docs/GLYPH_NOTATION_SPEC.md:254`), but the transformer replaces words and symbols by their place only (`transformer.go:176`) | `MCSourceForms.cfg` | `CompactPrograms <- Unportable` |
| `CircularSafe` (`Serving`) | "Circular imports are safe" (`interpreter.go:310`, `CHANGELOG.md:75`), but a file enters the cache only once it is loaded | `MCServing.cfg` | `Programs <- MCCircularPrograms`, only this INVARIANT |
| `NothingOverwritten` (`Modules`) | exports are only registered "to avoid overwriting explicit imports or previously loaded definitions" (`interpreter.go:305`), but of a name only the function table is asked (`:334`), so a function replaces a constant or namespace of that name | `MCServing.cfg` | only this INVARIANT |
| `QueryReachesRoute` (`Serving`) | the query object holds the parameters of the URL (`docs/API_REFERENCE.md:1165`), but `handlers.go:332` hands over none | `MCServing.cfg` | `Programs <- QueryPrograms`, only this INVARIANT |
| `TierNeverFalls` (`JIT`) | recompiles "to a higher optimization tier" (`jit.go:236`) | `MCJIT.cfg` | only this PROPERTY |

While modelling, these were met too.

WebSocket, logger, caches:

- a connection evicted by a broadcast gets no disconnect handler and stays in the active gauge
  (`websocket/server.go:246`); with the block strategy the hub waits for ever on a connection whose
  write pump has ended (`connection.go:265`); `JoinRoom` marks the room on the connection even when
  the room refuses it (`connection.go:304`);
- the interpreter has no `ws.*`: in interpreted mode a route that asks for statistics answers 500; in an event
  the names `ws` and, unless there is a message, `input` are resolved but have no value (`cmd/glyph/server.go:411`);
- a log call that passed the `stopped` test may send on the closed buffer and panic
  (`logger.go:371`), a late Sync may wait for ever (`logger.go:447`); `MaxBackups` 0 still keeps one
  old file (`logger.go:207`);
- `WithMaxSize` is the "maximum size in bytes" (`cache.go:107`), but overwriting a key with a larger
  value evicts nothing and may exceed it (`cache.go:199`); a Set of a value larger than the maximum
  empties the cache and loops for ever with the mutex held (`cache.go:210`, `Spins`); two concurrent
  calls of `Close` may both close the channel (`cache.go:137`); the key of the HTTP cache ignores
  `Vary`, and its headers are set after the body was written (`cache.go:604`).

Optimizer, SSA tier, JIT:

- a parsed tree is optimized by nothing, because the optimizer matches pointers and the parser makes
  values (against `docs/FIRST_CONTRIBUTION.md:28`, `docs/CLI.md:114`); for trees made of pointers the
  tables of one optimizer live on from route to route, the peephole pass drops `a = 1` before `a = a + x`
  (`optimizer.go:953`), and the inliner puts arguments in the place of a parameter the body assigns
  (`optimizer.go:1281`);
- the SSA lowering pushes a constant where it stands and again where it is used, and leaves what is
  not used on the caller's stack; a stored value is not reloaded in its own block; objects lose keys;
  a call loads the function's name as a variable behind its arguments; break, continue, switch, match
  and async vanish; `0 == "a"` folds to true; functions of imported modules are compiled by this tier
  from the start (`routes.go:97`). The hot routes and imported functions of the passing run are those
  whose values are used in the order they are pushed (`InUseOrder`, `lower_cpu.go:328`);
- the GPU branch of the handler drops the upgrade it was returned (`handlers.go:193`).

Source forms:

- the transformer takes an apostrophe in a comment for the beginning of a string when it counts braces;
- the formatter writes parameters of commands as flags of their own, no parentheses, functions with
  `=` or `func`, sockets as "WS"; it drops defaults, annotations, methods of types, traits, the input of
  routes, time zones and retries of tasks, bodies of macros, pipes, tries, break, continue, assert and
  yield. No command calls it.

Modules, macros, serving:

- a selective import that an imported file makes itself overwrites names of the main file; a constant
  that uses a constant beside it is bound or not depending on the order of a map
  (`interpreter.go:328`); a constant in a namespace is evaluated anew at every read;
- the interpreter mode loads the main module twice (`routes.go:78` and `:172`): tasks, handlers and tests are
  registered twice. In compiled mode the main module is in no module cache, so a route that calls a
  function of its own file answers 500;
- the two macro expanders differ: the compiler's drops the statements among the items and the input
  type of a route (`macros.go:128`), allows a use before the definition, and expands bodies that the
  parser never gives it (`parser.go:175`); an import brings no macros;
- `$ K` in a route overwrites a constant `K`; a field of a constant's object may be assigned to; changes
  to a global object outlive the request; functions see the variables of their caller, callbacks none;
  the limit on the depth of evaluation is shared by all requests; `append` shares the array;
- a path with two slashes inside is matched by the router, but answered with 500 by the interpreter; a
  query parameter declared `int?` stays a string; `text()`, `html()` and `blob()` in a route with a
  declared return type answer 500.

## 6. What could come next

Types of the values of the VM for any code; `Reconnect`, saved WebSocket states with expiry
timers and clients that come back; GPU mitosis and the rate limiter of `pkg/server`, once a command uses them.

## 7. Not modelled

- Values: floats and integer overflow (the routes stay far from 2^63), two names for one object or
  array, a closure called after a variable it captured was reassigned, a function that reassigns a
  variable of its caller.
- Text: characters below words and symbols, positions and error messages, the encoding of bytecode,
  messages and JSON.
- Handlers: streamed routes (SSE, yield), injected providers, auth data, built-ins with input or output.
- Parser: query syntax trees that no parser function builds, `EmitEvent`, which nothing calls, imports
  by absolute path.
- GPU and WGSL: the lowering to shaders, the device and what it answers (a choice in `JIT`).
- The language server, code generators, connectors, metrics, scanners, the AI pipeline, the debugger
  and the REPL: one request at a time, text to text, or the I/O of drivers.
- Pools, the hot reload library and `pkg/server` but its router: no command reaches them.

The definitions cover about 31 % of the implementation's lines. The rest is, for the most part, the
last three points.
