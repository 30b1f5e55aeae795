# A verification project for V++

V++ ("Viet crafting interpreters") is a programming language with Vietnamese
keywords: a lexer and a parser, semantic analysis, a structured intermediate
representation (IR), a code generator that emits bytecode, and a virtual machine
that runs it, with a native standard library, an HTTP server, packages and a
small language server around them.  This directory holds TLA+ modules that model
the parts of it with a core logic of their own, the TLC configurations that check
them, and theorems about them proved with TLAPS.

Paths below are relative to the repository; line numbers are in `PROJECT.json`
("map"), definition by definition.

## 1. Inventory

| component | state it keeps | operations | talks to |
|---|---|---|---|
| virtual machine (`src/runtime/vm.cpp`) | `pc`, operand stack, globals by slot, call frames with indexed locals, block / switch / try stacks | `run`, one handler per opcode group | child VMs (one per call and per module initializer), output sink, native library |
| module table (`src/runtime/module.cpp`) | state of each module, registration order | `add`, `begin`, `complete`, `fail` | `VM::initializeModules` |
| code generator (`src/compiler/codegen.cpp`) | slot map and counter per module, bytecode being written | `emitValue`, `emitStatement`, `emitFunction`, `emitProgram` | registry (ids, names, pool), import compilation (recursion) |
| compilation registry (`src/compiler/compileRegistry.cpp`, `support/storeString.cpp`) | string pool, function id → bytecode, function id → name, files in progress or done, initializer list | `storeString`, `resolveFunctionIdByName`, `compileImportSpec` | code generator, pipeline |
| command line (`src/cli/main.cpp`) | – | `runSnippet` links a compilation into a VM | pipeline, VM |
| language server (`src/cli/main.cpp`) | open documents, shutdown flag | one message at a time | linter, formatter |
| HTTP server (`src/runtime/native/vm_low_level_http_server.cpp`) | server table, request table, a queue per server, running flag | open, next, request field, send, close; accept thread | VM thread, accept thread, sockets |
| HTTP file transport (same file) | the files `ready`, `requests/*.req`, `responses/*.resp`; the table of requests of a server | the client's request with its deadline; the server's open, next, send, close | other processes, through the files |
| module graph (`src/compiler/module_graph.cpp`) | active and loaded marks, edges, modules | import traversal, index of direct imports, names for the analysis | semantic analysis, pipeline |
| semantic analysis (`src/compiler/semantic.cpp`) | scope tree, symbols, bindings | declare, resolve, classify calls, captures | IR lowering |
| lexer (`src/frontend/lexer.cpp`) | – | characters to lexemes, merging of keywords of several words | parser |
| parser (`src/frontend/parser.cpp`) | token position, arenas of expressions and of lambdas | statement splitting, Pratt expressions, attempts that are rolled back | analysis |
| IR lowering and optimizer (`src/compiler/ir.cpp`, `optimizer.cpp`) | – | AST and bindings to IR, marks of what was lost | code generator |
| gate (`codegen.cpp`, `analyzeDirectIrSupport`) | class context, declared names | refuses IR that the emitter cannot translate | emitter |
| values, collections, objects (`src/include/vpp/runtime/value.h`, `src/runtime/object.cpp`) | heap of shared handles | operators, conversions, field and index access | VM |
| native library, JSON, SQLite, files | mostly none | one-call wrappers | the operating system |
| JIT path, garbage collection (`vm.cpp`) | the VM's own | re-interpretation of straight-line code; container shrinking | VM |

Hard behaviour, and where it is:

* **control flow that is re-created at run time.** `thoát`, `bỏ qua`, switch arms,
  `thử` and blocks are not compiled to jumps with known targets: the machine scans
  the text of the bytecode for the next marker, or keeps stacks that have to match
  the nesting of the source.
* **names by number.** Functions, globals and locals of one module share a slot
  counter, and whether a slot is local is decided at run time by the length of a
  vector.
* **calls as machines.** Each call and each module initializer runs in a child VM
  with copies of its parent's state, copied back on return and lost when a C++
  exception passes through.
* **recursion that can fail.** An import compiles another file in the middle of this
  one, with marks against circles that a failure must take back, in a registry that
  may be used again.
* **repeated runs.** The module table survives a run that failed half-way, and the
  host may call `run()` again.
* **concurrency** exists in one place: the accept thread of the HTTP server.
* **processes**: the HTTP file transport hands files between a client with a
  deadline and servers that may stop at any step, share a port by mistake, and open
  it again.
* **speculation.** The parser tries to read expressions, lambdas and switches, and
  goes back; its arenas have to go back with it.
* **the same question answered twice**, by code that has to agree: names by scope in
  the analysis and by text in the emitter; what can be translated, by the gate and by
  the emitter; precedence in the lexer's table and in the parser's binding powers;
  opcodes in the interpreter and in the JIT; equality in each operation on lists.
* **a tolerant front.** The parser never refuses what it does not understand: it drops
  it from the tree, and the gate must notice two stages later.
* **handles.** Lists and maps hold themselves and each other.

What makes each component correct, as far as it is stated here: the machine
together with the code generator prints what the source means (*Agrees*), never
meets a fault of its own (*NoMachineFault*), keeps its handlers restorable
(*HandlersReachable*), closes what it opens (*ClosedAtEnd*), ends (*Terminates*);
a callee has its caller's frame (*CallersFrame*), the JIT runs what it takes as the
interpreter does (*JitAgrees*), and the module table follows its lifecycle
(*ImplementsLifecycle*); a file's imports are registered before it
(*DependencyFirst*, *InPostOrder*), the marks are those of the files in work or done
(*Marked*), and what the analysis of a file is told does not depend on which of two
indexes it is read from (*SameEnvironment*).  From source to bytecode nothing is left
of an attempt that failed (*ArenaSound*), exactly the sources whose delimiters nest
are parsed (*BalancedIffParsed*), with the precedence of the table
(*PrecedenceKept*); names keep their bindings (*BindingsStable*) and mean the same to
the emitter (*NamesAgree*), which can translate what the gate passes (*EmitterTotal*),
no function reads a variable of another (*NoCaptureEscapes*), and the program that is
translated is the one that was written (*NothingDropped*).  Each connection of the
socket server has one holder (*OneHolder*), what is queued can be answered
(*Answerable*), by its own response (*OwnResponse*); a request handed over as a file
is somewhere (*Accounted*), is run by one session (*TakenOnce*), and leaves nothing
behind (*LeftClean*).  The text of a value ends (*TextTells*) and lists have one
equality (*OneEquality*).  `PROJECT.json` lists the hazards, each at its line, with
the properties aimed at it.

## 2. Modules

| module | models | lines of code it stands for |
|---|---|---|
| `VppValues` | integers, strings and rỗng: operators, conversions, truth | `vm_utils.h`, `value.h`, `toBool` |
| `VppSyntax` | the IR: constructors of expressions, statements, items | `ir.h` |
| `Codegen` | the code generator and the registry, as a function from files to images | `codegen.cpp` 1028–1800, `compileRegistry.cpp`, `storeString.cpp`, `runSnippet` |
| `VmMachine` | the virtual machine, one action per opcode group, any bytecode | `vm.cpp` |
| `RefSemantics` | what a program means by its structure: a reference evaluator with no slots, stacks or jumps | (a specification, not code) |
| `VmProgram` | `Codegen` + `VmMachine` + `RefSemantics` composed; the properties that relate them | `compiler.cpp`, `runSnippet` |
| `VmDiscipline` | what bytecode has to keep to, instruction by instruction; the machine's own promises for code that does | (a specification, not code) |
| `CompiledDiscipline` | that compiled programs keep to it, computed by TLC | (a check of `Codegen`) |
| `ModuleLifecycle` | the abstract promise about modules | `module.cpp`, `docs/architecture.md` |
| `RequestFlow` | the abstract promise about HTTP requests | (a specification, not code) |
| `HttpServer` | the socket HTTP server: its accept threads, the program's calls, clients, file descriptors | `vm_low_level_http_server.cpp` 62–231, 485–758 |
| `ImportWalk` | the abstract promise about imports: each file entered once, left after what it imports | (a specification, not code) |
| `ImportCompiler` | the recursion over imports: registry, marks, rollback, initializer list, many compilations | `compileRegistry.cpp` 411–465, `compiler.cpp` 72–169 |
| `ImportOrder` | the order of initializers by definition: the postorder of the imports | (a specification, not code) |
| `ModuleGraph`, `ModuleEnvironment` | the graph of local modules; the two ways to the names the analysis knows | `module_graph.cpp` 39–132, 205–295 |
| `JitPath` | straight-line bytecode as the JIT runs it | `vm.cpp` 617–752 |
| `Tokens` | lexemes, their kinds, the operators | `lexer.cpp` 60–157 |
| `Parser` | tokens to the arena syntax tree | `parser.cpp`, `ast.h` |
| `Semantics` | scopes, symbols, bindings, captures, call targets | `semantic.cpp` |
| `Lowering` | the analyzed tree as IR, its marks, the optimizer | `ir.cpp`, `optimizer.cpp` |
| `DirectSupport` | the gate before the emitter | `codegen.cpp` 1–1026 |
| `Emission` | what the emitter resolves each name to, and what it refuses | `codegen.cpp` 1028–1856, `compileRegistry.cpp` |
| `Frontend`, `FrontendProperties` | the pipeline of these stages over one source; what the stages owe each other | `compiler.cpp` 88–133 |
| `Collections` | lists, tuples, maps and objects as cells held by handle, their operations and their text | `value.h`, `collection.h`, `vm_native_collection_helpers.cpp`, `vm.cpp` 399–484, 981–1144 |
| `RemoteCall` | the abstract promise about calls between processes | (a specification, not code) |
| `FileTransport` | clients with a deadline and servers that stop, with files between them | `vm_low_level_http_server.cpp` 250–483, 618–758 |
| `ModuleLifecycleProofs`, `VmMachineProofs`, `ImportWalkProofs`, `ImportCompilerProofs`, `FileTransportProofs`, `HttpServerProofs`, `ModuleGraphProofs`, `CollectionsProofs` | the theorems | |
| `StructuredPrograms`, `CallPrograms` | the programs `MCVmPrograms` checks | (a bounded grammar, not code) |
| `MCVmPrograms`, `MCVmOpcodes`, `MCHttpServer`, `MCImportCompiler`, `MCModuleGraph`, `MCFrontend`, `MCFileTransport`, `MCCollections` | instances for TLC | |

### VmMachine

The state is a stack of activations `vms`, one for each live VM object: the first
is the VM the host called `run()` on, the last the one that is interpreting.  An
activation has the members of `class VM` that the handlers use: `pc` (zero-based,
as in the code), operand `stack`, `vars` (globals by slot), `frames` (call stack
with `args` and `locals`), `blocks` (depth of `blockStack`, whose entries are never
read), `switches`, `tries`.  `mods` and `nextMod` are the module table and the
position of the loop of `initializeModules`; `status` says where the host's call of
`run()` is; `out` is what the output sink got.

Each opcode (group) is one action that does all the handler does, with its error
branches.  An error is a C++ exception: `Throw` drops every child, marks the module
whose initializer was running, and leaves the root as the handler (or its pending
call) left it.  Errors are told apart only as far as the properties need: `value`
(division by zero, operands of the wrong kind), `uncaught` (a `ném` nobody caught),
`module` (a run refused because of an earlier failure), `range` (a jump out of the
code), `internal` (stack underflow, a negative number of arguments, a default value that
cannot be decoded, a block, switch, name or opcode it cannot resolve).

A call pushes an activation with the caller's frame and a copy of the globals;
its end (`EndCall`) copies globals back, pops the caller's frame and pushes the top
of the callee's stack if there is one.

The machine is deterministic.  What varies is the image: TLC takes every program
of a set as an initial state.

### Codegen, RefSemantics, VmProgram

`Codegen!Compile(files)` is the code generator as an operator: an emitter record is
threaded through operators named like the methods of `struct Emitter`.  It includes
what is easy to lose: slots of a module start at 0, function ids share the slot
numbering, a load of a name that is a registered function is a constant, an
explicit `gọi` resolves only among the module's own functions and before its
arguments, the importer's slot counter is moved above all function ids, an alias
renames the functions of the module, the second import of a file is a no-op.

`RefSemantics!Meaning(files)` evaluates the same tree by structural recursion.
Where the documents leave a choice it takes the one the code makes for simple
programs (a name assigned in a function is local unless a global of that name
exists; a missing argument is 0).  `VmProgram` attaches the meaning to each image
and compares.

The model of generator and machine was compared with the interpreter built from
this repository on all programs of the runs whose source can be written down: same
output, same failures.

### HttpServer

Threads: one accept thread for each open server (`apc[s]` says where in its loop it
is) and the thread of the virtual machine (`vm.at`), which runs one native call at a
time.  A region under `gLowHttpMu` or under a server's `mtx` is one step; an access
to the atomic `running` is one step; between two steps any other thread may run.  So
a request is accepted, read, named, put into `gLowHttpRequests`, put into the queue
and announced in six steps; `send` takes the request out of the table, writes, and
closes in three; `close` clears the flag, shuts the listening socket down, closes it,
joins and sweeps in five.

The condition variable is modelled by what it does: `next` tests its predicate and
falls asleep in one step (it holds `mtx`), `Notify` wakes a sleeper and is lost when
there is none, and a sleeper may wake for no reason.

File descriptors are numbers; a new socket takes the lowest free one, as POSIX
demands, and closing acts on whatever the number stands for at that time.  `accept`
on a socket that was shut down or closed fails, also when the thread was already
blocked in it, which is what Linux does.  Clients write the head of a request, a
whole request, or something that is not one, and may hang up at any time.  The
history variables `origin` (whose request an id is) and `handed` (what the program has
been given) exist for the properties only.

Calls that return an error and change nothing are stuttering steps.  A `send` to a
client that has gone may also end the process by SIGPIPE, which nothing in the
repository ignores; such a behaviour is the beginning of one the model has, and no
property of this module speaks of what comes after.

`RequestFlow` is the promise in a page: requests of an open server form a line, each
is handed out once, in order, only what was handed out is answered, once, and closing
drops the rest.  `HttpServer!StageOf` reads a client's stage off the sockets and
tables, and `ImplementsFlow` checks the refinement.

### ImportCompiler, ModuleGraph

Both walk over the imports of a program by recursion, and both are modelled with the
call stack as the state: `frames` holds, for each call that has not returned, its file
and the number of the import statement it is at.  `ImportCompiler!Enter` is the part
of `compileImportSpec` up to the nested `compilePipeline`, `Skip` its early return,
`Leave` what follows the nested call, `Rollback` its `catch (...)`.  `Throw` may happen
anywhere: a file that cannot be opened and every error of the parser, the analysis or
the generator leave through the same handlers.

A registry outlives a compilation.  `Begin` starts the next one, with files that may
have been edited, in the registry of a `CompilationContext` (which `compilePipeline`
clears before, and after a failure) or in the thread's default registry (which
`lintSource` resets with `resetCompilationState`).  `kept` remembers how many
initializers were there when the compilation began: `resetCompilationState` leaves
them.

`ModuleGraph` is `BuildContext::visit`, with the edges it records.  `build` starts from
nothing each time, so one call is one behaviour.  *Complete* counts: the edges of a file
are as many as its imports and the n-th is the n-th, the edges that loaded are as many as
the modules and the n-th is to the n-th.  `ModuleEnvironment` adds
`semanticEnvironmentFor`, applied to the finished graph and to the index of direct
imports that `compilePipeline` builds instead.

A file is its normalized path in both.  How a path is found (resolution base, parent
directories, packages, `VPP_HOME`) is left out; so is what else is in a file, which
is `Codegen`'s subject.

`ImportWalk` is what both promise: files that are open form a path of imports, a file
is entered once, and left when everything it imports has been left or is open around
it.  Both are checked to refine it (*ImplementsWalk*).

### Tokens to names: the frontend

`Frontend` is `compilePipeline` for one source: `ParseStage`, `SemanticStage`,
`LowerStage` and `EmitStage`, each of which may refuse the source, as the code does
by an exception.  The stages are operators.  They walk over trees, so most of them
are recursive; state that the C++ object keeps in members is a record that is threaded
through.

`Parser` keeps what is hard about `parser.cpp`: which token ranges a statement takes
(`collectSimpleStatement` and the balancing of delimiters), the attempts
(`tryParseExpression`, the lambda, the structured switch), what each attempt puts into
the two arenas and what giving up takes out again, and which errors are caught where.
An `ExprId` is an index into the arena.  Lexemes are words, Vietnamese without its
marks; there are a handful of each kind, and one number too large for `std::stoi`.

`Semantics` is the `Analyzer`: two passes, scopes that are made when a lambda is first
met by either, three name spaces, the binding of names to symbols, instance members and
imported functions, captures and call targets.  `Lowering` keeps the marks of what it
could not express (`UnsupportedDirectRegion`, `UnsupportedCount`).  `DirectSupport` is
`analyzeDirectIrSupport`, refusal by refusal: it compares the IR with the words it
stands for.  `Emission` follows the emitter in its textual order and records for every
use of a name what the name may come to (`uses`), and any `logic_error` (`failed`); the
instructions themselves are `Codegen`'s subject.

`FrontendProperties` compares a stage with a reference that does without its machinery:
a stack for the delimiters, the operator table for precedence, the finished tables for
names that were bound early, the words of the source for what was understood.

### JitPath, Collections

`JitPath!RunJit` runs straight-line code the way `runJitCompiledLinear` does, one
closure after the other over the VM's own stack (`After` is the VM after each number of
closures); *JitAgrees* compares it with the interpreter in every final state of
`vm_opcodes`.  It speaks of the first `run()`: a
second one starts over in the JIT and goes on from the last `pc` in the interpreter.
Errors are compared as in `VmMachine`, by kind: for a bad index of a constant the JIT
raises another C++ exception with another message.

`Collections` is a heap of cells (a list, tuple, map or instance) and variables that hold
values, among them handles of cells.  A program makes any operation at any time; a call
that reports an error changes nothing and is a stuttering step.  Cells that no variable
reaches can be taken again: whether `shared_ptr` freed them or a circle keeps them is
not visible.  Keys of maps are the text of the key, in the order of `std::map`, so 1
and 1.0 are two keys although they are the same element of a list.

`stackValueToString` recurs with a set of active handles that it passes by reference.
`Written` is that recursion as a recursive function: for each set of active cells, the text
of every value and the cells that are active after it; `Writes` is the body of the C++
function, whose loop is a fold that hands the active set on.  The assumption
`CollectionsAssumption` is that there are finitely many cells, that `Order` has each string
once and in the order of `std::string`, that the scalars are values, and that the texts of
keys are strings there are.

### FileTransport

A client is one call of `tryLowLevelHttpFileTransportRequest`; a server is a process
that opens, serves and closes the port, one session after the other.  Each access to a
file is a step, and `writeAtomicFile` is three: a temporary file (`draft`) is opened and
empty (`Begin`), filled and closed (`Fill`), and renamed (`Rename`); after each the writer
may report an error (`CannotWrite`, `CannotSend`) or stop (`Stops`, `Crash`).  Files stay
when a process stops, the table of a server goes.  Nothing in the code keeps two servers
off one port, so the model does not either.

Two errors go unseen in the code, and happen in the model (`Unseen`).  `out.good()` is
asked before the stream is flushed, so what closing it cannot write is missing from the
file that is renamed (`cut`); and the error of `std::filesystem::remove` is thrown away
everywhere, so a request that was taken or withdrawn, or a response that was read, may
still be there (`stuck`).  A server finds a piece of a request undecodable and removes it:
the length of the body is written before the body.  A client takes a piece of a response for
the response when the first line is whole (`Read`).  The deadline is a flag that may rise at any time in one of the two waits
(`Expire`); what it races is then every step of the servers.

The rest of the history is `handed`, `again`, `lost` and `shared`: the sessions whose
program got a request, the requests that a session got more than once, those that went
with a session that had taken them, and those that two servers had found at once.
`RemoteCall` is the promise in a page: a call is run after it was made and answered only if
it was run; how often it is run is said by *TakenOnce*.

### The checked fragment

`StructuredPrograms` and `CallPrograms` keep to the programs in which the machine does
what the source means.  They leave out, because the code does something else there
(section 5 shows some of it):

* `thoát`, and switches that are not alone in a block of their own, whose arms do
  more than print, or whose default is not last (`docs/grammar.bnf` has it last);
* `bỏ qua` before another loop of the same body, and inside `thử`;
* `ném` that leaves the function it is in;
* `gọi f(...)` used as a value (it is a statement), functions without `trả về` used
  as values;
* `bắt lỗi` with a variable inside a function, and comparisons with rỗng.

## 3. Runs

All runs are exhaustive over their set of programs or behaviours.

| run | question | bounds |
|---|---|---|
| `vm_programs` | do compiled control constructs, calls and imports mean what the source means, wherever they stand? | 8 kinds of leaf statement, 5 wrappers nested two deep, three places (top level, `main`, a callee with a default parameter), loops that run twice, which distinguishes first and later iterations; 5 functions called in every form with 0–4 arguments, lambdas in variables and arguments, all import lists of length ≤ 2 over two modules (with cycles, no module importing itself), with and without alias: 49 668 states |
| `vm_opcodes` | what holds of the machine for bytecode nobody would generate, and does the JIT agree with it? | 75 188 states: every pair of an alphabet of 70 instructions, pairs after each kind of pushed value, switches with every operand form; three callees, three initializer lists, two runs; besides, every program of `vm_programs` is compiled and verified (`CompiledCodeFollows`) |
| `http_server` | do the accept threads and the program's calls keep the sockets, the table and the queues together? | 2 servers, 2 connections, 3 descriptors (fewer than the four sockets there could be, so that numbers are used again while others are open and `accept` runs out of them): 436 033 states up to the symmetry of the connections |
| `http_server_live` | do `next` and `close` come back? | 1 server, 2 connections, 3 descriptors: 22 203 states |
| `imports` | do circles, failures and repeated compilations leave the marks and the initializers right? | 3 files; the compiled file with up to two imports, the others with up to two, among them themselves, each other and the compiled file: 48 programs, exchanged between compilations; at most one initializer kept from earlier compilations (`MaxKept`; more only shift the place where the next ones begin): 69 228 states |
| `module_graph` | is the graph complete, do its edges tell the truth, are the two indexes equal to the analysis? | an entry and 3 files, the entry importing up to two under an alias or none: 648 programs, 28 334 states |
| `frontend` | from tokens to names: is an accepted program the one that was written, and is every stage given what it can work on? | fifteen programs of 11 to 31 words, which among them use every construct, and every program one edit away from one of them: a word left out, or one of 16 words put in or exchanged at any place (`Words`: delimiters, operators, a name, a function, a member name, keywords, a number too large): 37 198 states. One edit is what a test of malformed input tries by hand; two make programs whose first error hides the second |
| `file_transport` | do a client with a deadline and servers that stop keep a request, once, and clean? | 1 client, 2 servers, 2 openings of the port (`MaxSessions`: one server over the other, or one after a crash), 2 unseen errors (`MaxFaults`: a request cut short that cannot be removed either): 245 625 states. The invariants and *WholeFiles* were checked once for 3 openings (a server after a crash beside another one): 1 272 651 states |
| `collections` | does the text of a value end and tell circles from sharing; do the operations agree on equality? | 2 cells at a time (enough for a circle of two, a part that is shared, and a collection in itself), lists of up to 2, 2 variables, the values 1 and 1.0: 111 179 states |
| `import_entry`, `frontend_malformed`, `vm_throw` | see section 5 | the programs of `imports`; two sources; one program |

Bounds: `Images` is the set of programs, `MaxRuns` the number of calls of `run()`
(1 where programs are compared with their meaning, 2 for arbitrary bytecode: the
second run starts from every way the first can end, and a third starts from no new
one); `MaxModules` the length of the table.  `CHECK_DEADLOCK FALSE` stands where
the program stops when it is done.

Fairness: `FairSpec` asks weak fairness of the machine's own steps.  `run()` is a
`while` loop on one thread; it only stops by returning or throwing, so an enabled
step is eventually taken.  The host's next call (`Rerun`) has no fairness.

`ImportCompiler!FairSpec` asks weak fairness of the compiler's own steps (`Work`), which
is a recursion on one thread; neither a failure nor a further compilation is fair.

`FileTransport!FairSpec` asks weak fairness of the rest of a call that a thread has begun
and of the clock (`Expire`): a process that is up runs, and twenty seconds pass.  It asks
none of what programs call next, and does not forbid that a process stops:
*ClientReturns* holds whatever the servers do.

`HttpServer!FairSpec` asks weak fairness of each accept thread and of the call the VM
thread is in: the operating system schedules both.  A new call of the program has no
fairness.  `ClientsFinish` (a client that has connected completes its request or hangs
up) is an assumption about the world: `recv` has no timeout, and without it `close`
waits for ever in `join` (TLC shows it when the assumption is dropped).

### What each property notices

Every property is tried against a slip: a change of one definition that a bug of
that part of the code would be.  TLC finds the property violated in the same run.

| run | property | slip |
|---|---|---|
| `vm_programs` | `Agrees` | `OP_THU_KET_THUC` jumps to the handler instead of past it; arguments in the order they are popped (the `reverse` forgotten) |
| | `NoMachineFault` | closing the block of an arm ends the switch; a call through a variable compiled as a call by name |
| | `HandlersReachable` | `OP_THU` saves the stack height one too high |
| | `ClosedAtEnd` | `OP_THU_KET_THUC` does not pop the handler |
| | `Terminates` | `bỏ qua` looks for the update but the program counter stays where it is |
| `vm_opcodes` | `CallersFrame` | the caller's frame is not popped after the call |
| | `JitAgrees` | the closure of the end of the program is empty, like those of the other marks |
| | `ImplementsLifecycle` | the `catch (...)` does not mark the module failed |
| `http_server` | `OneHolder` | the socket of a client that sent no request stays open |
| | `Answerable` | closing a server sweeps away the requests of all |
| | `OwnResponse` | a request that is being answered stays in the table |
| | `ClosedClean` | `close` does not wait for the accept thread |
| | `ImplementsFlow` | a request enters its queue at the front |
| `http_server_live` | `NextComesBack` | nobody is notified |
| | `CloseComesBack` | `close` does not clear the running flag |
| `imports` | `Marked` | the `catch (...)` does not take the mark back |
| | `DependencyFirst` | an initializer is put in front of the others |
| | `InPostOrder` | the marks of the last compilation stay |
| | `ImplementsWalk` | only files in work are skipped, not those that are done |
| | `Terminates` | after an import that is skipped, the importer stays where it is |
| `module_graph` | `EdgesTell` | a file that is loaded keeps its active mark |
| | `Complete` | an import of a known file is not recorded |
| | `SameEnvironment` | the direct index has one edge for each file instead of one for each import |
| | `ImplementsWalk` | only files in work are known, not those that are loaded |
| `frontend` | `ArenaSound` | an attempt that fails puts back the position, not the arenas |
| | `BalancedIffParsed` | any closing delimiter closes any opening one |
| | `PrecedenceKept` | all operators associate to the right |
| | `BindingsStable` | the analysis takes every lambda for new and makes its scope again |
| | `EmitterTotal` | the gate passes parameters with any default |
| | `NoCaptureEscapes` | the gate passes lambdas that read variables around them |
| | `NamesAgree` | the class context stays after the class |
| | `NothingDropped` | an expression that ends before its range does is accepted |
| `file_transport` | `Accounted` | the request file is removed when it is read, before it is registered |
| | `TakenOnce` | the request file stays when its request is handed out |
| | `LeftClean` | a client that gives up leaves its request file |
| | `ImplementsCall` | a client that gives up reports no error |
| | `ClientReturns` | only the first of the two waits looks at the clock |
| | `NextServes` | a file that has gone before it is read is looked for again and again |
| `collections` | `TextTells` | a collection that has been written stays active, and a second reference to it is a cycle |
| | `OneEquality` | the intersection keeps repeated elements; the maximum is whatever is not less |

## 4. Proofs

`tlapm` checks every proof to its leaves.  The theorems hold for every value of the
constants: any set of images (any bytecode, any number of modules), any `MaxRuns`.
The assumptions about the machine are `ImagesAssumption` (an image has code for its entry and for its
initializers, code is a sequence of instructions, and the pool one of strings; TLC evaluates it
on every run) and `NamesAssumption` (below), which no proof uses.

Type invariants and some properties are proved and no longer checked by a run of their
own, since a theorem says more: the type invariants of `VmMachine`, `ImportCompiler` and
`FileTransport`, *Chain* and *LoopPosition* of `VmMachine`, *WholeFiles* of
`FileTransport`, and the three promises of `ModuleLifecycle`.  (*WholeFiles* fails in TLC when
a request or a response is written under its own name.)

`ModuleLifecycleProofs`: `EntrySafe` (*EnteredInitialized*), `InOrder`
(*OneAtATime*), `AtMostOnce` (*NeverAgain*).  One invariant serves all three: what
has started has everything before it initialized.

`VmMachineProofs`: `Typing` (*TypeOK*), `CallsNest` (*Chain*), `FramesMatch`
(*CallersFrame*), `LoopKeepsPosition` (*LoopPosition*), `Refinement`
(*ImplementsLifecycle*).  None of the four invariants is inductive alone.  The
strengthening is `IInv`: the shapes of the variables (`Shaped`), `Chain`,
`CallersFrame`, and `Modular`, the facts about the module table and the loop that
`LoopPosition` needs when a child ends or throws (at most the current module is
being initialized; while the machine runs, all are initialized).

The argument goes through the thirty opcodes once.  `Step` is first shown to be one
of four shapes (the lemmas named `…Shape`): it changes only the interpreting
activation and keeps the arguments and the number of its frames (`Stays`), it starts
a call (`Enters`), it throws (`Throws`) or an activation ends (`Finishes`).  `Kin` is
the relation between an activation and its successor that makes this work: same
kind, same frames up to their locals.  Each conjunct of `IInv` is then proved for
the four shapes and the lifecycle actions, so the proof does not grow with the
instruction set.  The refinement reads the same case split: of the steps of the
machine only `BeginModule`, the end of an initializer, the throw under one, a
refusal, `ModulesReady`, the end of a run and `Rerun` change what
`ModuleLifecycle` sees; all others stutter.

`ImportWalkProofs`: `TypeCorrect`, `EachOnce` and `ImportsFirst` say of the abstract
walk that it enters no file twice and leaves imports first, for any files and imports.
The invariant needs one fact more, `Path`: each open file reaches those opened inside
it.  When a file is left, an import of it that is still open is therefore on a circle
with it.  `Reaches` is defined by closed sets (`f` is in every set that has `g` and what
its members import), so no induction is needed.

`ImportCompilerProofs`: `TypeCorrect`, `MarkedHolds` (*Marked*), `Refinement`
(*ImplementsWalk*) and `ImportsFirst` (*DependencyFirst*), for any files, imports,
registries and `MaxKept`.  The invariant adds to the types and the marks that each call
was made by the import its caller is at (`Calls`), that what a call has gone past is
marked (`Past`, which holds until something is thrown), that a context starts empty
(`Cleared`), and the walk's own invariant through the mapping (`WalkInv`).  The last is
kept by the walk's lemma `NextInv`, instantiated: each action is shown to be a step of
the walk, and the walk's proof does the rest.  In return `Rollback` needs it: the mark
taken back is nobody else's because no file is open twice or open and done.  The
assumption is `ImportsAssumption` (imports are sequences of files).

`InitializersInPostOrder` (*InPostOrder*, in the same module) says that the list of
initializers of a compilation that succeeds is one definite sequence, given by a
recursive definition that knows no registry, no marks and no call stack
(`ImportOrder`).  Since the code's list grows at its end while the definition descends
from the entry, the invariant `Ordered` looks ahead: it keeps for each call what will be
registered when that call has got to the end of its file (`Foreseen`), computed from the
definition (`Until`) with the files in work above it as known.  Going past a known file
changes nothing of this (`UntilKnown`), going into a new one splits it in two
(`UntilNew`), and at the end of a file nothing is left (`UntilEnd`).  `Ordered` has an
unbounded quantifier, so TLC checks what it implies and not the invariant itself.  A
recursive definition says nothing before there is a function that satisfies it; that is
proved by hand, from the least situation that would have no value (`LeastSituation`,
`OrderExists`), by how many files are still unknown and how many are left to import.
For this the files must be finitely many (`FilesAssumption`).

`FileTransportProofs`: `TypeCorrect`, `FilesAreWhole` (*WholeFiles*),
`RequestsAreAccountedFor` (*Accounted*), `RequestsAreTakenOnce` (*TakenOnce*),
`CallsLeaveClean` (*LeftClean*) and `TransportImplementsCall` (*ImplementsCall*), for any
number of clients, servers and sessions.  The invariant `IInv` says, besides *Accounted*:
a file is filled before it is renamed, and what is in pieces under a name was cut short
(`Pieces`), whatever stops or fails in between; before a client has written its request nobody has
heard of it (`Before`); its file has gone once a program has it or its call has returned,
unless it is stuck, and an answer is there only after that (`Behind`); what is in a table has been handed out, but
for the request that `next` has just put there (`Kept`); and a request that was never
shared and is not stuck is with one server at most, either to hand it out or to answer it (`Singles`),
which is what *TakenOnce* rests on.  Clients'
and servers' steps are two lemmas, with a case for each action.  The assumptions are
`BoundsAssumption` (`MaxSessions` and `MaxFaults` are numbers), `WritersAssumption` (no
client is a server) and `NoneAssumption` (no client is called `None`).

`HttpServerProofs`: `ConnectionsHaveOneHolder` (*OneHolder*),
`QueuedRequestsAreAnswerable` (*Answerable*), `ResponsesReachTheirClient`
(*OwnResponse*), `CloseLeavesNothing` (*ClosedClean*) and `ServerImplementsFlow`
(*ImplementsFlow*), for any number of servers, connections and descriptors.  The
properties speak of requests; what makes them hold is who owns a descriptor, because a
number that two steps take for theirs is soon somebody else's.  The invariant `Inv`
therefore gives each open descriptor its owner and says what the number stands for in
every place that holds one: the listening socket of a server (`Listens`), a connection
between the wire and the program (`Connections`, which also counts the descriptors of a
client: one), the accept thread at each place of its loop (`Threads`), the table
(`Entries`), the queue (`Queues`: no id twice, all of them in the table), the `send` in work
(`Sends`), the call of the program (`Calls`); every open connection
is in one of these places (`Held`), and an id says whose request it was for ever
(`Names`).  That no two places hold the same open number follows.  *OwnResponse* is part
of the invariant.  There is a lemma for each step of an accept thread, each call and
the clients' steps, and for the refinement one for each step that `RequestFlow` sees.  The assumptions are
`ServersAssumption` (servers are handles, that is, numbers) and `FdsAssumption`
(descriptors are finitely many numbers, so that there is a lowest free one).

`ModuleGraphProofs`: `EdgesTellWhatHappened` (*EdgesTell*), `GraphIsComplete`
(*Complete*), `GraphImplementsWalk` (*ImplementsWalk*), `LoadedImportsFirst`
(*DependencyFirst* and *OnceEach* of the walk, for the files marked loaded) and
`IndexesAgree` (*SameEnvironment*), for any files, imports and exports.  That an edge is a cycle only if its target brought the importer in follows
from the call stack.  That a duplicate is not one, and never becomes one, is the hard half:
edges added later could still lead from the target to the importer.  The invariant `Told`
keeps for each duplicate a set of loaded files that contains its target, not its importer,
and that no loading edge leaves (`Apart`).  A loaded file gets no further edges, so the set
stays closed.  `Built` is the rest, which holds until something is thrown: each call was
made by the import its caller is at (`Called`), the marks are those of the calls and of the
loaded files (`Marked`), every target is marked (`Known`), imports gone past are marked
(`Past`), a caller brought in those inside it and what it brought in besides is loaded
(`Brought`, `Inner`), and the two counts of *Complete* at each call (`Numbered`, `Counted`,
`Recorded`).  *SameEnvironment* follows from *Complete* and *EdgesTell*: the edges of the entry
are its imports in order, and the target of each is a module because the first edge to it
loaded.  The rest is about what a sequence has in a set of places, numbered by how many come
before (`PlaceIs`, `PlaceOf`), which is how the model says that a loop passes over what is
not asked for.  The assumption is `GraphAssumption` (the entry is a file, imports are
sequences, and no file imports the entry, whose identity is not a path).

`PathsAgree` (*JitAgrees*, in `VmMachineProofs` too), for any code and pool of strings.  The two
runs are compared while they last: the invariant `Abreast` says that in a first run of
code the JIT takes there is one activation, and its operands, the output and the error are
those of the first `pc` closures; once the run has ended, that no later closure does
anything (`StaysOver`).  Closures whose instruction the interpreter passes over one by one
need no care, but an error or the end does: the interpreter stops, the JIT's loop goes on.
`After` is a recursive function, and that there is one is proved by hand from the least
number at which there would be none (`PartsExist`, `OneByOne`), since the library's theorem
takes an operator.  The invariant and the assumption are those of the machine.

The discipline, in `VmMachineProofs` too: `DisciplinedCodeNeverFaults` (*NoMachineFault*),
`DisciplinedHandlersReachable` (*HandlersReachable*) and `DisciplinedVectorsEndClosed`
(*ClosedAtEnd*).  No bytecode is verified before it runs, and on arbitrary bytecode the
three are false (`vm_opcodes` runs such code).  `VmDiscipline!Follows` says what makes code
safe: each pc of a vector that can be come to has an outline (the operands above those the
innermost open `thử` found, whether the top one is a slot number, the blocks open, the
depth of each open switch, the handler of each open `thử` and the height it found), the
instruction there is one that finds what it needs, and what it leads to agrees with the
outline of the next pc.  For instance, what stands at the target of a jump holds for both ways there; a
call takes as many operands as are above the handler and leaves a value if each function of
that name does; a vector ends with all closed.  `Disciplined(image)` is that there are
such outlines.  The theorems say that a first run of a disciplined program, of any
length, with any number of modules and calls of any depth, has the three properties.

The invariant `SafeInv` adds `Held` to `IInv`: there is no fault of the machine's own,
every activation has restorable handlers, and the interpreting activation agrees with the
outline of its pc (`Stands`), each waiting one with outlines of the instruction behind its
call once the result has come (`Awaits`).  The strengthening is in `Guards`: an exception
cuts the stack to the height an outer `thử` saved, so it is not enough to know the height
now; each `thử` must have found at least the values that the outline puts between it and
the one around it, pairwise.  A step of a disciplined activation is then one of four:
it goes on to an outline the instruction leads to, it calls, it throws (to the innermost
handler's outline, or out of the activation), or it ends; there is a lemma for each group
of opcodes (`SwitchHeld`, `TryHeld`, `CallHeld`, …) and the four shapes of `IInv` are used
again.  What the discipline does not cover: `thoát`, which goes behind the next brace of the text
without closing its block, and so leaves blocks and switches open (section 5); a case label that
is a variable, which is a fault when it holds no number; calls of a variable
(`OP_GOI_GIAN_TIEP`), where the value says what is entered; and a second `run()` of one VM,
which starts with the operands, handlers and switches the first left (`Rerun`): after a
run that failed these may be anything.  Hence `runs = 1`.

That this is about real code is `CompiledCodeFollows`, an assumption of
`CompiledDiscipline` without free constants, which TLC evaluates in `vm_opcodes`: it
infers outlines for every program of `vm_programs` (`Verified`) and finds that
`Follows` holds of all of them but the three that call a variable (1031 of 1034).  No
theorem uses it.  For these programs the theorems and the run agree; that the
generator emits disciplined code for EVERY program would be an induction over syntax.

`CollectionsProofs`: `Equality` (*OneEquality*), `Texting` (*TextTells*) and `Typing`
(`TypeOK`, which is not a property of the run `collections`), for any number of cells, any
length of lists, any values and any order of the strings.  `TypeOK` is inductive as it
stands, and the other two hold in every state that has it: neither depends on how the
heap came about, so the theorems are about every shape of heap, circles included.

For *OneEquality*, each operation on lists is a fold or a recursion of the community
modules, whose value is a `CHOOSE` of a recursive function.  `IteratesExist` proves that
there is one, and a lemma for each operation what it does for one element more
(`UniqueSteps`, `SortedSteps`, …; alike, because a step cannot be a lemma's parameter).
From these, `Unique` and `Intersection` keep the first places of what they keep
(`UniqueIs`, `IntersectionIs`), so sizes are counted by counting places, and the union's
balance is the one of finite sets (`Counted`).  The smallest, the largest and the stable
sort are proved over the ranks of the elements (`RankIs`): numbers by their value, strings
by their place in `Order`.

For *TextTells*, that there IS a function `Written` is the claim that printing ends.  It
is proved by the number of cells that are not active yet (`Lefts`, `CellsInduction`): the
texts with k cells left are made from those with k - 1 (`WrittenOneMore`,
`WrittenSatisfies`), and each call leaves the active set as it found it
(`WrittenAnswers`).  The same induction gives that `<cycle>` is written if an active cell
or a circle is in sight (`TellsAlways`), and that a text with neither is the one that would
be written alone (`UnmovedAlways`).  What is
in sight is a least set closed under "holds" (`SightIs`, `SightWithin`), and whether it is
clear of circles follows for a collection from its parts and back (`ClearOfParts`,
`PartsOfClear`).

Left to TLC: liveness (*Terminates*, *NextComesBack*, *CloseComesBack*, *ClientReturns*,
*NextServes*).  What is recursive over syntax or data, which the provers cannot follow:
*Agrees* and `CompiledCodeFollows`, which are about compiled programs; and everything about
the frontend.

## 5. Where code and documents differ

These have a run that expects a violation.

* `vm_throw` – an error thrown in a called function is not caught by the caller's
  `thử`; it ends the program.
* `import_entry` – a module that imports the program's own file has it compiled and
  run a second time, as a module: the file a compilation starts from is never marked.
* `frontend_malformed` – `hàm f { in (a); } f(7);` is accepted and prints 7: the first
  parenthesis anywhere in a declaration is taken for its parameter list; and
  `trả về 1 2;` is accepted although its expression does not parse.
  `docs/architecture.md` 159–160 says that malformed cases are refused.  These are the
  two losses *NothingDropped* leaves out by name; it shows there is no third among the
  programs of `frontend`.

These were met on the way; the models have the behaviour, and no run is spent on it.

* After a `thoát` in a switch, what follows the switch in its block is not printed:
  the switch frame goes only when the block around it closes.
* A function with a parameter reads 0 for a global whose slot number is smaller than
  the parameter's: it falls inside the frame's local vector.  The variable of a
  `bắt lỗi` in a function is written to the global of its number and read as a local.
* A module's own variables are numbered from 0 and share one table with the entry's.
* A module that ends with a conditional whose condition is false fails with "jump out
  of range".
* `bỏ qua` before an inner loop goes on in the middle of that loop: the machine looks
  for the next update of the text (`VmMachine!OpBoQua`).
* The alias of an import is lost when another import brought the module in first
  (`Codegen`).
* `resetCompilationState` leaves the initializers of the registry: with the default
  registry they pile up from one compilation to the next (`ImportCompiler!Left`).
* The emitter resolves names by text.  Inside a class `p` a parameter `f` is taken for
  `p.f` when a slot or string of that spelling exists already, and a name that a module
  declares as a private function is taken for that function.  These are the two cases
  *NamesAgree* leaves out by name.
* Two servers that share the port of the file transport may both run a request they
  found at once, and the one that closes removes the `ready` file of the other
  (`FileTransport`, `shared`).
* The response to a client that has given up stays in its directory for ever.
* `writeAtomicFile` asks whether the stream is good before it is flushed.  When the disk is
  full, a request or response of less than a buffer is cut short and renamed all the same,
  and a client may return the piece as its answer (`FileTransport!Fill`, `cut`).
* When a file cannot be removed nobody is told: `next` hands out the same request again,
  and a piece of a request that cannot be removed keeps it busy for ever (`stuck`).

## 6. Not modelled

* In the machine: floats, and default values that are floats; calls of methods, the table of classes and
  native functions (an id or name that is a native function never reaches `Lookup`).
  Collections have a model of their own, which `VmMachine` does not use; a child VM's
  copy of the globals shares their cells in the code as in `Collections`.
* 32-bit overflow: values are integers; programs keep them small.
* `run()` filling an EMPTY name table from its own `OP_HAM` instructions: images whose
  code declares functions have a name table (`NamesAssumption`), as those the command
  line builds do; and the host adding modules between two runs.
* Path and package resolution of imports, and `ModuleInitializationTracker`, which
  nothing but its tests drives (the module table of the VM is `ModuleLifecycle`).
* The scanning of characters and the merging of keywords of several words: the lexer's
  tests cover them, and they have no state.  Source spans, messages and the dumps of AST
  and IR.
* `resolveFallbackCalls` of the analysis (`semantic.cpp` 867–908), which binds calls in
  statements whose expression did not parse; the gate refuses all of these but the
  return of section 5.
* `Emission` and `Codegen` are two models of one emitter: the first follows names through
  any program, the second instructions through a fragment.  Nothing joins them yet.
* Of the file transport: the environment variable that names the directory, tokens,
  parsing of URLs and of request files (a file is decodable when it is whole), and the
  temporary files that are left behind, which nobody looks for.
* Of collections: length, sum and other queries that change nothing, operations on strings,
  literals inside literals, `NaN` (for which `stackValueLess` is no order).
* Garbage collection, which only shrinks containers; the native library, SQLite and JSON,
  one-call wrappers and a parser left to its tests; the language server, formatter,
  linter and package commands of the command line.

## 7. Plan

Done: sections 2–5.  Next, most important behaviour first:

1. `Emission` and `Codegen` joined, so that programs of `Frontend` run on `VmMachine`.
2. Classes and methods: the table of classes, calls of methods in child VMs, with
   `Collections` as the values of the machine; `Int32` arithmetic at its boundaries.
3. The search for a module along directories and packages; the language server loop.

And among the proofs:

1. The discipline for a second run, from what the first left on its stacks.
