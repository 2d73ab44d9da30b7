# A TLA+ development of llc, the L compiler

`lc` compiles programs written in L to LLVM bitcode, one object file per class,
and links them with a small run-time library. The compiler is itself written in
L (`*.l` at the top of the repository), the run time in C (`lrt-*.c`) and in L
(`lib/`). This directory holds TLA+ modules that model the parts of it whose
correctness depends on order, on failures or on what earlier runs left behind,
the TLC configurations that check them and the TLAPS proofs about them.

## 1. Inventory

| Component | State | Operations | Interacts with | What makes it correct |
|---|---|---|---|---|
| Compilation driver (`main.l`, `compilestate.l`) | class list, queues of work, `errors_occurred`, `CompileClassCount` | parse, passes, `compilePending`, `linkObjectFiles` | everything | exit status 0 means the program was built from the sources |
| Process pool (`compilestate.l` `ProcessPool`) | pipe, tickets, `count`, worker processes | `start`, `submit`, `wait` | driver; the workers write object files and exit | each class in exactly one worker; every failure reaches the exit status; the link starts after the last worker; the build ends |
| Object cache (`needcompile.l`, `compile2`, hash files of `compilestate.l`) | object, `.hash`, `.depend`, `.tmp` files and their times | `needCompile2`, `writeOrAssembleBitcode`, `dumpActiveClasses`, `WriteHashFile.write` | editors, earlier and crashed builds | an object file is reused exactly when it is what a compilation would write |
| Library info files (`.lh`) | class hashes of a library | `addLibraryInfoFile`, `NeedCompile` | pool workers share one open file | one whole line per class |
| GC root table (`lrt-unwind.c`) | 8 address ranges, the collector's root sets | `__add_root`, `__find_closest_root` | static initialisers of every class; the garbage collector | every registered global stays a root |
| Exception personality (`lrt-unwind.c`, `lrt-throw.cpp`) | language specific data areas, wrappers of thrown objects, the unwinder's phase | `__throw_exception`, `__l_personality`, `handleLsda` | code generated for `try`; the unwind library; the collector | an exception arrives at the innermost handler; both phases choose the same one; what is caught is alive |
| Signal handlers, allocation and finalisers (`lrt-exception.c`) | `__in_segv`, call frames | `__segv_handler`, `__alloc_object`, `__call_dispose`, `__stack_trace` | the exception classes, bdwgc | one fault becomes one exception; a fault within the handler ends the program |
| jay, the parser generator (`jay/`, `skeleton-l`) | symbols, items, rules; LR(0) states; lookaheads; packed tables; the parser's stacks | `reader`, `lr0`, `lalr`, `make_parser`, `output`, the driver's loop | builds lc's parser from `syntax-l.jay` | the generated parser accepts the grammar's language and runs each action on its own symbols |
| try/catch/finally lowering (`parsetry.l`, `parsetree.l`) | stack of exception descriptors, three temporaries per `try` | `compile`, `addLandingPad`, `rethrowOrDone` | personality | every `finally` runs once, innermost first, on every way out |
| Symbol table, types, templates (`symbol.l`, `container.l`, `type.l`, `parsedef.l`) | scopes, containers, instances | declare, find, expand, vtable layout | all passes | the expansion of template instances ends; overrides occupy the slot they override |
| Parser, lexer, code generation (`token.l`, `syntax-l.jay`, `parse*.l`) | syntax tree | translation | LLVM bindings | the generated code means what the source says |
| Library (`lib/`) | collections, streams, processes, serialisation, FastCGI, SQL | | | sequences, maps, byte streams |
| lgen, legacy back ends, llvm-ld | | | | not part of the LLVM build, or third-party |

The hard behaviours: processes that share a pipe, an inherited file and the
object directory; builds that are killed or throw between two file writes;
edits during a build; tools killed by a signal; nested `finally` clauses; the
two phases of unwinding; exceptions that a collector cannot see; tables at their
limit or shared by several owners. `PROJECT.json` lists them as
hazards, at the lines where they bite.

## 2. Plan

1. `ProcessPool`, the parallel build, with its proof. **Done.**
2. `BuildCache`, the object cache over a history of builds, with its proof.
   **Done.**
3. `GCRoots`, the run time's table of garbage collection roots, with its proof.
   **Done.**
4. `TryLowering`, the code generated for nested `try` statements, against
   `TrySemantics`, what the statement means, with the proofs that finally clauses
   run once and that the code implements the statement. **Done.**
5. `jay`: the whole parser generator, pass by pass, and the parser it generates,
   against the textbook definitions of what they compute. **Done**, model-checked,
   with proofs that the reader packs the file's rules and numbers its tokens.
6. `Lsda` and `Unwind`: throwing, the two-phase search over the call-site tables,
   landing pads, invalid accesses and the collector, with the proofs that the tables
   are read as written and that exceptions arrive where they should. **Done.**
7. `BuildAndLink`: the object cache together with the executable (a failed link
   followed by a skipped one), with its proof. **Done.**
8. Left. Models: the workers that append to one inherited `.lh` file; the
   collections of `lib/trusted` as refinements of sequences, sets and maps; the
   buffered streams; symbol table scopes, template expansion as a fixpoint, vtable
   layout.

The order is by what a wrong result costs: a build that reports success for a
program that was not built comes first.

## 3. The modules and the code

### ProcessPool

`lc -j<N>` forks N workers after all passes but code generation. Every process
walks the same list of classes; a worker compiles the class whose number is its
ticket. Tickets come from a pipe into which the parent writes
`0 .. job_count-1`. `job_count` counts generic templates, which are never
submitted, so the tickets beyond the classes ("spare" tickets) are what a worker
ends its walk on.

| Action | Code |
|---|---|
| `Fork`, `ForkFails`, `WriteTicket`, `Started` | `ProcessPool.start`, `writeTicketNumbers` in the parent |
| `FirstTicket` | `start` in a worker |
| `SubmitOther`, `SubmitMine`, `NextTicket` | `submit` in a worker; `SubmitMine` and `NextTicket` are split because the read after the compilation may block |
| `WorkerExit` | the worker's end of `compilePending`, through `Exit.exit` |
| `SubmitDirect`, `Submitted` | `submit` in the parent, with and without workers |
| `TailErrors`, `TailNoMain`, `TailMain`, `Wait`, `Waited`, `Link` | the rest of `compilePending`, `emitEntryPoint`, `ProcessPool.wait`, `linkObjectFiles`, `main` |

A class that is compiled ends as `written`, `lost` (`writeOrAssembleBitcode`
returns as if it had written the object file, but llc or as was killed by a signal,
for which `Process.run` returns 0, or `LLVMWriteBitcodeToFile` failed, whose result
is dropped), `current` (object file up to date), `skipped` (compiled without
writing, because the process has seen an error), `error` (reported, whether or not
an object file was written) or `thrown`. An interrupted system call and a failing
`pipe()`, `read()` or `wait()` are not modelled.

Two properties name what the code does not prevent. `SuccessMeansBuilt` lets a class
that is `lost` pass for built, and shows that nothing else does. `BuildEnds` excepts
`Abandoned`: all workers have ended while the parent still has more tickets to write
than the pipe has room for, which blocks it in `write()` because it holds the read
end itself. The workers may have died of exceptions, or have ended with status 0 on
spare tickets.

Fairness: weak fairness for the parent and for each worker. They are operating
system processes, each of which the scheduler runs while it can run; a blocked
`read`, `write` or `wait` is a disabled action. No fairness is assumed of the
choice among outcomes.

### BuildCache

One history of edits (`Edit`, possible at any moment, also during a build),
clock ticks and builds by one process. `Hash`, `Depends` and `Object` say what a
build derives from the sources: a class's definition hash covers its definition
and its superclass, its `.depend` file lists the classes its bodies use with
their hashes, and the object file is determined by the class's text and the
definitions it was compiled against. `Current` is `needCompile2`.

| Action | Code |
|---|---|
| `StartBuild` | parsing, the passes before code generation, `calcHash` |
| `Reuse`, `CompileError`, `WriteObject` | `ClassDef.compile2`, `writeOrAssembleBitcode` |
| `WriteTmp` | `dumpActiveClasses` |
| `WriteHash`, `RenameDepend` | `WriteHashFile.write`, called at the end of `compilePending`; two actions because a crash may fall between them |
| `Finish`, `Crash` | the end of `main`; a kill, or an exception that leaves `compilePending` |

`doubt` is a history variable that says why the cache files of a class may not
describe its object file: `unrecorded` (the build that wrote it has not reached
`RenameDepend`), `killed` (llc or as died of a signal, which `Process.run` reports as
status 0, or the bitcode could not be written, which nobody looks at), `unverified` (LLVM's verifier refused the
module, which is written nevertheless) and `edited` (saved after it was parsed).
These are the cases in which the code does reuse a wrong object file; the
properties are about all the others.

Hashes are taken to be injective, inheritance one level deep, files are written
whole (a torn `.hash` file is not modelled), and the set of classes is fixed.

### BuildAndLink

`BuildCache` composed with the executable: every step is a step of `BuildCache`
that also says what becomes of `CompileClassCount` (`counted`) and of the
executable (`exe`). `Overwrite` is the writing of an object file, after which an
executable linked earlier is `old`; `CountCompiledClass` the end of `compile2`;
`ErrorsOccurred`, `LinkObjectFiles`, `LinkFails` and `Cut` the ways a build can
end. A linker killed by a signal counts as one that succeeded, as in
`Process.run`. A build that ends before it has linked what it wrote leaves the
executable `abandoned`: the classes are recorded, so no later build compiles them
or counts them, and none links until some other class is compiled.
`ExecutableRight` names that case and the killed linker, and says that there is no
other way to a wrong executable and status 0. The model is of a build by one
process; that the count is lost under `-j` is the subject of `pool_skip`.

### GCRoots

The static initialiser of each class registers its static variables one by one
(`AddRoot`, the whole of `__add_root`). `FindClosestRoot` is
`__find_closest_root` with its three loops: the first root close enough, the
first unused root, and the "least bad" one, where the distance is a C `int`
(`ToInt`) and belongs to the root found so far (`LeastBad`). `GC_remove_roots` and
`GC_add_roots` stand for the collector's functions: removing drops the sets that
lie within the range, adding a range with a known start extends that set.
Addresses count words; a static variable's address is larger than
`MAX_DISTANCE`, so that a null root is never close to it, however the compiler
treats the arithmetic on null pointers. The collector cannot run between the
removal and the addition: nothing is allocated there and the initialisers run in
one thread.

### TryStatement, TrySemantics, TryLowering

`TryStatement` defines a method of nested `try` statements (a `shape`: for each
level its catch clauses, whether it has a finally clause, and the part of the
next outer one it stands in) and what such a method means; `TrySemantics` is
the state machine of that meaning. Sequences of statements do not appear: a part
may enter its inner `try` any number of times and may throw, return or end at
any moment, which covers loops and repeated calls.

`TryLowering` is the code the compiler emits. `Visible` is the stack of
exception descriptors while a part is compiled; `AtFinally`, `AtCatches` and
`AtHandler` are the blocks `finally_handler`, `catches_handler` and the handler
of a descriptor; each action is a piece of code up to the next statement of the
method.

| Action | Code |
|---|---|
| `Enter`, `EndBody`, `EndFinally` | `TryStatement.compile` |
| `Raise` | `ThrowStatement.compile` or any call: `callOrInvoke`, then `addLandingPad` |
| `ReturnValue` | `ReturnStatement.compile`, `throwReturn` |
| `EndCatch` | `Catch.compile` |
| `Done`, `RethrowOrReturn`, `RethrowOrDone` | `rethrowOrReturn` and `rethrowOrDone` |

The temporaries are not initialised by the compiler; `Junk` is what they hold, and
following it may do anything (`Wild`). `Refines` maps the temporaries of the
levels whose finally clause runs to the abstract completions. `rethrowOrDone`
does not hand on everything (see section 6), so the refinement is stated up to the
step that first loses something: `dropped` becomes true unless the exception in
`exception_object` is the one in flight and a clause around catches it. Beyond that
step only `FinallyOnce` is claimed.

The personality is assumed to send every L exception to the landing pad of the
call; foreign exceptions are left out. `break` and `continue` inside a `try` are
compile errors except in an outermost catch or finally clause, where they are
not modelled.

### JayReader, JayLR0, JayLALR, JayTables, Jay

One module per group of jay's passes, and `Jay`, which runs them in the order of
`main.c` and then runs the parser it generates.

| Module | Code | Abstraction |
|---|---|---|
| `JayReader` | `reader.c`, `symtab.c` | the file is a sequence of lexemes; comments, tags, `%type`, `%union`, literals of several characters and the text of actions are left out, of an action only the `$i` it mentions is kept; arrays grow by `ItemChunk` and `RuleChunk` instead of 300 and 100 |
| `JayLR0` | `lr0.c`, `closure.c`, `warshall.c` | a word is the set of its bits; `BITS_PER_WORD` is a parameter, so that small grammars need several words to a row |
| `JayLALR` | `lalr.c` | rows of `F` and `LA` are sets of tokens; Tarjan's traversal is kept step for step, with its stack and `INDEX` |
| `JayTables` | `mkpar.c`, `output.c` | conflicts, default reductions, default gotos, the sorting, matching and packing of vectors; `MAXTABLE` and `MAXSHORT` are left out |
| `Jay` | `main.c`, `skeleton-l` | the driver with its stacks, error flag and both kinds of tables; values on the stack are the symbols they belong to |
| `JayReference` | none | what the passes behind the reader are meant to compute, defined from the grammar without their algorithms |

The reader takes one step per lexeme, `lr0` one per state, the other passes one
each, the generated parser one per token read, shift or reduction. A C array that
the code fills in order is a sequence; a pointer to a bucket is its place in the
list. The input of the generated parser is every sequence of tokens, chosen token
by token. `LaterPass` is a later pass as the reader's state sees it: `main` goes
on and that state stays. `ReaderSpec`, the reader followed by any such passes, is
what the proofs about the reader are about. `SourceRules` in `JayReader` is the
reading of the file that the packed grammar is compared with; it is not jay's code.

Fairness: weak fairness of the generated parser's steps (`Parse`), which is a loop
in one thread that waits for nothing. `ParseEnds` needs no more.

### Lsda, Unwind

`Lsda` is how `handleLsda` reads the bytes of a language specific data area:
LEB128 numbers, the header, and the scan of the call-site table for the first
entry that covers an address. Its second half, marked external, is what LLVM
writes: the bytes of a list of call sites, in an encoding. `readULEB128` shifts an
`int`, so that it cuts off numbers of 2^31 and more; `Largest` says up to which
number an encoding is written and read exactly, and `Fits` (in `Unwind`) that a
method's offsets and the length of its table stay below that.

`Unwind` is the rest of an exception's life. The stack is a sequence of frames;
a method (`Code`) has points at which it calls or touches memory, each in a try
statement or not.

| Action | Code |
|---|---|
| `Call`, `Return` | generated code (`callOrInvoke`) |
| `ThrowNew`, `ThrowCaught` | `ThrowStatement.compile`, `__throw_exception`, `makeException` |
| `ThrowForeign` | code not written in L throws through L frames |
| `Fault`, `FaultInHandler`, `throwME` | `__segv_handler` up to `MemoryException.throwME`, split because the handler prints a stack trace that may fault or collect |
| `Collect` | a collection and the finalisers it runs (`__call_dispose`, which clears `__in_segv`); external |
| `Search`, `Cleanup` | the unwind library's two phases, each step a call of `__l_personality`; external but for the routine |
| `Land` | `addLandingPad` |
| `Match`, `Rethrow`, `EndCatch` | `Catches.compile`, `rethrowOrReturn`, `Catch.compile` |
| `uncaughtException` | `StartUp.run` |

A wrapper (`_Unwind_Exception`) is memory of `malloc`, which the collector does
not scan and nobody frees; only the frame of a catch clause keeps the exception
object itself alive. An object that is collected while a finally clause holds
nothing but its wrapper is `lost`, any other collected object `freed`. What the
nesting of try statements in one method means is `TryLowering`'s subject: here a
method has one level.

## 4. Runs

| Run | Shows |
|---|---|
| `pool` | One process, or a parent with 2 workers, 1 to 3 classes, 0, 1, 2 or 5 spare tickets, a pipe of 2 tickets, classes that fail or throw, errors before the fork. No class twice (`JobsOnce`), exit status 0 only if each class was current, written, or lost to a killed tool or a failed write of its bitcode (`SuccessMeansBuilt`), no link beside a live worker (`QuietAtLink`), the inductive invariant (`PoolInv`), and under fairness that the build (`BuildEnds`) and each worker (`WorkersEnd`) end when there is a spare ticket for each worker, unless the parent is left writing tickets with no worker alive (`Abandoned`) or a fork failed. |
| `pool_hang` | Violated: `AlwaysEnds`. With fewer spare tickets than workers some worker blocks for ever in `read()`. |
| `pool_skip` | Violated: `NotLinkingMeansNothingCompiled`. The parent's `CompileClassCount` is 0 under `-j`. |
| `cache` | Two classes, A using or extending B, B with two definitions; histories that begin with A using B; two edits, two clock values, any number of builds, crashes and failed links. `SafeReuse`, `NoNeedlessCompile` and `BuiltRight`, and `ExecutableRight` of the composition with the executable. |
| `cache_crash` | Violated: `SafeReuseAfterCrash`. A build killed between the object file and its `.hash` leaves an object file that a later build reuses wrongly. |
| `roots` | A table of three roots, `MAX_DISTANCE` 2, twelve addresses, in every order. Every variable stays scanned (`Covered`, `StaysScanned`), nothing far from a variable is scanned while a root is unused (`Tight`), and the walk of `GC.Roots` finds them all (`Listed`). |
| `roots_forced` | Violated: `ForcedIsClosest`. When the table is full the root that is widened need not be a closest one. |
| `try` | All methods of three nested `try` statements over two exceptions, one of a subclass, and clause lists of length 0 to 2. Finally clauses run once (`FinallyOnce`) and the code implements the meaning (`Refines`). |
| `try_nested` | Violated: `NoWildPointer`. An exception passing from an inner to an outer `try` of one method becomes an uninitialised pointer. |
| `jay` | 858 grammar files through every pass, and up to four tokens through the generated parser. The reader's arrays are never overrun (`ArraysLargeEnough`), the packed grammar is the file's (`PackedAsWritten`, `TokenValuesDistinct`), the states are the canonical collection (`StatesCanonical`), the lookaheads are exact (`LookaheadsExact`), all conflicts are reported (`ConflictsReported`), the packed tables say what the parser's actions say (`TablesEncodeParser`), the parser accepts the language (`AcceptsLanguage`), runs actions on their own symbols (`ActionSeesItsSymbols`) and ends (`ParseEnds`). |
| `jay_error` | Violated: `IrrecoverableErrorThrows`. On a syntax error the driver goes on with a table index in place of a rule number. |
| `unwind` | Stacks of three frames of four methods, three exceptions of any origin, collections at any moment, call-site tables in several encodings. The tables are read as they were written, in each of the nine encodings the code supports and with numbers of one to three bytes (`TablesReadRight`), the innermost handler gets the exception (`InnermostPad`), both phases agree (`PhasesAgree`), what is caught is alive (`CaughtIsAlive`), `__in_segv` is set exactly while it should be (`SegvFlagExact`), and a throw returns only at the top (`ReturnsOnlyAtTop`). |

Bounds. Two workers and three classes are the least with which a worker takes a
second ticket while another holds one, and a pipe of two tickets the least that
is both full and not empty; none, one or two spare tickets make `Enough` both true and false, and five are more
than two workers and the pipe can hold, so that both workers may end normally while
the parent is still writing.
Two classes, two edits and two clock values are the least with which a
definition changes and changes back around a build, and an edit falls in the
second in which an object file was written. Three roots are the least with which
the search for the least bad one makes a choice, and twelve addresses are enough
for ranges that overlap and for distances that wrap around the model's `int`. Three
levels are the least with which a jump skips a level and with which an exception is
handed on twice. jay's files are all grammars `S: alpha | beta; A: gamma` and
`S: alpha; A: beta | ; B: gamma |` with right-hand sides of up to two and exactly
three symbols, where left and right recursion, nullable chains, unit cycles,
useless symbols and both kinds of conflicts occur; to them come files for one
purpose each: precedences, a grammar that is LALR(1) and not SLR(1), one that is
LR(1) and not LALR(1), cycles of the includes relation, actions inside rules,
declared token numbers, text after the second `%%`, the error token, and files jay
refuses. Chunks of 4 items
and 3 rules overflow at every kind of insertion, words of 2 bits make every row
several words long, and stacks of 7 overflow. Three frames are the least with
which a search passes over a frame, a handler is found and another one lies
beneath; three exceptions, with which one is thrown while two earlier ones are
held by a catch and a finally clause.
`CHECK_DEADLOCK FALSE` is said of
the pool because a build ends and of the roots because the variables run out, and of
the try statements because a method ends; the cache's histories never do. jay and
the unwinder say where they stop (`Terminated`), so that there a deadlock is an error.

## 5. Proofs

The proofs hold for all values of the constants that satisfy the modules' named
assumptions (`PoolAssumption`, `CacheAssumption`, `NoneAssumption`, `RootsAssumption`,
`TryAssumption`, `JunkAssumption`, `JayReaderAssumption`, `UnwindAssumption`). TLC
evaluates these, and `WordAssumption` of `JayLR0`, on every run of the modules that
make them. Two say something about a program. `JayReaderAssumption` asks for room
for four items and three rules, which `initialize_grammar` writes without looking
(the code has 300 and 100), and takes the numbers of tokens and literals in a file
to be those a `short` holds and none to be negative, which is what the digits and
the characters of a file give and `symbol_value` stores. It also keeps the names
`$$1`, `$$2`... that `insert_empty_rule` makes up (all written `"$$"` in the model)
out of the file's own symbols; `is_reserved` refuses them there. `UnwindAssumption` says what the compiler does for the
unwinder: the table of call sites is true to the calls (a call in a `try` lies
within a call site, and a call site that meets a call has that call's landing pad),
its numbers fit the encoding, a landing pad leads to catch clauses or to a finally
clause, and every call of the entry point's body lies in a `try`, since
`StartUp.run` puts the program in one.

Where a proof needs induction over numbers it goes through the least counterexample:
a nonempty set of naturals has a least element (`WFMin` and
`NatLessThanWellFounded` of the library, applied to a set and not to a predicate).
`LsdaProofs` states this once as `Upward` and `Downward`. That a recursive function
exists at all, which its `CHOOSE` needs, is such an induction too.

**ProcessPoolProofs.** `PoolInv` is inductive (`PoolInvHolds`), and `JobsOnce`,
`SuccessMeansBuilt` and `QuietAtLink` follow from it. None of these is inductive
itself: that no class is compiled twice rests on how tickets move.
`PipeInv` says that the pipe holds the consecutive tickets from the oldest
unread one to the last written; `TicketInv`, that a worker's ticket has left the
pipe and is not behind its walk; `DistinctInv`, that no two workers hold the same
ticket; `ResultInv`, that a class whose ticket was read is either dealt with or
in exactly one worker's hands; `ErrorInv`, that a failure is remembered by
somebody until the parent has waited for him; `CountInv`, that `count` is the
number of workers still to be waited for. From these: a parent that exits
with 0 has waited for all workers, each of which ended without an error on a
ticket that names no class, so every class's ticket was read and its holder
dealt with it. `ExitZeroIsBuilt` says just that: with status 0 every class was found
current, was written, or was lost in a way its own process could not see. It does
not say that every object file exists: the code does not ensure it.

**BuildCacheProofs.** `CacheInv` is inductive. `RecordInv` says that the object,
`.hash` and `.depend` files of a class not in doubt describe one state of the
sources, perhaps an old one; `TextInv`, that an object file newer than its source has
the source's text; `ParsedInv`, that a source saved since it was parsed is newer
than its object file, or in doubt; `WorkInv`, what the build has written and not
yet recorded; `DoneInv`, that the classes the build is done with are right. The
step from these to `SafeReuse` is `Current`: equal hashes mean equal
definitions for the class itself, its superclass, the classes it uses and their
superclasses, which is all an object file depends on.

The second part of the module is about `BuildAndLink`. Every step of the composition
is one of `BuildCache`, so `CacheImplemented` carries all of the above over. `LinkedInv` is inductive: an
executable that is out of date belongs to a running build that has counted a
class, or is between the object file and the count. With `BuiltRight` it gives
`ExecutableRight`.

**GCRootsProofs.** `RootsInv` is inductive. `Covered` alone is not: the step
removes every set within the old range, including sets that other ranges put
there. `SetsInv` says that every range lies within one set of the collector and
every set within one range; a removed set lies within the old range and so within
the new one. `PrefixInv` (unused roots come last) gives `Listed`; the second half
of `RangeInv` (each word of a range is near a variable while a root is unused)
gives `Tight`. `AddRootSucceeds` says that `__find_closest_root` returns a root of
the table for every variable in every reachable state, so that no call fails or
writes beyond the table, also where differences of addresses do not fit the `int`
they are compared in: what the last loop carries from one root to the next is the
number of a root it has passed (`LoopRuns`, `LeastBadFound`).

**TryLoweringProofs.** `FinallyOnce` with `TypeOK` is inductive once it is stated
for the points between two pieces of the method's code too (`Open` covers
`"after"`). `Counted` is its form at a given level. The argument is about jumps
over several levels: control goes to the innermost descriptor on the stack
(`TopDescriptor`), and a level in between whose finally clause had not run would
have a descriptor of its own further in (`InnerOnesRan`); where no descriptor is
left, all have run (`AllRan`).

**TryRefinementProofs.** `TryRefined`: the generated code implements
`TrySemantics`, for every depth of nesting, every list of clauses and every
exception, up to the step that sets `dropped`. The mapping reads the temporaries of
the levels whose finally clause runs, so the steps need to know what is in them:
`TempsInv` says that a body runs with `exception_type` 1 and that a finally clause
that is to rethrow (2) has an exception in `exception_unwind`; it holds until
something is dropped. An initial state maps to an initial state. For a step,
the two sides go different ways: the meaning goes to the innermost level that has
a clause for the exception or a finally clause still to run (`Stops`), the code to
the innermost descriptor and from there from handler to handler. That these end at
the same place is the core (`StopSeen`, `ThrowStops`: such a level has a
descriptor, and one that is passed stops nothing), and then what each block leaves
in the temporaries is what the meaning has in its completions (`CatchLands`,
`FinallyLands`). The steps from the end of a finally clause to the
next statement of the method are stuttering steps: the mapping is already where they
will be (`AbstractAfter`).

**UnwindProofs.** Three invariants. `SegvInv` is inductive by itself and gives
`SegvFlagExact`: the finaliser of a collected exception is the one thing that
clears the flag, so one has to know that at most one exception is a fault that has
not been finalised. `PhaseInv` gives `PhasesAgree`: the frame the
search phase found would stop the second phase, no frame above it would, and the
tables do not change between. `WayInv` is about the way of an exception, with
`PhaseInv`: `Types`; `References` (a wrapper that a clause or the unwinder holds
refers to an exception that is alive, or lost in a finally clause); `Places` (every
frame but the last stands at a call, and the last one too unless it faulted
itself, so that the address the personality looks up lies in a call site);
`Arrival` (the frame found is the innermost one in a `try` when the exception was
thrown). From it follow `TypeOK`, `InnermostPad`, `CaughtIsAlive` and
`ReturnsOnlyAtTop`, for every program, stack and number of exceptions. What
`handleLsda` reads for a frame comes from `TablesAsWritten`, which is
`ReadsAsWritten` for all methods and encodings and, with `Places`, gives
`TablesReadRight` (`TablesRead`).

**LsdaProofs.** `LandingPadFound`: for every list of call sites, every supported
encoding that their numbers fit in, and every offset, the walk over the written
bytes ends with the landing pad of the first call site that has one and covers the
offset, or with 0. From the inside out: the digits of a number add up to it again
(`DigitsAddUp`, `NumberIs`); a LEB128 number ends at the first byte below 128 and,
if signed, does not look negative (`ReadsLEB128`); a number in any encoding is read
back with the pointer right behind it (`ReadsEncoded`); so are the four
numbers of a call site (`ReadsSite`) and the header (`ReadsHeader`). `Laid` says
where each entry of the table starts and what is read there, and `WalkStep` that
each turn goes from one to the next, having passed over none that covers the
offset. Entries of four bytes or more mean that the turns `LandingPad` allows are
enough (`EmitLaid`).

**JayReaderProofs.** `ArraysFit`: `pitem` and the rule arrays are never written
beyond their ends, for every grammar file and every size of the chunks.
`ArraysInv` adds to the property that the first item is a null pointer:
`insert_empty_rule` searches backwards for the start of the open rule,
moves what follows, and writes two items and a rule after its own test of the
sizes, so that the proof must know that the search ends within the array
(`OpenPart`) and that no more is written than was tested for.

`TokensDistinct`: a token whose number jay chooses shares it with no other token,
for any number of tokens, declared with any numbers in any order. Only the number
of `error` is excepted: jay gives it 256 without looking, and a file may declare
another token as 256. The numbers themselves are not truncated in the model: the
theorem speaks of files with too few tokens for the chosen numbers to exceed a
`short`. `TokensInv` says that the symbol table is a
sequence of buckets with a number or none, through every declaration and rule
(`DeclaredAll` takes the names of one declaration in turn), and that the numbers are
distinct once they are packed. The argument for packing: `Places` lists a set
of numbers in ascending order (`PlacesAre`, by ranks); one scan over ascending
declared numbers ends at a number that is none of them (`FreeIsFree`; unsorted it
need not, which is the mutant of the run); the numbers chosen grow from token to
token (`NumbersGrow`) and start above 256. `Recursion` gives the recursive functions
of the packing once and for all as functions with a step for each place.

`RulesPacked`: the packed grammar has the rules of the file (`PackedAsWritten`),
for every file, whatever mix of alternatives, actions and precedences it has.
`SourceRules` says what the rules of a file are by reading its lexemes once,
without jay's arrays: an alternative whose inner actions are still part of it is
`Settled` into the empty rules and the rule itself when it ends. jay does not wait
for that end. It rewrites its arrays at the symbol or action after the one that
turned out to be an inner action, which moves the open rule's items and number.
`RulesInv` is inductive together with `TokensInv`. It says for each part of the
reader where in the file it is (`Rest`: what is unread is the end of the file;
`Marked`: one mark has been passed) and that the arrays are those of the settled
rules read so far (`RulesFit`, with `last_was_action` exactly when the open
alternative ends in an action). That the arrays are those of some rules (`Fits`)
has four parts, for a list of places `at` at which the rules' items start: `Laid`,
the null pointers of `pitem` are at these places and nowhere else; `Spelled`, the
items between two of them have the names of the rule's symbols; `Used`, the symbol
of an empty rule occurs in the rule it was made for and nowhere else; `Heads`, the
rule arrays have the rules' left-hand sides. Each way of writing to the arrays has a
lemma for each part: an item is added (`LaidItem`, `SpelledItem`, `UsedItem`), a
rule begins (`...Rule`), and an empty rule is inserted before the open one
(`...Empty`), where all that was said of the open rule moves by one place.
Between `Settled` and the arrays stands `SettledMore`: with one symbol more
after an action, the settled rules get an empty rule before the last and the symbol
`$$` at its end. For packing, the buckets and the numbers of symbols are inverse to
each other where they need to be (`IndexBack`), `ends` lists the places `at`
(`RuleEnds`, by `PlacesUnique`), and from these the names, the end markers and the
users of a symbol are read back (`NamedAre`, `BodyAre`, `UsersAre`).

The three theorems are about `ReaderSpec` and not about `Jay`'s specification because
the other passes are recursive; each action of `Jay` is the reader's, a
`LaterPass`, or leaves the reader's state alone.

Only model-checked: the liveness properties `BuildEnds`, `WorkersEnd` and
`ParseEnds` (liveness under fairness is out of the prover's reach), and the
properties of jay other than `ArraysLargeEnough`, `TokenValuesDistinct` and
`PackedAsWritten`: `TypeOK`, `StatesCanonical`, `LookaheadsExact`,
`ConflictsReported`, `TablesEncodeParser`, `AcceptsLanguage` and
`ActionSeesItsSymbols`. What the passes behind the reader compute is defined by
recursion over grammars and automata, which takes induction over data to reason
about; `JayLR0`, `JayLALR`, `JayTables` and
`JayReference` therefore use recursive operators freely, and `Jay`, which extends
them, is beyond it as a whole. `JayReader`, `Lsda` and `Unwind` declare none.

## 6. What the checks found

* `lc -j` hangs when a program has fewer generic templates than workers
  (`pool_hang`): no process closes the write end of the pipe, so the end of file
  `readTicketNumber` handles never comes.
* `lc -j` does not link after compiling classes if the executable exists
  (`pool_skip`).
* A build cut short can make a later build reuse an object file compiled against
  other definitions (`cache_crash`).
* With all eight roots in use, `__find_closest_root` compares the distances of the
  wrong roots and can widen one that is not the closest (`roots_forced`).
* An exception or a return that leaves two `try` statements of one method is lost
  (`try_nested`): `rethrowOrDone` does not hand on `exception_unwind`, and the
  landing pad of a finally clause does not set `exception_object`. It works, and
  `Refines` shows that it does, when a catch clause of the inner `try` was looked
  at first and a clause of the next outer one catches the exception; that is the
  only case `etest/e009.l` and `etest/e010.l` try.
* The generated parser does not recover from a syntax error, nor does it throw
  (`jay_error`): after `yyerror` it reduces by `yyRindex[yyState] + yyToken`, which
  is an index and not a rule. `yyErrorFlag` is never set from 0, so the recovery
  code behind it is dead.

Seen while modelling, where no document says otherwise:

* An object file that was not written because llc or as was killed by a signal, or
  because `LLVMWriteBitcodeToFile` failed, goes unnoticed: lc may exit with status 0
  (`"lost"` in `ProcessPool`, `"killed"` in `BuildCache`).
* The parent of `lc -j` blocks for ever in `write()` if all workers have ended, even
  normally on spare tickets, while more than a pipeful of tickets is unwritten
  (`Abandoned`).
* After a link that failed, or a build killed before the link, lc goes on saying
  that nothing is to be done, with an executable of older object files
  (`exe = "abandoned"`).
* An exception that passes a finally clause during which a collection takes place
  may be gone when an outer catch clause looks at it (`"lost"` in `Unwind`).
* A second invalid access ends the program with "segv in segv" as long as the
  exception of the first has not been finalised, however long ago it was caught.
* For an access in the method itself the personality looks up the address before
  the faulting instruction, as it does for return addresses, and the access may be
  in no call site at all: which handler gets the exception is decided by the
  instruction in front of it.
* A foreign exception reaches the catch clauses as if it were an L object.
* A throw without any handler returns to the code behind it.

## 7. Not modelled

Parsing, type checking and code generation: a long sequential translation whose
correctness is that of the generated code. The LLVM bindings and the FastCGI, SQL,
kit and X11 libraries: foreign interfaces and I/O. lgen and the amd64 and x86 back
ends are not used by the LLVM build, and the table-driven unwinder of
`lrt-exception.c` (`findUnwindInfo`, `unwindStack` and their cache) has no caller in
it; its stack traces and demangler only print. llvm-ld is a copy of LLVM's linker
driver. Of jay: the characters of a grammar file, tags and `%union`, `verbose.c`,
the `MAXSHORT` and `MAXTABLE` limits and the text of messages; literals of several
characters, which are tokens without a value of their own; and `%type`, which sets
tags, but also enters the names it mentions into the symbol table (and marks literals
as tokens) and so can change the order in which symbols are numbered. A token number
that a file declares twice is modelled once in the sorted list that is scanned for
free numbers, where the code has it twice and passes both at once. Of the personality:
pc-relative and indirect encodings, which LLVM does not use for call sites. The
`.lh` file that the workers of `lc -j` share: what it ends up with depends on where
the stream cuts its buffer. The components the plan has left are listed in
section 2 and in `PROJECT.json`.
