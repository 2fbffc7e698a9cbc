# A TLA+ development of the self-modifying calculator

The repository holds two programs that share a name and a file format. One is
the calculator itself, in Common Lisp: an evaluator that caches every result,
compiles its cache into a dispatch function, specializes its operators at run
time and writes its cache out as source. The other is a C library to embed:
an artifact cache and two dirty-state trackers behind a context handle, with a
small expression parser and entry points for generated code. This directory
models both with TLA+, checks the models with TLC, and proves the main
invariants with TLAPS. Paths below are relative to the repository.

## 1. Inventory

| Component | Source | State | Operations | Status |
|---|---|---|---|---|
| Artifact cache | `src/c/smc_artifact.c` | direct-mapped slots (header, key bytes, value bytes), counters | configure, store, lookup, remove, clear, statistics | modelled |
| Keyed dirty-state tracker | `src/c/smc_state.c` 1-213 | direct-mapped slots with the last state of a key, counters | configure, check, clear, statistics | modelled |
| Indexed tracker | `src/c/smc_state.c` 214-1187 | one buffer of snapshots, a validity byte per index, counters | configure, single check, strided batch diff, stream diff, clear, statistics | modelled |
| Result cache, compiled lookup | `src/core/cache.lisp`, `dispatch-compiler.lisp` | table, access stamps, compiled snapshot, compile bookkeeping | get, set, evict, clear, compile, save, load | modelled |
| Operator registry, optimizer | `evaluator.lisp`, `optimizer.lisp` | installed function and call counts per operator | wrap, record, specialize, call | modelled |
| Evaluator, levels, generated source | `evaluator.lisp`, `pipeline.lisp`, `self-writer.lisp` | evaluation in progress, level, hook, set counter, two files | evaluate, configure, rewrite, load, restart | modelled |
| Mathematical operators | `src/math/*.lisp` | none | pure functions | as the constant `Apply` |
| AST interning | `src/core/ast.lisp` | table of canonical nodes | intern, clear | modelled |
| Command line | `src/main.lisp` | none | load, evaluate, save | as requests |
| C runtime: contexts, variables, errors, statistics, level | `src/c/smc_runtime_stub.c` | global context, mutex, error slot, counters | init, shutdown, create, destroy, variables, level, evaluation calls, statistics | modelled |
| Tier 1 parser | `src/c/smc_runtime_stub.c` 259-452 | cursor | parse and evaluate | modelled |
| Tier 2 calls and their weak versions | `smc_runtime_stub.c`, `smc_generated_runtime.c` | shared counters | call, metadata | modelled: codes and counters |
| SBCL runtime | `src/c/smc_runtime_sbcl.c` | error slot | placeholder: every call refuses | modelled, as a build of the runtime |
| Lisp parser, parse cache | `src/interface/parser.lisp` | text to AST table | tokenize, parse, clear | modelled |
| C source generator | `scripts/generate-c-source.lisp` | none | cache to C functions | expressions modelled; the files around them are not |
| Glyph renderer | `examples/c/glyph_block_cache.c` | cells, screen, counters | configure, frame loop, summary | modelled |
| Other examples, benchmarks | `examples/c`, `tests/benchmarks` | | uses of the library | not modelled |
| Python binding | `python/smc/__init__.py` | context handle | marshalling | not modelled |

How they interact. A C caller owns a context; the context owns one artifact
cache, one keyed and one indexed tracker, each configured at most once and
independent of the others, with statistics that live in the context and not
in the table. All calls are synchronous: there are no callbacks, and the only
lock guards the global context. In the Lisp program everything meets in
`evaluate-node-cached`: it asks the compiled lookup, then the table, then
recurses through the registry, then stores; storing calls the hook, which
specializes operators (changing the registry the evaluation that is still
running uses) and writes files. Conditions unwind the whole evaluation.
The only thing the two programs exchange is the generated C source.

What is hard, and what makes each part correct:

* *Artifact cache.* Slots are reused without being scrubbed, the value sits
  behind a key of varying length, 32-bit hashes collide. It may forget, by
  collision only and never silently; it must not answer with anything but the
  value last stored under that very key. Its counters must explain its
  contents.
* *Keyed tracker.* The same slots in the other direction: forgetting a key is
  a false alarm and allowed, a change that is missed is not.
* *Indexed tracker.* One meaning, eight kernels: single checks, four batch
  kernels, four stream kernels with hand-written offsets. All have to report
  exactly the records that changed, store them whole, and count alike.
* *Result cache.* Two answers are kept for one expression, in the table and in
  a compiled snapshot of it taken earlier; eviction, clearing and overwriting
  change only the first.
* *Registry.* The function of an operator is replaced while calls of it run: an
  evaluation fetches it before it turns to the arguments, whose own calls may
  specialize the operator in the meantime. The wrapper that was fetched then runs
  all the same, counts into the fresh counts and may specialize once more.
* *C runtime.* Calls on the global context take its mutex on entry and must give
  it back on each of their ways out; calls with a context of their own and
  calls of generated code take none, but all write one error slot and one set of
  counters. What a value was computed from must not change while it is.
* *Parsers.* Two recursive descents, in C over characters and in Lisp over
  tokens, were written apart for one notation, one evaluating as it reads and
  the other building trees. Each has to read its own grammar, whole and in one
  way; they should differ in the grouping of powers and signs only.
* *Parse cache and interning.* A text is answered from a table that is emptied
  when full, before it is asked; equal expressions have to stay one object,
  since the result cache tells them apart by identity.
* *Generator.* The order of the arguments of a generated function, its arity and
  the printed body are computed by separate traversals.
* *Glyph renderer.* The one program of the repository that lives on both tables:
  what the tracker has seen it never reports again, so it must have been drawn,
  whatever the artifact cache forgot or refused in between.
* *Evaluator.* Results are stored on the way, hooks may fail after the store,
  files are loaded by a process at another level and with another bound than
  the one that wrote them. None of it may show in an answer.

`PROJECT.json` lists the hazards line by line, with the properties that watch
them.

## 2. Modules

```
LossyStore        ChangeDetector      IndexedDetector      MemolessEvaluator     (what is promised)
    ^                  ^                    ^                    ^
    | refines          | refines            | refines            | refines
ArtifactCache      DirtyState          IndexedState         Calculator
    \                 /                                      /        \
     DirectMapped (slots)                            ResultCache   OperatorTable
    |                  |                    |            CalculatorHistory (order of use)
    |                  |                    |                    |
MCArtifactCache    MCDirtyState        MCIndexedState       MCCalculator         (instances for TLC)
ArtifactCacheProofs DirtyStateProofs   IndexedStateProofs   CalculatorProofs     (theorems)
DirectMappedProofs (lemmas on slots)

Runtime   <- RuntimeHistory (what has happened)  <- MCRuntime (instance for TLC)
RuntimeProofs (theorems)

GlyphRenderer  uses LossyStore and ChangeDetector as the two tables it calls
MCGlyphRenderer (instance for TLC), GlyphRendererProofs (theorems)

ExpressionGrammar (reference)     Tier1Parser    LispParser    CGenerator
              \                        |             |            /
               \                       |         ParseCache      /
                `------------------ Syntax ---------------------'   <- MCSyntax
                            ParseCacheProofs (theorems)
```

**DirectMapped** is the slot of both keyed tables: home slot by hash modulo the
table size, the match of a probe (live, full hash, length, bytes), where key
and payload lie, what a write leaves of the bytes that were there before. Slots
are functions from byte positions to bytes, with nothing abstracted but the
width of the fields: stale bytes are what the hazards are about.
**ArtifactCache** and **DirtyState** are the two tables, one action per branch
of each C function, in the order of the guards; `reply` is what the call
returned, outputs that were not written being `NULL`. The bytes of freshly
allocated memory are any of `Uninitialized`. A call with a NULL payload is an
action of its own, since the code records its size without copying anything.

**IndexedState** models the buffer as bytes, and the diffs as what every kernel
computes: `BatchDirty`, `BatchCopied`, `StreamDirty` and `StreamCopied` are
translated from the kernels, and `FieldOffset` has the hand-written offsets of
the three specialised stream kernels next to the accumulated ones of the
generic kernel. `OffsetsLost` is the branch where the generic kernel has no
memory for its offsets.

**ResultCache** and **OperatorTable** are records with the operations on them:
the Lisp structures with the functions of `cache.lisp`, `dispatch-compiler.lisp`
and `optimizer.lisp`. A table is a function whose domain is the keys present.
**Calculator** composes them. The recursion of `evaluate-node-cached` is a stack
of frames (an operator node, the function fetched for it before its arguments,
and the arguments evaluated so far), so that each step is one lookup, one argument
or one application with the store and the hook that follow it; `calling` is the
node about to be looked up. Functions are data: a base function, a wrapper that
counts around it, or a specialized one with the clauses it was compiled with, so that a
frame can go on with one that the registry no longer has. The hook stops
at the first operator whose specialization signals an error (`Reached`), with
the entry already stored. `LoadEntry` stores the entries of a file one at a
time, since the hook may fail between two. `Restart` may happen at any step
and leaves the files only.
**CalculatorHistory** adds a record the code does not have, of which cached
expression was used before which. It is kept from the steps themselves: a hit, a
store and a load are uses, and whether a hit through the compiled lookup is one
is its constant. It takes no notice of the stamps of the cache and restricts nothing.

**Runtime** is the C runtime under threads. A call is taken in steps: `Enter`,
`Acquire` if it is one of those that lock (`Locks`), its branch of the code,
the writes to shared state that remain (`due`, in the order of the code, an
increment being a `Load` and a `Store`), and `Return`, which gives the mutex
back. An evaluation looks up one variable at a time and is known by the
variables it reads and how it ends. Bindings are written in one step: those of
the global context under the mutex, the others by their only thread. As
`include/smc.h` asks, an explicit context is used by one thread, and init,
shutdown and reset happen while nothing else runs. `build` never changes: it
says which of the two runtimes the program has, what `smc_call_*` is linked to,
and whether the ABI versions agree. To the placeholder of `smc_runtime_sbcl.c`
every call but the statistics is `CallUnsupported`, or does nothing at all.
**RuntimeHistory** adds variables the code does not have: the failures and the calls
with nowhere to put a float since the last reset, which the counters are to tell,
and whether calls have overlapped in what the code does not guard. They record
the steps of `Runtime` and restrict none of them.

**GlyphRenderer** is `examples/c/glyph_block_cache.c`, one action per call and
branch of its frame loop. It is composed with the promises of the two tables and
not with the tables: what the renderer must survive is all that `LossyStore` and
`ChangeDetector` allow, forgetting at any moment included, and a refused
configuration of either.

**Syntax** has no calls to take in turn: its state is a text that grows by a
token, and the properties compare what the code makes of the text with what
`ExpressionGrammar` says. That module is the reference: the notation by levels
of precedence, and `Trees`, the set of all trees that a text has at a level,
found by trying every way to split it. **Tier1Parser** and **LispParser** are the
two parsers function by function, with the position they stop at and their
error; a double is represented by the tree of operations that computes it.
The printer of `LispParser` keeps what the source loses: of a call of `vec3` it writes
three arguments, a missing one being an error, and a number that is not whole goes
through a single float (`Printed`). **CGenerator** prints the body of a generated
function and collects its arguments; a call of `vec3` becomes a comment and the
number 1.0. `PrintedTreesReadBack` and `GeneratedCodeComputesTheTree` say exactly
which expressions survive this.
**ParseCache** adds the two tables in front of the Lisp parser, with requests for
a few texts that fill them, fail, and repeat, and both of the clears. What the
parser makes of a text is its constant `Reading`, so that what is proved of the
tables holds for any parser; `Syntax` ties it to `LispParser` (`SyntaxAssumption`),
and its steps either take a step of the tables or leave them alone.

| Code | Module and definition |
|---|---|
| `cache-get`, `cache-touch` | `ResultCache!Hit`, `Touch` |
| `cache-set`, `cache-evict-lru` | `Stored`, `Oldest`, `Evict`, `Insert`; with the hook `Calculator!CacheSet` |
| `ensure-compiled-lookup` | `WithLookup`, taken by each of `HitCompiled`, `HitTable`, `Miss` |
| `wrap-operator-with-specialization` | `OperatorTable!AfterCall`, `Outcomes` |
| `specialize-operator` | `Specialized`, `Unspecializable` |
| `pipeline-cache-set-hook` | `CacheSet`, `Reached`, `HookFails`, `CountSet` |
| `evaluate`, `evaluate-node-cached`, `-uncached` | `Evaluate` ... `ApplyOperator` |
| `SMC_LOCK_GLOBAL`, `SMC_UNLOCK_GLOBAL` | `Runtime!Locks`, `Acquire`, `LockAfter` |
| `smc_eval_double_impl` | `Refuse`, `EvaluateNothing`, `ReadVariable`, `ReadUnbound`, `EndEvaluation` |
| `smc_call_double` and the others | `CallExpression` with `CallCode`, `CallCounters` |
| `smc_set_optimization_level` and its getter | `SetLevel`, `GetLevel` |
| `main` of the glyph renderer | `GlyphRenderer!CheckCell`, `LookupGlyph`, `StoreGlyph`, `BlitBlock`, `BeginFrame`, `EndFrame` |
| `smc_parse_expression` ... `smc_parse_primary` | `Tier1Parser!Expression` ... `Primary` |
| `parse`, `parse-cache-evict-if-needed`, `intern-ast` | `ParseCache!Parse`, `EvictIfNeeded`, `InternAst` |
| `emit-c-expression`, `expression-variables` | `CGenerator!EmitCExpression`, `ExpressionVariables` |
| `save-cache`, `load-cache`, generated source | `SaveCache`, `LoadFile`, `LoadEntry`, `CountSet` |

The complete correspondence, definition by definition with lines, is the "map"
of `PROJECT.json`.

The four abstract modules say what a caller may rely on. **LossyStore**: a map
that may drop entries at any moment and is exact otherwise. **ChangeDetector**:
the state last presented under a key may be forgotten, in which case the key
counts as changed. **IndexedDetector**: the same, with nothing ever forgotten
short of a clear; a diff of records with no memory for its work may lose them, as
a step of its own (`LoseDiff`), only where the caller's `MayLoseDiff` says so.
**MemolessEvaluator**: the answer to a steady expression (one whose meaning no
binding changes) is its meaning, or an error; of the others nothing is promised, since
the cache does not tell bindings apart.

Their replies do not name the arguments of the call. A refinement alone would
therefore let a check under one key pass for a check under another, so each of
the three properties for the C modules has two halves: the behaviours are
behaviours of the abstract module, and every single call, with the arguments it
was given, is that call of the abstract module (`CallsKeepTheirPromise`,
`ChecksKeepTheirPromise`, `CallsReportTheirRecords`, and
`StreamsReadWholeRecords` for streams).

Definitions marked "Faulty:" belong to no specification: each is what a
plausible slip in the code would make of the definition after it, and
`PROJECT.json` names the property that notices it.

## 3. Runs

| Run | Question | Bounds |
|---|---|---|
| `artifact_cache` | Are slots whole, losses and occupancy counted; is it a `LossyStore`, call by call? | 2 slots; keys of 0 to 2 bytes, two extending another, two with one full hash; payloads of at most 1 byte; 4 calls after configuration |
| `dirty_state` | Are slots whole, counters in agreement, forgetting counted; is it a `ChangeDetector`, call by call? | the same keys and slots, 4 calls |
| `indexed_state` | Do counters, reports and validity flags agree; is it an `IndexedDetector`, call by call; do all kernels, stream kernels included, read and store whole records? | 2 indices of 7 bytes, arrays and streams for 0 to 2 of them, the three special layouts, a generic one and one of 9 streams, failing allocations; 3 calls |
| `calculator` | Are answers those of a `MemolessEvaluator`, is the cache bounded, is the entry evicted the one used longest ago, does every call return? | 6 expressions: three differences nested in one another, all of which subtract the same numbers, a difference of a part with itself, one part plus a variable that is bound or not, and a division by zero; cache of 2, levels 1 and 3, compiled at a size of 1 and given up at 2, other thresholds 2; 5 requests, 1 restart |
| `runtime` | Is the mutex held exactly inside the calls that take it, is a value read at one moment, are failures and calls counted, do the two records of the last error agree? | 2 threads, 2 variables with room for 1, expressions that read twice and that fail late; five builds: stub, fallback and generated calls, an ABI mismatch, the placeholder; 4 calls |
| `glyph_renderer` | Is what the tracker takes as seen on the screen, does each frame end with the right picture, does the summary add up, does main return? | the cells, looks and frames of `GlyphRenderer.cfg`, tables that forget at any moment and refuse any call |
| `syntax` | Do both parsers read their grammars, agree but for powers; which expressions are read back as they were printed, which does generated code compute; do the parse cache and the intern table answer with the right object? | all texts of up to 5 of 12 tokens that a parser is still reading, and of up to 6 or 7 after the openings `x(`, `-(`, `2^(` and `2/(`; vectors of none to four arguments, within an operation and within a vector; a number no single float holds; a parse cache of 2, 4 texts asked for, at most 9 objects |

Five runs are expected to find a violation. Each shows that the program does
something else than its documentation or tests say:

| Run | What is found |
|---|---|
| `indexed_stream_memory` | With more than 8 streams and no memory for the offsets, a stream diff returns success with nothing dirty and nothing stored. `include/smc.h:552` says dirty records are marked and copied. |
| `calculator_stale` | `x+2` under x = 7 is answered with the value cached under x = 3. `tests/integration/test-integration.lisp:29` says bindings do not corrupt the cache. (The tests are written as bare forms whose values nobody looks at.) |
| `calculator_compiled_lru` | Hits through the compiled lookup leave no stamp, so that the entry in constant use is evicted. `docs/KNOWN-ISSUES.md:31` says the least recently used one is. |
| `runtime_counters` | Two threads call generated code: one loads `total_calls`, the other counts twice, the first stores, and the counter goes back. `include/smc.h:161` says counters are monotonically increasing, and line 347 that the calls may run concurrently. |
| `calculator_poisoned` | A division by zero repeated up to the threshold stays recorded; from then on the hook signals that error after every store, and every evaluation that misses the cache fails, whatever it computes. |

Why the bounds are enough. Two slots give every key a neighbour and a rival, and
the keys are chosen for every way to be confused: same slot, same hash, one a
prefix of the other. A lost or stale entry shows within a store, a colliding
store and a lookup, with a clear or a reset in between: four calls. In the
tracker with indices a report needs one observation and a diff, and a field left
stale by that diff shows in the next: three calls. For
the calculator, a cache of two entries with five expressions that can be
cached, one of them for the wrong bindings, evicts; compiled at a size of one and given up at two, it answers from a
snapshot, doubles, and goes on through the table alone, where the order of use
matters; the other thresholds of two are reached by one repetition, or within one
evaluation: the nested differences have equal arguments, so that the inner ones
specialize the operator while an outer call waits with the wrapper, which then counts into
the fresh counts and specializes the operator a second time. Five requests
are enough to raise the level, repeat a call, save, load and ask again.
What only a snapshot that survives an eviction does is in
`calculator_compiled_lru`. For the runtime, four calls of two threads are init,
a set, an evaluation that reads twice, and a set in between; two failures at once
need three. Five tokens are two operators with their operands, so that
every pair of precedences meets, a sign or a call among them; the openings put
them inside parentheses and arguments. A parse cache of two entries is full after
two texts, and four texts fill it, fail, share parts and come back.
In `MCIndexedState`, `SpellingAssumption` compares the record of a stream call as
the kernels find it, by offsets, with the fields written one after another.
Numbers are residues modulo 7, so that division has exact answers and an error.

Payloads that are NULL with a non-zero size are left out of the instances: that
they are not is a precondition of the calls (`src/c/smc_state.c:125` states it;
the code does not test it).

Fairness. The C tables need none, a call being one step; no liveness is claimed of
`Runtime`, where the scheduler and the mutex decide who goes on; what the code adds to it
(the mutex is given back, somebody can always go on, calls are short) is safety, checked
or proved. In `Calculator`,
`WF_vars(Work)`: evaluation runs in one thread that waits for nothing, so as
long as a step of it is possible it is taken. Requests of the user and restarts
are never assumed. `EveryCallReturns` is checked under just that. In
`GlyphRenderer`, `WF_vars(Next)`: a program of one thread that calls functions that
return, and takes its next step as long as it has one; `MainReturns` needs it.

In `calculator` the one variable is 1 or unbound. Answers to the expression with it may
be wrong (`calculator_stale` shows one), and the error it signals leaves an evaluation in
the middle; what the run checks is that neither spoils the answers to the others, which
share a part with it. Only requests for that expression bind the variable
(`BindsInVain`): to the others the bindings make no difference, and the instance is
smaller by half.

## 4. Proofs

TLAPS proves, for every table size, every set of keys, hash function, byte
range, record size and argument:

* `DirectMappedProofs`: lemmas on slots, used by both tables: what a write puts
  where, that a slot written spells the key and payload it was written with,
  that a well-formed slot matches no other key.
* `ArtifactCacheProofs`: `TypeCorrect` and `SlotsStayWellFormed`, from the
  inductive invariant that adds to the types that a live slot holds a whole
  entry of a key whose home it is. A lookup's reply is typed only because the
  recorded sizes never exceed the slot, which is why the two go together. From
  it follow `NoSilentLoss` (a key stops being retrievable only in a step that is
  counted), `OccupancyAccounting` (the change of the counters is the change of
  the number of live slots) and `CacheImplementsLossyStore`: the refinement,
  both the behaviours and each call with its arguments, for callers that pass NULL values with size zero only. Its
  core is that a write into a slot changes the contents under its own key and
  drops at most the key that was there.
* `DirtyStateProofs`: the same for the keyed tracker, the agreement of its
  counters, that forgetting is counted, and `TrackerImplementsChangeDetector`:
  the refinement, likewise in both halves, for callers that pass NULL with size zero only.
* `IndexedStateProofs`: types (the buffer included), agreement of the counters
  across all ways of observing, that only counted clears forget, and that what
  a diff reports is what it counts. The record size multiplies the counters, so
  the arithmetic is in lemmas of its own. `TrackerImplementsIndexedDetector` is the
  refinement, batches and streams, in both halves: what every kernel finds dirty is
  every record that is new or differs, and what it copies is that record and nothing
  else. For streams (`StreamsAreRecords`) this needs that the fields of a record, of
  any number and sizes that make up the record size, cover each byte exactly once;
  offsets are running sums, and the field a byte lies in is the least one that ends
  after it. (`LeastNatural` stands in for induction: finite sets are well-founded.)
  `StreamsObserveTheirRecords` proves what `indexed_stream_memory` refutes, for
  callers whose streams fit the array on the stack or whose memory never runs out.

* `RuntimeProofs`, for any number of threads: types; `MutexHeldInsideCalls`, from
  the invariant that whoever waits is about to make a call that locks; and
  `AnswersReadAtOnce`, for builds with the mutex: what an evaluation has read so
  far is still bound, since its context is its own or the global one under the
  mutex, so that no step of another thread writes bindings it depends on
  (`BindingsAreProtected`).
  With the history, for any number of threads and calls: `FailuresCounted`,
  `CallsCounted` and, for builds with the mutex, `ErrorsAgree`. First, what each
  call leaves to write comes in an order (`CountersInOrder`, `ErrorsInOrder`) that every
  branch of the code establishes and writing keeps. Then one invariant per
  theorem says by how much the counter, or the pair of records, is behind while
  a thread has it to write, and that there is at most one such thread: because it
  holds the mutex (`OneInside`), or else because the history says that two have met.
  `CountersOnlyGrow` is what remains of the claim that `runtime_counters` refutes:
  while no two calls have met in what is not guarded, no counter decreases but by a
  reset of all, since what a thread has loaded is still what is stored.
  `TablesNeverOverflow`: no context ever binds more than `MaxVariables` names. It is also
  what makes the two branches of setting a variable exhaust the cases, which
  `CallsNeverBlock` needs: whoever is in a call meets the guard of one of its steps
  (`CanGoOn`), or waits for the mutex and its holder does. `CallsAreShort` bounds the steps of
  a call by its reads and writes, which no other thread adds to. Together they say that
  calls on the global context come to an end if the scheduler runs the holder of the
  mutex and the mutex is fair to those that wait.

* `GlyphRendererProofs`, for any cells, frames and looks: types; `SeenStatesAreShown`,
  `FramesEndUpToDate` and `SummaryAddsUp`. The invariant says of each cell whether
  the loop has passed it, is at it or has not come to it, which of the three
  pictures (drawn, seen, current) agree, and how the counters stand in between.
  `MainRunsDown` is the safety half of `MainReturns`: every step leaves less to do, out of
  a number of steps that only depends on the cells and frames.

* `CalculatorProofs`, for any expressions, operators, thresholds and bounds: types,
  and `CacheNeverOutgrows`. Types already need the frames of an evaluation to lead
  from the expression asked to the node called, each frame waiting for the node of
  the next, and that only tuples with an outcome are counted, since specialization
  applies the operator to all of them. Where numbers that are = are the same
  (`SameNumbersAreEqual`) follow `SteadyAnswers` and `ImplementsMemolessEvaluator`, the
  refinement: every entry of the table, the compiled lookup, the files and the load in
  progress that belongs to a steady expression is its meaning, what a specialized
  function knows is what its operator computes - in the registry and in every frame that
  has fetched it, replaced since or not (`FramesKeepFunctions`) - and every frame of a
  steady expression holds the meanings of its first arguments. What is kept for other expressions may be
  wrong, and is: the invariant says that it never reaches a steady one, whose parts are
  steady too. Which expressions are steady is a matter of their variables:
  `MeaningsDependOnVariables` shows that bindings that agree on those of an expression and its parts
  give it one meaning, by the least height at which they could differ. `RightAnswers`
  is the claim that `calculator_stale` refutes, for programs where everything is
  steady. That = numbers be the same fails for exact and floating ones, and the
  instances compute with numbers of one kind.
  `ErrorsAreDeserved` is what `calculator_poisoned` refutes, under the hypothesis
  it shows to be needed: with `SpecializesNothingThatFails` (the level stays 1,
  or no operator of the pipeline can fail) an error answered is one the expression
  has, since no function that the registry or a frame has specializes on a failing
  tuple (`HarmlessFunctions`); `SteadyErrors` says it of steady expressions next to others.
  `CallsTakeFiniteTime` and `CallsNeverStall` are the safety half of `EveryCallReturns`.
  Each expression has a cost that covers those of its parts, as finite trees have
  (`IsCost`); what a call has left to do is the cost of the node called, what the frames
  that wait owe after it, and the entries of a load still to come. Every step within
  a call makes it smaller, a hit by the most; and while a call is in progress a step is
  possible, since a store finds room (`StoreSucceeds`: a full cache has an oldest
  entry to drop) and each operator some outcome. `LeastRecentlyUsedIsEvicted` is what `calculator_compiled_lru` refutes, where
  a hit through the compiled lookup is no use (`CompiledHitsCount` is FALSE): the
  stamps in the table are all different, none is later than the clock, and they
  order the entries as the history does (`OrderOfUse`), so that the oldest stamp is
  the earliest use, through loads, clears and restarts.

* `ParseCacheProofs`, for any texts, any parser and any size: `EqualExpressionsStayOneObject`
  and `CachingParsesIsInvisible`. The invariant says that the intern table leads
  from each structure to an object of that structure and that objects made since
  its last clear are all in it, and that what the parse cache has for a text is an
  object of its tree. Its core is the numbering of the objects of one parse: the new
  nodes are counted in the order in which they are made, which numbers them without gaps.

The assumptions are the named ones of the modules, which TLC evaluates in every
run: positive table sizes, a hash function into the naturals, well-formed byte
ranges; and, as hypotheses of the refinement theorems, `NullValueSizes` and
`NullStateSizes` within {0} for the two keyed tables, and `SameNumbersAreEqual` for the
answers and errors of the calculator, with `SpecializesNothingThatFails` for the
errors and, where a documented claim is about all expressions, `Steady = Nodes`;
that expressions are finite trees, as a cost (`IsCost`) or a height of each, for
`CallsTakeFiniteTime` and `MeaningsDependOnVariables`; `~CompiledHitsCount` for the
order of eviction; `Locking` for the reads and the error records of the runtime, and that calls never overlap where nothing guards
them (`[](~crossed)`) for `CountersOnlyGrow`; at most `StackStreams` streams wherever
memory may run out, for `StreamsObserveTheirRecords`. Five of them
are conditions under which a documented claim that a run refutes is true. Programs
meet four: no variables, all calls at level 1, one thread, records of at most 8 fields.
The fifth, `~CompiledHitsCount`, says what counts as a use.

Model-checked only: liveness (`EveryCallReturns`, `MainReturns`), as the provers here
reach neither ENABLED nor what fairness makes of a measure that decreases; proved of it
is that the measure decreases and, for the calculator, that a step is always
possible. And what `Syntax` says of the parsers, the printer and the
generator against the grammar: they are recursive operators, and what a recursive
definition computes for all inputs is beyond the provers too.

## 5. What is left out

* NULL contexts, configurations and output pointers beyond those named: early
  returns with an error code and no other effect.
* Wrap-around of `size_t` products, and indices beyond 32 bits.
* Caches other than the global one (`evaluate` takes one as an argument), and
  registering operators while the program runs.
* Operators that are not registered: `operator-function` signals an error before the arguments
  are evaluated.
* Files that cannot be written or are read half-written.
* In the runtime: the text of errors, reading the error slot and the statistics
  back (an unlocked copy), the level of explicit contexts, which nothing reads, and
  contexts shared by threads.
* In the parsers: how characters make a token. A numeral (`strtod` takes forms
  the Lisp tokenizer does not, such as `1.5.2` or a bare point), the length of an
  identifier, blanks, and the conversion of results to float and integer.
* In the generator: the file around the functions, the dispatch switch (its codes
  are in `Runtime!CallCode`) and how numbers are printed: `~F` of a double writes
  the shortest decimal that reads as that double, so that only what `coerce` rounds
  differs from the constant.
* Vectors in the generated C. `generate-c-source.lisp:148-151` says that the
  runtime has none and writes a comment and 1.0; such a function does not compute
  its expression, and with a `vec3` within a `vec3` the file does not compile, as
  comments do not nest. `GeneratedCodeComputesTheTree` says both.
* The Python binding, which converts arguments and raises errors by code, and the
  two ray and hot-path renderers, which use the calls of the glyph renderer with
  more parameters.
* The glyph renderer ignores the result of `smc_state_configure`; without memory
  for the tracker nothing is drawn and main reports success. `FramesShowTheCells`
  speaks of runs that have a tracker.
* In Lisp, the identity of AST nodes: an expression loaded from a file is the
  key it prints as. (In the program its parts are not interned.)
* Also noticed, with no run of their own: `save-cache` writes entries with
  variables too (`cache.lisp:131` says only ground ones); going back to level 1
  leaves the wrappers that specialize operators; `3.0-2.0` answers the integer
  once `3-2` is specialized, since `=` does not tell them apart;
  `load-cache` returns 0 always; a stream of size zero next to others is
  accepted (`include/smc.h:556-557` says it is not); NULL values and states of
  non-zero size are accepted; after `cache-clear` the compiled lookup goes on
  answering; `smc_last_error_with` ignores its context; a name or a table refused
  by `smc_set_variable_double` is returned but not recorded as the last error;
  every failed evaluation counts as a parse failure (`include/smc.h:170`);
  identifiers of 64 characters and more are cut and read another variable;
  `smc_call_float` and `smc_call_int` of the fallback do not count a call that
  has nowhere to put its result; the CMake build links the stub's versions of
  them and never the fallback's.

Where a document and the code disagree, with no run of their own:

* `src/interface/parser.lisp:102` calls powers right-associative; the loop below
  it groups them to the left (104-107), and so does `LispParser!MorePowers`. The
  C parser groups them to the right. Which of the two the Lisp system should do
  is not for this development to say: `LispReadsItsGrammar` asks for one grouping
  throughout and leaves the side open.
* `include/smc.h` says of `smc_get_optimization_level` that it returns 1 before
  initialization, and of `smc_expr_arity` that it returns 1 for an unknown ID;
  the code returns 0 for both.
* `include/smc.h` gives `smc_last_error_with` a slot per context; there is one.
* `docs/KNOWN-ISSUES.md:41` says a full parse cache is cleared before the next
  insertion; it is cleared before the next lookup, a hit included.
* The render loop of `docs/artifact-cache.md:149` passes `&cell`, the address of a
  pointer, as a state of `sizeof(CellState)` bytes; the example in `examples/c`,
  which is the one modelled, passes the cell.
* A division of one argument is printed by the generator as a negation
  (`generate-c-source.lisp:163-165`); the parser never makes one.

## 6. Plan

1. (done) `DirectMapped`, `ArtifactCache`, `DirtyState` with their abstractions
   and proofs; `IndexedState` with its kernels and proofs.
2. (done) `ResultCache`, `OperatorTable`, `Calculator`; `Runtime` with its proofs.
3. (done) `GlyphRenderer` with its proofs; the parsers, the parse cache and the
   generator in `Syntax`.
4. (done) `CalculatorProofs`: types, the bound of the cache, and, where bindings do
   not matter, that the answers are right.
5. (done) The refinement of `IndexedDetector`, batches and streams;
   `ParseCacheProofs`; the order of eviction, the errors and the counters, under the
   conditions where what is documented of them holds.
6. (done) Steady expressions next to others: what is cached under the wrong bindings
   stays with the expressions that have variables. Termination as far as it is safety, of
   the calculator, the renderer and the calls of the runtime; the tables of variables.
7. The result cache keyed by the objects of `ParseCache`, to see what clearing
   the intern table costs.
