----------------------------- MODULE Calculator -----------------------------
(***************************************************************************)
(* The self-modifying calculator: the evaluator (src/core/evaluator.lisp)  *)
(* over its result cache (ResultCache) and its operator registry           *)
(* (OperatorTable), the optimization levels that tie them together         *)
(* (src/core/pipeline.lisp), and the files the cache is saved to and       *)
(* loaded from (cache.lisp, self-writer.lisp).                             *)
(*                                                                         *)
(* The recursion of evaluate-node-cached is a stack of frames, each an     *)
(* operator node with the function fetched for its operator, which is      *)
(* before any argument is evaluated, and the arguments evaluated so far,   *)
(* so that one step is one lookup, one argument or one application.  A     *)
(* condition signalled anywhere unwinds the whole stack and leaves what    *)
(* was stored before.                                                      *)
(*                                                                         *)
(* One cache, the global one, is modelled.                                 *)
(***************************************************************************)
EXTENDS ResultCache, OperatorTable

CONSTANTS
  Op,                 \* the operator of every node
  Args,               \* its arguments: nodes, constants and variables
  Envs,               \* the variable bindings passed to evaluate
  Meaning,            \* the value of every node under every binding, or ERROR
  Steady,             \* expressions on whose meaning the bindings have no bearing
  PipelineOps,        \* the operators specialized by the pipeline, in order
  Levels,             \* the levels passed to configure-optimization
  RewriteThreshold,   \* *pipeline-source-rewrite-threshold*: 50
  RewriteInterval,    \* *pipeline-source-rewrite-interval*: 100
  NULL

(* What evaluate is asked.                                                  *)
Asked == [node : Nodes, env : Envs]

(* An argument is an operator node, a constant or a variable.               *)
IsNode(a)     == a.kind = "node"
IsConstant(a) == a.kind = "constant"

(* constant-value, variable-value: an unbound variable is an error.         *)
AtomValue(a, e) ==
  IF IsConstant(a) THEN a.value
  ELSE IF a.name \in DOMAIN e THEN e[a.name] ELSE ERROR

(* What an argument means, and all of those of a node.                      *)
ArgMeaning(a, e) == IF IsNode(a) THEN Meaning[a.node][e] ELSE AtomValue(a, e)

ArgMeanings(n, e) == [i \in 1 .. Len(Args[n]) |-> ArgMeaning(Args[n][i], e)]

(* The meaning of a node is its base function applied to the meanings of    *)
(* its arguments, which are errors as soon as one of them is.  What is      *)
(* steady means the same under all bindings, and so do its parts.           *)
ASSUME CalculatorAssumption ==
  /\ Op \in [Nodes -> Operators]
  /\ \A n \in Nodes : \A i \in 1 .. Len(Args[n]) :
       LET a == Args[n][i] IN
       \/ IsNode(a) /\ a.node \in Nodes
       \/ IsConstant(a) /\ a.value \in Values
       \/ a.kind = "variable"
  /\ \A n \in Nodes : Len(Args[n]) \in Nat
  /\ \A e \in Envs : \A x \in DOMAIN e : e[x] \in Values
  /\ \A n \in Nodes, e \in Envs :
       Meaning[n][e] =
         IF \E i \in 1 .. Len(Args[n]) : ArgMeanings(n, e)[i] = ERROR THEN ERROR
         ELSE Apply(Op[n], ArgMeanings(n, e))
  /\ \A n \in Nodes : \A args \in [1 .. Len(Args[n]) -> Values] :
       Apply(Op[n], args) \in Values \cup {ERROR}
  /\ Steady \subseteq Nodes
  /\ \A n \in Steady :
       /\ \A e, f \in Envs : Meaning[n][e] = Meaning[n][f]
       /\ \A i \in 1 .. Len(Args[n]) : IsNode(Args[n][i]) => Args[n][i].node \in Steady
  /\ PipelineOps \in Seq(Operators)
  /\ Levels \subseteq 1 .. 3
  /\ RewriteThreshold \in Nat /\ RewriteInterval \in Nat
  /\ NULL \notin Nodes \cup Asked

VARIABLES
  cache,       \* *global-cache*
  registry,    \* *operator-table* and the specialization states
  level,       \* *pipeline-level*; the cache-set hook is set from 2 on
  sets,        \* *pipeline-set-count*
  cacheFile,   \* cache.sexp, as entries
  sourceFile,  \* cache-literals.lisp, as entries
  loading,     \* the entries of a file still to be loaded
  asked,       \* the evaluation in progress, or NULL
  calling,     \* the node evaluate-node-cached was called with, or NULL
  stack,       \* the nodes whose arguments are being evaluated, innermost last
  answer       \* what the last evaluation returned or signalled

files   == <<cacheFile, sourceFile>>
control == <<asked, calling, stack, answer>>
vars    == <<cache, registry, level, sets, files, loading, control>>

Init ==
  /\ cache = EmptyCache
  /\ registry = BaseRegistry
  /\ level = 1
  /\ sets = 0
  /\ cacheFile = NoEntries /\ sourceFile = NoEntries
  /\ loading = NoEntries
  /\ asked = NULL /\ calling = NULL /\ stack = << >> /\ answer = NULL

Idle == asked = NULL /\ loading = NoEntries

-----------------------------------------------------------------------------
(* Storing a result: cache-set with its hook.                               *)

Failing(r) == {i \in DOMAIN PipelineOps : Unspecializable(r, PipelineOps[i])}

(* The operators the hook gets to before one signals an error.              *)
Reached(r) == {PipelineOps[i] : i \in {i \in DOMAIN PipelineOps :
                                         \A j \in Failing(r) : i < j}}

HookFails(r) == level >= 2 /\ Failing(r) # {}

(* pipeline-rewrite-source writes the table out once it is large enough.    *)
CountSet(c) ==
  IF sets + 1 >= RewriteInterval /\ Size(c) >= RewriteThreshold
    THEN sets' = 0 /\ sourceFile' = c.table
    ELSE sets' = sets + 1 /\ UNCHANGED sourceFile

(* The entry is stored before the hook runs, and stays if the hook fails.   *)
CacheSet(n, v, r) ==
  \E c \in Stored(cache, n, v) :
    /\ cache' = c
    /\ registry' = IF level >= 2 THEN Specialized(r, Reached(r)) ELSE r
    /\ IF level >= 3 /\ ~HookFails(r) THEN CountSet(c) ELSE UNCHANGED <<sets, sourceFile>>
    /\ UNCHANGED <<level, cacheFile>>

-----------------------------------------------------------------------------
(* Evaluation.                                                              *)

Top == stack[Len(stack)]

(* Faulty: the value of an argument is not kept.                            *)
DeliverDropped(v, frames) ==
  /\ calling' = NULL
  /\ IF frames = << >>
       THEN /\ asked' = NULL
            /\ answer' = [asked |-> asked, value |-> v]
            /\ stack' = << >>
       ELSE stack' = frames /\ UNCHANGED <<asked, answer>>

(* A value is an argument of the innermost frame, or the answer.            *)
Deliver(v, frames) ==
  /\ calling' = NULL
  /\ IF frames = << >>
       THEN /\ asked' = NULL
            /\ answer' = [asked |-> asked, value |-> v]
            /\ stack' = << >>
       ELSE /\ stack' = [frames EXCEPT ![Len(frames)].args = Append(@, v)]
            /\ UNCHANGED <<asked, answer>>

(* A condition unwinds the evaluation.                                      *)
Signal ==
  /\ calling' = NULL
  /\ asked' = NULL
  /\ answer' = [asked |-> asked, value |-> ERROR]
  /\ stack' = << >>

Evaluate(n, e) ==
  /\ Idle
  /\ asked' = [node |-> n, env |-> e]
  /\ calling' = n
  /\ answer' = NULL
  /\ UNCHANGED <<cache, registry, level, sets, files, loading, stack>>

(* evaluate-node-cached asks the compiled lookup first, ...                 *)
HitCompiled ==
  LET c == WithLookup(cache) IN
  /\ calling # NULL
  /\ calling \in DOMAIN c.compiled
  /\ cache' = [c EXCEPT !.hits = @ + 1]
  /\ Deliver(c.compiled[calling], stack)
  /\ UNCHANGED <<registry, level, sets, files, loading>>

(* ... then the table, ...                                                  *)
HitTable ==
  LET c == WithLookup(cache) IN
  /\ calling # NULL
  /\ calling \notin DOMAIN c.compiled
  /\ calling \in DOMAIN c.table
  /\ cache' = Hit(c, calling)
  /\ Deliver(c.table[calling], stack)
  /\ UNCHANGED <<registry, level, sets, files, loading>>

(* ... and then evaluates the node: the function of the operator is fetched *)
(* here, and the arguments are evaluated after that.                        *)
Miss ==
  LET c == WithLookup(cache) IN
  /\ calling # NULL
  /\ calling \notin DOMAIN c.compiled \cup DOMAIN c.table
  /\ cache' = [c EXCEPT !.misses = @ + 1]
  /\ stack' = Append(stack, [node     |-> calling,
                              function |-> registry.installed[Op[calling]],
                              args     |-> << >>])
  /\ calling' = NULL
  /\ UNCHANGED <<registry, level, sets, files, loading, asked, answer>>

Evaluating == stack # << >> /\ calling = NULL

Incomplete == Evaluating /\ Len(Top.args) < Len(Args[Top.node])

NextArg == Args[Top.node][Len(Top.args) + 1]

(* Faulty: an unbound variable evaluates to whatever the lookup returned.   *)
TakeAtomUnchecked ==
  /\ Incomplete
  /\ ~IsNode(NextArg)
  /\ Deliver(AtomValue(NextArg, asked.env), stack)
  /\ UNCHANGED <<cache, registry, level, sets, files, loading>>

TakeAtom ==
  /\ Incomplete
  /\ ~IsNode(NextArg)
  /\ IF AtomValue(NextArg, asked.env) = ERROR
       THEN Signal ELSE Deliver(AtomValue(NextArg, asked.env), stack)
  /\ UNCHANGED <<cache, registry, level, sets, files, loading>>

Descend ==
  /\ Incomplete
  /\ IsNode(NextArg)
  /\ calling' = NextArg.node
  /\ UNCHANGED <<cache, registry, level, sets, files, loading, asked, stack, answer>>

(* The function fetched is applied, though the evaluation of the arguments  *)
(* may have specialized the operator since; the result is stored, and the   *)
(* hook run.                                                                *)
ApplyOperator ==
  /\ Evaluating /\ ~Incomplete
  /\ LET op == Op[Top.node]
         r  == AfterCall(registry, Top.function, op, Top.args)
     IN  \E v \in Outcomes(registry, Top.function, op, Top.args) :
           IF v = ERROR
             THEN /\ registry' = r
                  /\ Signal
                  /\ UNCHANGED <<cache, level, sets, files>>
             ELSE /\ CacheSet(Top.node, v, r)
                  /\ IF HookFails(r) THEN Signal
                     ELSE Deliver(v, SubSeq(stack, 1, Len(stack) - 1))
  /\ UNCHANGED loading

-----------------------------------------------------------------------------
(* The operations between evaluations.                                      *)

ClearCache ==
  /\ Idle
  /\ cache' = Cleared(cache)
  /\ UNCHANGED <<registry, level, sets, files, loading, control>>

(* configure-optimization.  Going back to level 1 removes the hook and      *)
(* leaves the registry as it is.                                            *)
Configure(l) ==
  /\ Idle
  /\ level' = l
  /\ registry' = IF l >= 2
                   THEN Wrapped(registry, {PipelineOps[i] : i \in DOMAIN PipelineOps})
                   ELSE registry
  /\ UNCHANGED <<cache, sets, files, loading, control>>

SaveCache ==
  /\ Idle
  /\ cacheFile' = cache.table
  /\ UNCHANGED <<cache, registry, level, sets, sourceFile, loading, control>>

(* load-cache and load-generated-cache-source store every entry of a file.  *)
LoadFile ==
  /\ Idle
  /\ loading' \in {cacheFile, sourceFile}
  /\ UNCHANGED <<cache, registry, level, sets, files, control>>

LoadEntry(n) ==
  /\ n \in DOMAIN loading
  /\ CacheSet(n, loading[n], registry)
  /\ loading' = IF HookFails(registry) THEN NoEntries ELSE Without(loading, n)
  /\ UNCHANGED control

(* The process ends, at any time, and is started again: only files remain.  *)
Restart ==
  /\ cache' = EmptyCache
  /\ registry' = BaseRegistry
  /\ level' = 1
  /\ sets' = 0
  /\ loading' = NoEntries
  /\ asked' = NULL /\ calling' = NULL /\ stack' = << >> /\ answer' = NULL
  /\ UNCHANGED files

(* What the user does, and what the calculator does for it.                 *)
Request ==
  \/ \E n \in Nodes, e \in Envs : Evaluate(n, e)
  \/ ClearCache
  \/ \E l \in Levels : Configure(l)
  \/ SaveCache
  \/ LoadFile

Work ==
  \/ HitCompiled \/ HitTable \/ Miss
  \/ TakeAtom \/ Descend \/ ApplyOperator
  \/ \E n \in DOMAIN loading : LoadEntry(n)

Next == Request \/ Work \/ Restart

Spec == Init /\ [][Next]_vars

(* Work goes on until the call returns: nothing waits for anything.         *)
Fairness == WF_vars(Work)

-----------------------------------------------------------------------------
Frames == [node : Nodes, function : Functions, args : Seq(Values)]

TypeOK ==
  /\ CacheType(cache, Values)
  /\ RegistryType(registry)
  /\ level \in 1 .. 3
  /\ sets \in Nat
  /\ \A file \in {cacheFile, sourceFile, loading} : Table(file, Nodes, Values)
  /\ asked \in Asked \cup {NULL}
  /\ calling \in Nodes \cup {NULL}
  /\ stack \in Seq(Frames)
  /\ answer \in [asked : Asked, value : Values \cup {ERROR}] \cup {NULL}

(* However evaluation, loading, clearing and failing hooks follow each      *)
(* other, a bounded cache never outgrows its bound.                         *)
CacheStaysBounded == MaxSize > 0 => Size(cache) <= MaxSize

(* A value answered is the meaning of the expression under the bindings it  *)
(* was asked with.                                                          *)
AnswersAreRight ==
  answer # NULL /\ answer.value # ERROR =>
    answer.value = Meaning[answer.asked.node][answer.asked.env]

(* An expression that means something is never answered with an error.     *)
NoSpuriousErrors ==
  answer # NULL /\ answer.value = ERROR =>
    Meaning[answer.asked.node][answer.asked.env] = ERROR

(* Caching, compiling, specializing, saving and loading are invisible in    *)
(* the answers to steady expressions, whatever else is asked in between     *)
(* under whatever bindings.                                                 *)
Abstract == INSTANCE MemolessEvaluator

AnswersAsIfComputed == Abstract!Spec

(* Every evaluation and every load comes to an end.                         *)
EveryCallReturns == ~Idle ~> Idle
=============================================================================
