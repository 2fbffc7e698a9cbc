------------------------------ MODULE Runtime ------------------------------
(***************************************************************************)
(* The C runtime under threads: life cycle, contexts, variables, Tier 1    *)
(* evaluation and Tier 2 calls, with what they share: the mutex of the     *)
(* global context, the slot of the last error and the statistics           *)
(* (smc_runtime_stub.c, and the callees of smc_call_* in                   *)
(* smc_generated_runtime.c and in generated code).  The library may be     *)
(* built with the placeholder smc_runtime_sbcl.c instead.                  *)
(*                                                                         *)
(* A call runs in steps: it takes the mutex if it is one of those that do, *)
(* reads variables one by one, and then writes the shared slot and         *)
(* counters, an increment being a load and a store.  The bindings of a     *)
(* context are written in one step, since they are the thread's own or     *)
(* under the mutex.  As include/smc.h asks, every explicit context is used *)
(* by the one thread it is named after, and init, shutdown and             *)
(* reset_stats are called while no other call runs.                        *)
(***************************************************************************)
EXTENDS Integers, Sequences, FiniteSets

CONSTANTS
  Threads,
  Global,         \* the global context
  Names,          \* variable names the table takes
  BadName,        \* a name it refuses: NULL, empty or too long
  Values,
  Expressions,    \* what Tier 1 is asked to evaluate
  CallKinds,      \* how Tier 2 is called
  MaxVariables,   \* SMC_MAX_VARIABLES
  Locking,        \* built with SMC_THREAD_SAFE
  Levels,         \* the optimization levels asked for
  Builds,         \* the ways the program may have been built
  NULL

Contexts == Threads \cup {Global}

(* An expression is known by the variables it reads, in order, and by how   *)
(* it ends when all are bound: with a value, or an error of the parser.     *)
ExpressionType == [reads : Seq(Names), end : {"OK", "PARSE", "EVAL", "INIT"}]

(* The runtime, what smc_call_* is linked to, and whether the linked table  *)
(* has the ABI version of the runtime.                                      *)
BuildType == [runtime : {"stub", "sbcl"},
              dispatch : {"stub", "fallback", "generated"},
              abiMatches : BOOLEAN]

ASSUME RuntimeAssumption ==
  /\ Global \notin Threads
  /\ BadName \notin Names
  /\ Expressions \subseteq ExpressionType
  /\ MaxVariables \in Nat
  /\ Locking \in BOOLEAN
  /\ Levels \subseteq Int
  /\ Builds \subseteq BuildType
  /\ NULL \notin Threads /\ NULL \notin Values /\ NULL \notin Expressions /\ NULL \notin Nat

VARIABLES
  build,        \* how the program has been built
  level,        \* level of the global context
  initialized,  \* g_initialized
  lock,         \* the thread that holds g_global_mutex, or NULL
  alive,        \* the threads that have created their context
  bound,        \* the variables of every context
  error,        \* code of g_last_error
  stats,        \* the counters of smc_global_stats
  lastCode,     \* its last_error_code
  at,           \* where every thread is in its call
  call,         \* the call
  seen,         \* the values its evaluation has read
  rc,           \* the code it will return
  due,          \* the writes to shared state it still has to make
  loaded        \* the counter it has loaded, or NULL

shared == <<build, level, initialized, lock, alive, bound, error, stats, lastCode>>
locals == <<at, call, seen, rc, due, loaded>>
vars   == <<shared, locals>>

Counters == {"total_calls", "generated_hits", "fallback_evals", "invalid_ids",
             "arity_errors", "invalid_calls", "parse_errors"}

ZeroStats == [c \in Counters |-> 0]

Codes == {"OK", "INIT", "PARSE", "EVAL", "NOT_IMPL", "INVALID", "ABI", "ARITY",
          "NOT_FOUND"}

Unbound == [x \in Names |-> NULL]

(* Writes to shared state, in the order a call makes them.                  *)
Increment(c)   == [to |-> "counter", what |-> c]
(* Faulty: the statistics miss the errors of the parser.                    *)
SetErrorHalfway(code) ==
  <<[to |-> "slot", what |-> code]>>
    \o (IF code = "PARSE" THEN << >> ELSE <<[to |-> "last_code", what |-> code]>>)

SetError(code) == <<[to |-> "slot", what |-> code], [to |-> "last_code", what |-> code]>>

NoCall == [op |-> "none", ctx |-> Global, expr |-> NULL, name |-> BadName, value |-> NULL,
           level |-> 0]

Init ==
  /\ build \in Builds
  /\ level = 0
  /\ initialized = FALSE
  /\ lock = NULL
  /\ alive = {}
  /\ bound = [c \in Contexts |-> Unbound]
  /\ error = "OK"
  /\ stats = ZeroStats
  /\ lastCode = "OK"
  /\ at = [t \in Threads |-> "idle"]
  /\ call = [t \in Threads |-> NoCall]
  /\ seen = [t \in Threads |-> << >>]
  /\ rc = [t \in Threads |-> "OK"]
  /\ due = [t \in Threads |-> << >>]
  /\ loaded = [t \in Threads |-> NULL]

-----------------------------------------------------------------------------
(* Entering and leaving a call.                                             *)

Quiescent == \A t \in Threads : at[t] = "idle"

LockingOps == {"eval", "set", "clear", "set_level", "get_level"}

(* Faulty: setting a variable does not take the mutex.                      *)
LocksToEvaluate(c) == Locking /\ c.ctx = Global /\ c.op \in LockingOps \ {"set"}

(* The calls on the global context that take its mutex.                     *)
Locks(c) == Locking /\ c.ctx = Global /\ c.op \in LockingOps

Enter(t, c) ==
  /\ at[t] = "idle"
  /\ at' = [at EXCEPT ![t] = IF Locks(c) THEN "waiting" ELSE "running"]
  /\ call' = [call EXCEPT ![t] = c]
  /\ UNCHANGED <<shared, seen, rc, due, loaded>>

Acquire(t) ==
  /\ at[t] = "waiting"
  /\ lock = NULL
  /\ lock' = t
  /\ at' = [at EXCEPT ![t] = "running"]
  /\ UNCHANGED <<build, level, initialized, alive, bound, error, stats, lastCode>>
  /\ UNCHANGED <<call, seen, rc, due, loaded>>

(* The call has its result; what it still has to write is in effects.       *)
Conclude(t, code, effects) ==
  /\ at' = [at EXCEPT ![t] = "returning"]
  /\ rc' = [rc EXCEPT ![t] = code]
  /\ due' = [due EXCEPT ![t] = effects]
  /\ UNCHANGED <<call, loaded>>

(* Faulty: the early return of an uninitialized library keeps the mutex.    *)
LockAfterReturn(t) == IF lock = t /\ rc[t] # "INIT" THEN NULL ELSE lock

(* The mutex on the way out.                                                *)
LockAfter(t) == IF lock = t THEN NULL ELSE lock

Return(t) ==
  /\ at[t] = "returning"
  /\ due[t] = << >>
  /\ lock' = LockAfter(t)
  /\ at' = [at EXCEPT ![t] = "idle"]
  /\ call' = [call EXCEPT ![t] = NoCall]
  /\ seen' = [seen EXCEPT ![t] = << >>]
  /\ rc' = [rc EXCEPT ![t] = "OK"]
  /\ UNCHANGED <<build, level, initialized, alive, bound, error, stats, lastCode, due, loaded>>

-----------------------------------------------------------------------------
(* Writes to shared state, none of them guarded by a lock of its own.       *)

NextIs(t, kind) == at[t] = "returning" /\ due[t] # << >> /\ Head(due[t]).to = kind

Done(t) == due' = [due EXCEPT ![t] = Tail(@)]

Load(t) ==
  /\ NextIs(t, "counter")
  /\ loaded[t] = NULL
  /\ loaded' = [loaded EXCEPT ![t] = stats[Head(due[t]).what]]
  /\ UNCHANGED <<shared, at, call, seen, rc, due>>

Store(t) ==
  /\ NextIs(t, "counter")
  /\ loaded[t] # NULL
  /\ stats' = [stats EXCEPT ![Head(due[t]).what] = loaded[t] + 1]
  /\ loaded' = [loaded EXCEPT ![t] = NULL]
  /\ Done(t)
  /\ UNCHANGED <<build, level, initialized, lock, alive, bound, error, lastCode, at, call, seen, rc>>

WriteError(t) ==
  /\ NextIs(t, "slot")
  /\ error' = Head(due[t]).what
  /\ Done(t)
  /\ UNCHANGED <<build, level, initialized, lock, alive, bound, stats, lastCode>>
  /\ UNCHANGED <<at, call, seen, rc, loaded>>

WriteLastCode(t) ==
  /\ NextIs(t, "last_code")
  /\ lastCode' = Head(due[t]).what
  /\ Done(t)
  /\ UNCHANGED <<build, level, initialized, lock, alive, bound, error, stats>>
  /\ UNCHANGED <<at, call, seen, rc, loaded>>

-----------------------------------------------------------------------------
(* Tier 1 evaluation and variables.                                         *)

Running(t, op) == at[t] = "running" /\ call[t].op = op

(* A context that is not there stands for NULL as well.                     *)
Usable(c) == c = Global \/ c \in alive

(* The checks at the head of the calls: the library for the global context  *)
(* and for every evaluation, the context for an explicit one.               *)
Refused(t) ==
  \/ ~Usable(call[t].ctx)
  \/ ~initialized /\ (call[t].ctx = Global \/ call[t].op = "eval")

Refuse(t) ==
  /\ at[t] = "running" /\ call[t].op \in LockingOps \ {"get_level"}
  /\ Refused(t)
  /\ Conclude(t, "INIT", SetError("INIT"))
  /\ UNCHANGED <<shared, seen>>

EvaluateNothing(t) ==
  /\ Running(t, "eval") /\ ~Refused(t)
  /\ call[t].expr = NULL
  /\ Conclude(t, "INVALID", SetError("INVALID"))
  /\ UNCHANGED <<shared, seen>>

Reading(t) ==
  /\ Running(t, "eval") /\ ~Refused(t)
  /\ call[t].expr # NULL
  /\ Len(seen[t]) < Len(call[t].expr.reads)

NextValue(t) == bound[call[t].ctx][call[t].expr.reads[Len(seen[t]) + 1]]

(* Faulty: an unbound variable is read for what its slot holds.             *)
ReadUnchecked(t) ==
  /\ Reading(t)
  /\ seen' = [seen EXCEPT ![t] = Append(@, NextValue(t))]
  /\ UNCHANGED <<shared, at, call, rc, due, loaded>>

ReadVariable(t) ==
  /\ Reading(t)
  /\ NextValue(t) # NULL
  /\ seen' = [seen EXCEPT ![t] = Append(@, NextValue(t))]
  /\ UNCHANGED <<shared, at, call, rc, due, loaded>>

(* Faulty: only errors of syntax are counted.                               *)
FailUncounted(t, code) ==
  Conclude(t, code, SetError(code)
             \o (IF code = "PARSE" THEN <<Increment("parse_errors")>> ELSE << >>))

(* Every failure of the parser is counted as a parse error, an unbound      *)
(* variable and a division by zero included.                                *)
FailEvaluation(t, code) ==
  Conclude(t, code, SetError(code) \o <<Increment("parse_errors")>>)

ReadUnbound(t) ==
  /\ Reading(t)
  /\ NextValue(t) = NULL
  /\ FailEvaluation(t, "EVAL")
  /\ UNCHANGED <<shared, seen>>

EndEvaluation(t) ==
  /\ Running(t, "eval") /\ ~Refused(t)
  /\ call[t].expr # NULL
  /\ Len(seen[t]) = Len(call[t].expr.reads)
  /\ IF call[t].expr.end = "OK" THEN Conclude(t, "OK", << >>)
     ELSE FailEvaluation(t, call[t].expr.end)
  /\ UNCHANGED <<shared, seen>>

Used(c) == {x \in Names : bound[c][x] # NULL}

(* A full table takes new values for the names it has.                      *)
SetVariable(t) ==
  LET c == call[t].ctx
      n == call[t].name
  IN
  /\ Running(t, "set") /\ ~Refused(t)
  /\ n # BadName
  /\ n \in Used(c) \/ Cardinality(Used(c)) < MaxVariables
  /\ bound' = [bound EXCEPT ![c][n] = call[t].value]
  /\ Conclude(t, "OK", << >>)
  /\ UNCHANGED <<build, level, initialized, lock, alive, error, stats, lastCode, seen>>

(* These two failures are returned but not recorded as the last error.      *)
SetRefused(t) ==
  /\ Running(t, "set") /\ ~Refused(t)
  /\ \/ call[t].name = BadName /\ Conclude(t, "INVALID", << >>)
     \/ /\ call[t].name # BadName
        /\ call[t].name \notin Used(call[t].ctx)
        /\ Cardinality(Used(call[t].ctx)) >= MaxVariables
        /\ Conclude(t, "EVAL", << >>)
  /\ UNCHANGED <<shared, seen>>

ClearVariables(t) ==
  /\ Running(t, "clear") /\ ~Refused(t)
  /\ bound' = [bound EXCEPT ![call[t].ctx] = Unbound]
  /\ Conclude(t, "OK", << >>)
  /\ UNCHANGED <<build, level, initialized, lock, alive, error, stats, lastCode, seen>>

-----------------------------------------------------------------------------
(* The optimization level of the global context.  Its getter never fails:   *)
(* it answers 0 before the library is initialized.                          *)

Clamped(n) == IF n < 1 THEN 1 ELSE IF n > 3 THEN 3 ELSE n

SetLevel(t) ==
  /\ Running(t, "set_level") /\ ~Refused(t)
  /\ level' = Clamped(call[t].level)
  /\ Conclude(t, "OK", << >>)
  /\ UNCHANGED <<build, initialized, lock, alive, bound, error, stats, lastCode, seen>>

GetLevel(t) ==
  /\ Running(t, "get_level")
  /\ Conclude(t, "OK", << >>)
  /\ UNCHANGED <<shared, seen>>

-----------------------------------------------------------------------------
(* Tier 2 calls, and those the stub answers with "not implemented": neither *)
(* takes the mutex.                                                         *)

(* The generated table has functions of doubles only: floats and integers   *)
(* keep the weak ones of the runtime.                                       *)
Linked(kind) ==
  IF build.dispatch = "generated" /\ kind \in {"float", "null_float"} THEN "stub"
  ELSE build.dispatch

(* The return code of a Tier 2 call and the counters it increments.  One    *)
(* that has nowhere to put a float is not counted as a call.                *)
CallCode(kind) ==
  CASE Linked(kind) = "stub" -> "NOT_IMPL"
    [] Linked(kind) # "stub" /\ kind \in {"null_out", "null_float"} -> "INVALID"
    [] Linked(kind) = "generated" /\ kind = "hit" -> "OK"
    [] Linked(kind) = "generated" /\ kind = "unknown_id" -> "NOT_FOUND"
    [] Linked(kind) = "generated" /\ kind = "wrong_arity" -> "ARITY"
    [] OTHER -> "NOT_IMPL"

CounterOf ==
  [OK |-> "generated_hits", NOT_FOUND |-> "invalid_ids", ARITY |-> "arity_errors",
   NOT_IMPL |-> "fallback_evals", INVALID |-> "invalid_calls"]

(* Faulty: a call is counted before it is looked at.                        *)
CountedFirst(kind) == <<"total_calls", CounterOf[CallCode(kind)]>>

CallCounters(kind) ==
  IF CallCode(kind) = "INVALID" /\ kind = "null_float" THEN <<"invalid_calls">>
  ELSE <<"total_calls", CounterOf[CallCode(kind)]>>

CallExpression(t) ==
  LET kind == call[t].name IN
  /\ Running(t, "call")
  /\ Conclude(t, CallCode(kind),
              [i \in 1 .. Len(CallCounters(kind)) |-> Increment(CallCounters(kind)[i])]
                \o (IF Linked(kind) = "stub" THEN SetError("NOT_IMPL") ELSE << >>))
  /\ UNCHANGED <<shared, seen>>

(* The placeholder records its errors in the slot only.                     *)
Recorded(code) ==
  IF build.runtime = "sbcl" THEN <<[to |-> "slot", what |-> code]>> ELSE SetError(code)

CallUnsupported(t) ==
  /\ Running(t, "unsupported")
  /\ Conclude(t, "NOT_IMPL", Recorded("NOT_IMPL"))
  /\ UNCHANGED <<shared, seen>>

(* Asking for the statistics, and giving nowhere to put them.               *)
GetStats(t) ==
  /\ Running(t, "stats")
  /\ Conclude(t, "INVALID", Recorded("INVALID"))
  /\ UNCHANGED <<shared, seen>>

-----------------------------------------------------------------------------
(* Contexts and the life cycle of the library.                              *)

CreateContext(t) ==
  /\ Running(t, "create")
  /\ \/ /\ alive' = alive \cup {t}
        /\ bound' = [bound EXCEPT ![t] = Unbound]
        /\ Conclude(t, "OK", << >>)
        /\ UNCHANGED <<build, level, initialized, lock, error, stats, lastCode, seen>>
     \/ /\ Conclude(t, "INIT", SetError("INIT"))
        /\ UNCHANGED <<shared, seen>>

DestroyContext(t) ==
  /\ Running(t, "destroy")
  /\ alive' = alive \ {t}
  /\ Conclude(t, "OK", << >>)
  /\ UNCHANGED <<build, level, initialized, lock, bound, error, stats, lastCode, seen>>

InitLibrary ==
  /\ Quiescent /\ ~initialized
  /\ \/ /\ build.runtime = "stub" /\ build.abiMatches
        /\ initialized' = TRUE
        /\ level' = 1
        /\ bound' = [bound EXCEPT ![Global] = Unbound]
        /\ error' = "OK" /\ lastCode' = "OK"
     \/ /\ build.runtime = "stub" /\ ~build.abiMatches
        /\ error' = "ABI" /\ lastCode' = "ABI"
        /\ UNCHANGED <<initialized, level, bound>>
     \/ /\ build.runtime = "sbcl"
        /\ error' = "NOT_IMPL"
        /\ UNCHANGED <<initialized, level, bound, lastCode>>
  /\ UNCHANGED <<build, lock, alive, stats, locals>>

Shutdown ==
  /\ Quiescent
  /\ initialized' = FALSE
  /\ UNCHANGED <<build, level, lock, alive, bound, error, stats, lastCode, locals>>

ResetStats ==
  /\ Quiescent
  /\ stats' = ZeroStats
  /\ lastCode' = "OK"
  /\ UNCHANGED <<build, level, initialized, lock, alive, bound, error, locals>>

-----------------------------------------------------------------------------
EvalCall(c, e)   == [NoCall EXCEPT !.op = "eval", !.ctx = c, !.expr = e]
SetCall(c, x, v) == [NoCall EXCEPT !.op = "set", !.ctx = c, !.name = x, !.value = v]
ClearCall(c)     == [NoCall EXCEPT !.op = "clear", !.ctx = c]
TableCall(kind)  == [NoCall EXCEPT !.op = "call", !.name = kind]
OtherCall(op)    == [NoCall EXCEPT !.op = op]

LevelCall(n)     == [NoCall EXCEPT !.op = "set_level", !.level = n]

(* What a thread may call: on the global context or on its own.  It creates *)
(* a context when it has none, and destroys it once.                        *)
StubCalls(t) ==
  {EvalCall(c, e) : c \in {Global, t}, e \in Expressions \cup {NULL}}
    \cup {SetCall(c, x, v) : c \in {Global, t}, x \in Names \cup {BadName}, v \in Values}
    \cup {ClearCall(c) : c \in {Global, t}}
    \cup {LevelCall(n) : n \in Levels}
    \cup {TableCall(kind) : kind \in CallKinds}
    \cup {OtherCall(op) : op \in {"get_level", "unsupported", "stats",
                                  IF t \in alive THEN "destroy" ELSE "create"}}

(* To the placeholder every other call is unsupported or does nothing.      *)
CallsOf(t) ==
  IF build.runtime = "stub" THEN StubCalls(t)
  ELSE {OtherCall(op) : op \in {"unsupported", "stats"}}

(* What a call does by itself, once it has been made.                       *)
Step(t) ==
  \/ Acquire(t) \/ Return(t)
  \/ Load(t) \/ Store(t) \/ WriteError(t) \/ WriteLastCode(t)
  \/ Refuse(t)
  \/ EvaluateNothing(t) \/ ReadVariable(t) \/ ReadUnbound(t) \/ EndEvaluation(t)
  \/ SetVariable(t) \/ SetRefused(t) \/ ClearVariables(t)
  \/ SetLevel(t) \/ GetLevel(t)
  \/ CallExpression(t) \/ CallUnsupported(t) \/ GetStats(t)
  \/ CreateContext(t) \/ DestroyContext(t)

(* What the program asks for.                                               *)
Ask == \E t \in Threads : \E c \in CallsOf(t) : Enter(t, c)

Request == Ask \/ InitLibrary \/ Shutdown \/ ResetStats

Next == Request \/ \E t \in Threads : Step(t)

Spec == Init /\ [][Next]_vars

-----------------------------------------------------------------------------
CallType ==
  [op : LockingOps \cup {"none", "call", "unsupported", "stats", "create", "destroy"},
   ctx : Contexts, expr : Expressions \cup {NULL},
   name : Names \cup {BadName} \cup CallKinds, value : Values \cup {NULL},
   level : Int]

Write == [to : {"counter"}, what : Counters]
           \cup [to : {"slot", "last_code"}, what : Codes]

TypeOK ==
  /\ build \in Builds
  /\ level \in 0 .. 3 /\ (initialized => level > 0)
  /\ initialized \in BOOLEAN
  /\ lock \in Threads \cup {NULL}
  /\ alive \subseteq Threads
  /\ bound \in [Contexts -> [Names -> Values \cup {NULL}]]
  /\ error \in Codes /\ lastCode \in Codes
  /\ stats \in [Counters -> Nat]
  /\ at \in [Threads -> {"idle", "waiting", "running", "returning"}]
  /\ call \in [Threads -> CallType]
  /\ seen \in [Threads -> Seq(Values)]
  /\ rc \in [Threads -> Codes]
  /\ due \in [Threads -> Seq(Write)]
  /\ loaded \in [Threads -> Nat \cup {NULL}]

InGlobal(t) ==
  /\ at[t] \in {"running", "returning"}
  /\ call[t].ctx = Global
  /\ call[t].op \in LockingOps

(* The mutex is held exactly while a call on the global context is past its *)
(* entry: no early return leaves it behind, so that nobody waits for it     *)
(* forever, and none lets a second call in.                                 *)
MutexIsHeldInsideCalls ==
  Locking => \A t \in Threads : lock = t <=> InGlobal(t)

(* docs/embedding-roadmap.md:336-337: an evaluation that succeeds has read  *)
(* all its variables, however often and in whatever order, as they stand at *)
(* one moment, the one in which it returns: no other thread, and no other   *)
(* context, interferes with the bindings it is reading.                     *)
AnswersReflectOneMoment ==
  \A t \in Threads :
    at[t] = "returning" /\ call[t].op = "eval" /\ rc[t] = "OK" =>
      /\ Len(seen[t]) = Len(call[t].expr.reads)
      /\ \A i \in 1 .. Len(seen[t]) :
           seen[t][i] = bound[call[t].ctx][call[t].expr.reads[i]]

(* include/smc.h:160-161 on the counters: "All counters are monotonically   *)
(* increasing unsigned values", and smc_call_* is "safe to call             *)
(* concurrently from multiple threads" (347).                               *)
CountersNeverDecrease ==
  [][ \A c \in Counters : stats'[c] >= stats[c] \/ stats' = ZeroStats ]_vars
=============================================================================
