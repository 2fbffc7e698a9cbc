--------------------------- MODULE RuntimeProofs ---------------------------
(***************************************************************************)
(* Proofs about Runtime and RuntimeHistory, for any number of threads: the *)
(* types, that the mutex is held exactly inside the calls that take it,    *)
(* and from that that an evaluation reads the bindings of one moment; then *)
(* that counters and error records agree.  That part rests on the order in *)
(* which a call writes what it owes, and on who else may be writing the    *)
(* same: a thread with a failure to count holds the mutex, and calls that  *)
(* overlap without it are recorded in the history.  Last, the tables of    *)
(* variables keep within their size, and no call lacks a step to take or   *)
(* takes more of them than its own work needs.                             *)
(***************************************************************************)
EXTENDS RuntimeHistory, FiniteSetTheorems, SequenceTheorems, TLAPS

-----------------------------------------------------------------------------
(* The writes a call still has to make are writes.                          *)

LEMMA SetErrorType == \A code \in Codes : SetError(code) \in Seq(Write)
<1>. SUFFICES ASSUME NEW code \in Codes
              PROVE  SetError(code) \in Seq(Write)
  OBVIOUS
<1>1. [to |-> "slot", what |-> code] \in Write
  BY DEF Write
<1>2. [to |-> "last_code", what |-> code] \in Write
  BY DEF Write
<1>. QED  BY <1>1, <1>2 DEF SetError

LEMMA IncrementType == \A c \in Counters : Increment(c) \in Write
BY DEF Increment, Write

LEMMA NothingDue == << >> \in Seq(Write)
OBVIOUS

LEMMA FailureType ==
  \A code \in Codes : SetError(code) \o <<Increment("parse_errors")>> \in Seq(Write)
<1>. SUFFICES ASSUME NEW code \in Codes
              PROVE  SetError(code) \o <<Increment("parse_errors")>> \in Seq(Write)
  OBVIOUS
<1>1. SetError(code) \in Seq(Write)
  BY SetErrorType
<1>2. Increment("parse_errors") \in Write
  BY IncrementType DEF Counters
<1>. QED  BY <1>1, <1>2

(* A Tier 2 call increments counters that there are, and returns a code.    *)
LEMMA CallOutcome ==
  ASSUME NEW kind
  PROVE  /\ CallCode(kind) \in {"OK", "NOT_FOUND", "ARITY", "NOT_IMPL", "INVALID"}
         /\ CallCounters(kind) \in Seq(Counters)
<1>1. CallCode(kind) \in {"OK", "NOT_FOUND", "ARITY", "NOT_IMPL", "INVALID"}
  BY DEF CallCode
<1>2. /\ "total_calls" \in Counters /\ "generated_hits" \in Counters
      /\ "invalid_ids" \in Counters /\ "arity_errors" \in Counters
      /\ "fallback_evals" \in Counters /\ "invalid_calls" \in Counters
  BY DEF Counters
<1>3. CounterOf[CallCode(kind)] \in Counters
  BY <1>1, <1>2 DEF CounterOf
<1>4. CallCounters(kind) \in Seq(Counters)
  BY <1>2, <1>3 DEF CallCounters
<1>. QED  BY <1>1, <1>4

LEMMA CallDueType ==
  ASSUME NEW kind
  PROVE  [i \in 1 .. Len(CallCounters(kind)) |-> Increment(CallCounters(kind)[i])]
           \o (IF Linked(kind) = "stub" THEN SetError("NOT_IMPL") ELSE << >>)
         \in Seq(Write)
<1>. DEFINE counters == CallCounters(kind)
            counting == [i \in 1 .. Len(counters) |-> Increment(counters[i])]
            recording == IF Linked(kind) = "stub" THEN SetError("NOT_IMPL") ELSE << >>
<1>1. counters \in Seq(Counters)
  BY CallOutcome
<1>. HIDE DEF counters
<1>2. \A i \in 1 .. Len(counters) : Increment(counters[i]) \in Write
  BY <1>1, IncrementType
<1>3. Len(counters) \in Nat
  BY <1>1
<1>4. counting \in [1 .. Len(counters) -> Write]
  BY <1>2
<1>5. counting \in Seq(Write)
  BY <1>3, <1>4
<1>6. recording \in Seq(Write)
  BY SetErrorType, NothingDue DEF Codes
<1>. HIDE DEF counting, recording
<1>7. counting \o recording \in Seq(Write)
  BY <1>5, <1>6
<1>. QED  BY <1>7 DEF counting, recording, counters

LEMMA NextValueType ==
  ASSUME TypeOK, NEW t \in Threads, Reading(t), NextValue(t) # NULL
  PROVE  Append(seen[t], NextValue(t)) \in Seq(Values)
<1>. DEFINE e == call[t].expr
            i == Len(seen[t]) + 1
<1>1. e \in Expressions
  BY DEF Reading, TypeOK, CallType
<1>2. e.reads \in Seq(Names)
  BY <1>1, RuntimeAssumption DEF ExpressionType
<1>3. seen[t] \in Seq(Values) /\ Len(seen[t]) \in Nat
  BY DEF TypeOK
<1>4. i \in 1 .. Len(e.reads)
  BY <1>2, <1>3 DEF Reading
<1>5. e.reads[i] \in Names
  BY <1>2, <1>4
<1>6. call[t].ctx \in Contexts
  BY DEF TypeOK, CallType
<1>7. bound[call[t].ctx][e.reads[i]] \in Values
  BY <1>5, <1>6 DEF NextValue, TypeOK
<1>. QED  BY <1>3, <1>7 DEF NextValue

LEMMA ConcludeType ==
  ASSUME TypeOK, NEW t \in Threads, NEW code \in Codes, NEW effects \in Seq(Write),
         Conclude(t, code, effects)
  PROVE  /\ at' \in [Threads -> {"idle", "waiting", "running", "returning"}]
         /\ call' \in [Threads -> CallType]
         /\ rc' \in [Threads -> Codes]
         /\ due' \in [Threads -> Seq(Write)]
         /\ loaded' \in [Threads -> Nat \cup {NULL}]
BY DEF TypeOK, Conclude

LEMMA RecordedType == \A code \in Codes : Recorded(code) \in Seq(Write)
<1>. SUFFICES ASSUME NEW code \in Codes
              PROVE  Recorded(code) \in Seq(Write)
  OBVIOUS
<1>1. [to |-> "slot", what |-> code] \in Write
  BY DEF Write
<1>. QED  BY <1>1, SetErrorType DEF Recorded

(* A step that only concludes the call keeps the types.                     *)
LEMMA ConcludeOnly ==
  ASSUME TypeOK, NEW t \in Threads, NEW code \in Codes, NEW effects \in Seq(Write),
         Conclude(t, code, effects), UNCHANGED <<shared, seen>>
  PROVE  TypeOK'
<1>1. /\ at' \in [Threads -> {"idle", "waiting", "running", "returning"}]
      /\ call' \in [Threads -> CallType]
      /\ rc' \in [Threads -> Codes]
      /\ due' \in [Threads -> Seq(Write)]
      /\ loaded' \in [Threads -> Nat \cup {NULL}]
  BY ConcludeType
<1>. QED  BY <1>1 DEF TypeOK, shared

LEMMA NoCallType == NoCall \in CallType
BY DEF NoCall, CallType, Contexts

LEMMA CallsOfType ==
  ASSUME NEW t \in Threads, NEW c \in CallsOf(t)
  PROVE  /\ c \in CallType
         /\ c.ctx \in {Global, t}
<1>1. ASSUME NEW k \in {Global, t}, NEW e \in Expressions \cup {NULL}, c = EvalCall(k, e)
      PROVE  c \in CallType /\ c.ctx \in {Global, t}
  <2>1. c = [op |-> "eval", ctx |-> k, expr |-> e, name |-> BadName, value |-> NULL,
         level |-> 0]
    BY <1>1 DEF EvalCall, NoCall
  <2>. QED  BY <2>1 DEF CallType, LockingOps, Contexts
<1>2. ASSUME NEW k \in {Global, t}, NEW n \in Names \cup {BadName}, NEW v \in Values,
             c = SetCall(k, n, v)
      PROVE  c \in CallType /\ c.ctx \in {Global, t}
  <2>1. c = [op |-> "set", ctx |-> k, expr |-> NULL, name |-> n, value |-> v,
         level |-> 0]
    BY <1>2 DEF SetCall, NoCall
  <2>. QED  BY <2>1 DEF CallType, LockingOps, Contexts
<1>3. ASSUME NEW k \in {Global, t}, c = ClearCall(k)
      PROVE  c \in CallType /\ c.ctx \in {Global, t}
  <2>1. c = [op |-> "clear", ctx |-> k, expr |-> NULL, name |-> BadName, value |-> NULL,
         level |-> 0]
    BY <1>3 DEF ClearCall, NoCall
  <2>. QED  BY <2>1 DEF CallType, LockingOps, Contexts
<1>4. ASSUME NEW kind \in CallKinds, c = TableCall(kind)
      PROVE  c \in CallType /\ c.ctx \in {Global, t}
  <2>1. c = [op |-> "call", ctx |-> Global, expr |-> NULL, name |-> kind, value |-> NULL,
         level |-> 0]
    BY <1>4 DEF TableCall, NoCall
  <2>. QED  BY <2>1 DEF CallType, LockingOps, Contexts
<1>5. ASSUME NEW op \in {"get_level", "unsupported", "stats", "create", "destroy"},
             c = OtherCall(op)
      PROVE  c \in CallType /\ c.ctx \in {Global, t}
  <2>1. c = [op |-> op, ctx |-> Global, expr |-> NULL, name |-> BadName, value |-> NULL,
         level |-> 0]
    BY <1>5 DEF OtherCall, NoCall
  <2>. QED  BY <2>1 DEF CallType, LockingOps, Contexts
<1>6. ASSUME NEW n \in Levels, c = LevelCall(n)
      PROVE  c \in CallType /\ c.ctx \in {Global, t}
  <2>1. c = [op |-> "set_level", ctx |-> Global, expr |-> NULL, name |-> BadName,
             value |-> NULL, level |-> n]
    BY <1>6 DEF LevelCall, NoCall
  <2>. QED  BY <2>1, RuntimeAssumption DEF CallType, LockingOps, Contexts
<1>7. CASE c \in StubCalls(t)
  BY <1>1, <1>2, <1>3, <1>4, <1>5, <1>6, <1>7 DEF StubCalls
<1>8. CASE c \notin StubCalls(t)
  BY <1>5, <1>8 DEF CallsOf
<1>. QED  BY <1>7, <1>8

-----------------------------------------------------------------------------
LEMMA InitType == Init => TypeOK
<1>. SUFFICES ASSUME Init PROVE TypeOK
  OBVIOUS
<1>1. << >> \in Seq(Values) /\ << >> \in Seq(Write)
  OBVIOUS
<1>2. NoCall \in CallType
  BY NoCallType
<1>3. /\ build \in Builds /\ level \in 0 .. 3
      /\ lock \in Threads \cup {NULL} /\ alive \subseteq Threads
  BY DEF Init
<1>6. ~initialized /\ initialized \in BOOLEAN
  BY DEF Init
<1>7. error \in Codes /\ lastCode \in Codes
  BY DEF Init, Codes
<1>4. /\ bound \in [Contexts -> [Names -> Values \cup {NULL}]]
      /\ stats \in [Counters -> Nat]
  BY DEF Init, Unbound, ZeroStats
<1>5. /\ at \in [Threads -> {"idle", "waiting", "running", "returning"}]
      /\ call \in [Threads -> CallType]
      /\ seen \in [Threads -> Seq(Values)]
      /\ rc \in [Threads -> Codes]
      /\ due \in [Threads -> Seq(Write)]
      /\ loaded \in [Threads -> Nat \cup {NULL}]
  BY <1>1, <1>2 DEF Init, Codes
<1>. QED  BY <1>3, <1>4, <1>5, <1>6, <1>7 DEF TypeOK

(* The level asked for ends up between 1 and 3.                             *)
LEMMA ClampedRange ==
  ASSUME NEW n \in Int
  PROVE  Clamped(n) \in 1 .. 3
BY DEF Clamped

LEMMA StepType ==
  ASSUME TypeOK, NEW t \in Threads, Step(t)
  PROVE  TypeOK'
<1>1. CASE Acquire(t)
  BY <1>1 DEF Acquire, TypeOK
<1>2. CASE Return(t)
  <2>1. << >> \in Seq(Values)
    OBVIOUS
  <2>. QED  BY <1>2, <2>1, NoCallType DEF Return, LockAfter, TypeOK, Codes
<1>3. CASE Load(t)
  <2>1. due[t] \in Seq(Write) /\ due[t] # << >>
    BY <1>3 DEF Load, NextIs, TypeOK
  <2>2. Head(due[t]) \in Write /\ Head(due[t]).to = "counter"
    BY <1>3, <2>1 DEF Load, NextIs
  <2>3. Head(due[t]).what \in Counters
    BY <2>2 DEF Write
  <2>. QED  BY <1>3, <2>3 DEF Load, shared, TypeOK
<1>4. CASE Store(t)
  <2>1. due[t] \in Seq(Write) /\ due[t] # << >>
    BY <1>4 DEF Store, NextIs, TypeOK
  <2>2. Tail(due[t]) \in Seq(Write)
    BY <2>1
  <2>3. loaded[t] + 1 \in Nat
    BY <1>4 DEF Store, TypeOK
  <2>4. /\ stats' \in [Counters -> Nat]
        /\ loaded' \in [Threads -> Nat \cup {NULL}]
    BY <1>4, <2>3 DEF Store, TypeOK
  <2>5. due' \in [Threads -> Seq(Write)]
    BY <1>4, <2>2 DEF Store, Done, TypeOK
  <2>. QED  BY <1>4, <2>4, <2>5 DEF Store, TypeOK
<1>5. CASE WriteError(t)
  <2>1. due[t] \in Seq(Write) /\ due[t] # << >>
    BY <1>5 DEF WriteError, NextIs, TypeOK
  <2>2. Head(due[t]) \in Write /\ Head(due[t]).to = "slot"
    BY <1>5, <2>1 DEF WriteError, NextIs
  <2>3. Head(due[t]).what \in Codes
    BY <2>2 DEF Write
  <2>4. Tail(due[t]) \in Seq(Write)
    BY <2>1
  <2>5. due' \in [Threads -> Seq(Write)]
    BY <1>5, <2>4 DEF WriteError, Done, TypeOK
  <2>. QED  BY <1>5, <2>3, <2>5 DEF WriteError, TypeOK
<1>6. CASE WriteLastCode(t)
  <2>1. due[t] \in Seq(Write) /\ due[t] # << >>
    BY <1>6 DEF WriteLastCode, NextIs, TypeOK
  <2>2. Head(due[t]) \in Write /\ Head(due[t]).to = "last_code"
    BY <1>6, <2>1 DEF WriteLastCode, NextIs
  <2>3. Head(due[t]).what \in Codes
    BY <2>2 DEF Write
  <2>4. Tail(due[t]) \in Seq(Write)
    BY <2>1
  <2>5. due' \in [Threads -> Seq(Write)]
    BY <1>6, <2>4 DEF WriteLastCode, Done, TypeOK
  <2>. QED  BY <1>6, <2>3, <2>5 DEF WriteLastCode, TypeOK
<1>7. CASE Refuse(t)
  <2>1. "INIT" \in Codes
    BY DEF Codes
  <2>. QED  BY <1>7, <2>1, SetErrorType, ConcludeOnly DEF Refuse
<1>8. CASE EvaluateNothing(t)
  <2>1. "INVALID" \in Codes
    BY DEF Codes
  <2>. QED  BY <1>8, <2>1, SetErrorType, ConcludeOnly DEF EvaluateNothing
<1>9. CASE ReadVariable(t)
  <2>1. Append(seen[t], NextValue(t)) \in Seq(Values)
    BY <1>9, NextValueType DEF ReadVariable
  <2>. QED  BY <1>9, <2>1 DEF ReadVariable, shared, TypeOK
<1>10. CASE ReadUnbound(t)
  <2>1. "EVAL" \in Codes
    BY DEF Codes
  <2>. QED  BY <1>10, <2>1, FailureType, ConcludeOnly DEF ReadUnbound, FailEvaluation
<1>11. CASE EndEvaluation(t)
  <2>1. call[t].expr \in Expressions
    BY <1>11 DEF EndEvaluation, TypeOK, CallType
  <2>2. call[t].expr.end \in Codes /\ "OK" \in Codes
    BY <2>1, RuntimeAssumption DEF ExpressionType, Codes
  <2>3. CASE call[t].expr.end = "OK"
    BY <1>11, <2>2, <2>3, NothingDue, ConcludeOnly DEF EndEvaluation
  <2>4. CASE call[t].expr.end # "OK"
    BY <1>11, <2>2, <2>4, FailureType, ConcludeOnly DEF EndEvaluation, FailEvaluation
  <2>. QED  BY <2>3, <2>4
<1>12. CASE SetVariable(t)
  <2>1. "OK" \in Codes
    BY DEF Codes
  <2>2. /\ at' \in [Threads -> {"idle", "waiting", "running", "returning"}]
        /\ call' \in [Threads -> CallType]
        /\ rc' \in [Threads -> Codes]
        /\ due' \in [Threads -> Seq(Write)]
        /\ loaded' \in [Threads -> Nat \cup {NULL}]
    BY <1>12, <2>1, NothingDue, ConcludeType DEF SetVariable
  <2>3. /\ call[t].value \in Values \cup {NULL}
        /\ call[t].ctx \in Contexts
    BY DEF TypeOK, CallType
  <2>4. bound' \in [Contexts -> [Names -> Values \cup {NULL}]]
    BY <1>12, <2>3 DEF SetVariable, TypeOK
  <2>. QED  BY <1>12, <2>2, <2>4 DEF SetVariable, TypeOK
<1>13. CASE SetRefused(t)
  <2>1. "INVALID" \in Codes /\ "EVAL" \in Codes
    BY DEF Codes
  <2>. QED  BY <1>13, <2>1, NothingDue, ConcludeOnly DEF SetRefused
<1>14. CASE ClearVariables(t)
  <2>1. "OK" \in Codes
    BY DEF Codes
  <2>2. /\ at' \in [Threads -> {"idle", "waiting", "running", "returning"}]
        /\ call' \in [Threads -> CallType]
        /\ rc' \in [Threads -> Codes]
        /\ due' \in [Threads -> Seq(Write)]
        /\ loaded' \in [Threads -> Nat \cup {NULL}]
    BY <1>14, <2>1, NothingDue, ConcludeType DEF ClearVariables
  <2>3. bound' \in [Contexts -> [Names -> Values \cup {NULL}]]
    BY <1>14 DEF ClearVariables, Unbound, TypeOK
  <2>. QED  BY <1>14, <2>2, <2>3 DEF ClearVariables, TypeOK
<1>15. CASE CallExpression(t)
  <2>1. CallCode(call[t].name) \in Codes
    BY CallOutcome DEF Codes
  <2>. QED  BY <1>15, <2>1, CallDueType, ConcludeOnly DEF CallExpression
<1>16. CASE CallUnsupported(t)
  <2>1. "NOT_IMPL" \in Codes
    BY DEF Codes
  <2>. QED  BY <1>16, <2>1, RecordedType, ConcludeOnly DEF CallUnsupported
<1>17. CASE CreateContext(t)
  <2>1. "OK" \in Codes /\ "INIT" \in Codes
    BY DEF Codes
  <2>2. CASE Conclude(t, "INIT", SetError("INIT")) /\ UNCHANGED <<shared, seen>>
    BY <2>1, <2>2, SetErrorType, ConcludeOnly
  <2>3. CASE /\ alive' = alive \cup {t}
             /\ bound' = [bound EXCEPT ![t] = Unbound]
             /\ Conclude(t, "OK", << >>)
             /\ UNCHANGED <<build, level, initialized, lock, error, stats, lastCode, seen>>
    <3>1. /\ at' \in [Threads -> {"idle", "waiting", "running", "returning"}]
          /\ call' \in [Threads -> CallType]
          /\ rc' \in [Threads -> Codes]
          /\ due' \in [Threads -> Seq(Write)]
          /\ loaded' \in [Threads -> Nat \cup {NULL}]
      BY <2>1, <2>3, NothingDue, ConcludeType
    <3>2. bound' \in [Contexts -> [Names -> Values \cup {NULL}]]
      BY <2>3 DEF Unbound, TypeOK
    <3>. QED  BY <2>3, <3>1, <3>2 DEF TypeOK
  <2>. QED  BY <1>17, <2>2, <2>3 DEF CreateContext
<1>18. CASE DestroyContext(t)
  <2>1. "OK" \in Codes
    BY DEF Codes
  <2>2. /\ at' \in [Threads -> {"idle", "waiting", "running", "returning"}]
        /\ call' \in [Threads -> CallType]
        /\ rc' \in [Threads -> Codes]
        /\ due' \in [Threads -> Seq(Write)]
        /\ loaded' \in [Threads -> Nat \cup {NULL}]
    BY <1>18, <2>1, NothingDue, ConcludeType DEF DestroyContext
  <2>. QED  BY <1>18, <2>2 DEF DestroyContext, TypeOK
<1>19. CASE SetLevel(t)
  <2>1. "OK" \in Codes
    BY DEF Codes
  <2>2. /\ at' \in [Threads -> {"idle", "waiting", "running", "returning"}]
        /\ call' \in [Threads -> CallType]
        /\ rc' \in [Threads -> Codes]
        /\ due' \in [Threads -> Seq(Write)]
        /\ loaded' \in [Threads -> Nat \cup {NULL}]
    BY <1>19, <2>1, NothingDue, ConcludeType DEF SetLevel
  <2>3. Clamped(call[t].level) \in 1 .. 3
    BY ClampedRange DEF TypeOK, CallType
  <2>. QED  BY <1>19, <2>2, <2>3 DEF SetLevel, TypeOK
<1>20. CASE GetLevel(t)
  <2>1. "OK" \in Codes
    BY DEF Codes
  <2>. QED  BY <1>20, <2>1, NothingDue, ConcludeOnly DEF GetLevel
<1>21. CASE GetStats(t)
  <2>1. "INVALID" \in Codes
    BY DEF Codes
  <2>. QED  BY <1>21, <2>1, RecordedType, ConcludeOnly DEF GetStats
<1>. QED  BY <1>1, <1>2, <1>3, <1>4, <1>5, <1>6, <1>7, <1>8, <1>9, <1>10, <1>11,
             <1>12, <1>13, <1>14, <1>15, <1>16, <1>17, <1>18, <1>19, <1>20, <1>21
          DEF Step

LEMMA NextType == TypeOK /\ [Next]_vars => TypeOK'
<1>. SUFFICES ASSUME TypeOK, [Next]_vars PROVE TypeOK'
  OBVIOUS
<1>1. CASE \E t \in Threads : Step(t)
  BY <1>1, StepType
<1>2. ASSUME NEW t \in Threads, NEW c \in CallsOf(t), Enter(t, c)
      PROVE  TypeOK'
  <2>1. c \in CallType
    BY CallsOfType
  <2>. QED  BY <1>2, <2>1 DEF Enter, shared, TypeOK
<1>3. CASE InitLibrary
  <2>1. bound' \in [Contexts -> [Names -> Values \cup {NULL}]]
    BY <1>3 DEF InitLibrary, Unbound, Contexts, TypeOK
  <2>2. error' \in Codes /\ lastCode' \in Codes /\ initialized' \in BOOLEAN
    BY <1>3 DEF InitLibrary, Codes, TypeOK
  <2>. QED  BY <1>3, <2>1, <2>2 DEF InitLibrary, locals, TypeOK
<1>4. CASE Shutdown
  BY <1>4 DEF Shutdown, locals, TypeOK
<1>5. CASE ResetStats
  BY <1>5 DEF ResetStats, ZeroStats, locals, Codes, TypeOK
<1>6. CASE UNCHANGED vars
  BY <1>6 DEF vars, shared, locals, TypeOK
<1>. QED  BY <1>1, <1>2, <1>3, <1>4, <1>5, <1>6 DEF Next, Request, Ask

(* Every variable keeps its type, whatever the threads call.                *)
THEOREM TypeCorrect == Spec => []TypeOK
BY InitType, NextType, PTL DEF Spec

-----------------------------------------------------------------------------
(* The mutex.  Whoever waits for it is about to make a call that takes it.  *)

WaitersLock == \A t \in Threads : at[t] = "waiting" => Locks(call[t])

MutexInv == TypeOK /\ (Locking => MutexIsHeldInsideCalls /\ WaitersLock)

(* A step of a thread inside its call, which keeps it inside.               *)
Inside(t) ==
  /\ at[t] \in {"running", "returning"}
  /\ \E where \in {"running", "returning"} : at' = [at EXCEPT ![t] = where]
  /\ UNCHANGED <<lock, call>>

LEMMA MostStepsStayInside ==
  ASSUME TypeOK, NEW t \in Threads, Step(t), ~Acquire(t), ~Return(t)
  PROVE  Inside(t)
<1>. DEFINE stays == \E where \in {"running", "returning"} : at' = [at EXCEPT ![t] = where]
<1>1. ASSUME at[t] \in {"running", "returning"}, at' = at
      PROVE  stays
  BY <1>1 DEF TypeOK
<1>2. ASSUME NEW code, NEW effects, Conclude(t, code, effects)
      PROVE  stays /\ call' = call
  BY <1>2 DEF Conclude
<1>3. CASE Load(t) \/ Store(t) \/ WriteError(t) \/ WriteLastCode(t)
  BY <1>1, <1>3 DEF Load, Store, WriteError, WriteLastCode, NextIs, shared, Inside
<1>4. CASE Refuse(t) \/ EvaluateNothing(t)
  BY <1>2, <1>4 DEF Refuse, EvaluateNothing, Running, shared, Inside
<1>5. CASE ReadVariable(t)
  BY <1>1, <1>5 DEF ReadVariable, Reading, Running, shared, Inside
<1>6. CASE ReadUnbound(t)
  BY <1>2, <1>6 DEF ReadUnbound, FailEvaluation, Reading, Running, shared, Inside
<1>7. CASE EndEvaluation(t)
  BY <1>2, <1>7 DEF EndEvaluation, FailEvaluation, Running, shared, Inside
<1>8. CASE SetVariable(t)
  BY <1>2, <1>8 DEF SetVariable, Running, Inside
<1>9. CASE SetRefused(t)
  BY <1>2, <1>9 DEF SetRefused, Running, shared, Inside
<1>10. CASE ClearVariables(t)
  BY <1>2, <1>10 DEF ClearVariables, Running, Inside
<1>11. CASE CallExpression(t) \/ CallUnsupported(t)
  BY <1>2, <1>11 DEF CallExpression, CallUnsupported, Running, shared, Inside
<1>12. CASE CreateContext(t) \/ DestroyContext(t)
  BY <1>2, <1>12 DEF CreateContext, DestroyContext, Running, shared, Inside
<1>13. CASE SetLevel(t) \/ GetLevel(t) \/ GetStats(t)
  BY <1>2, <1>13 DEF SetLevel, GetLevel, GetStats, Running, shared, Inside
<1>. QED  BY <1>3, <1>4, <1>5, <1>6, <1>7, <1>8, <1>9, <1>10, <1>11, <1>12, <1>13 DEF Step

LEMMA MutexStep ==
  ASSUME MutexInv, Locking, NEW t \in Threads, Step(t)
  PROVE  (MutexIsHeldInsideCalls /\ WaitersLock)'
<1>. USE DEF MutexInv
<1>. SUFFICES ASSUME NEW u \in Threads
              PROVE  /\ (lock = u <=> InGlobal(u))'
                     /\ (at[u] = "waiting" => Locks(call[u]))'
  BY DEF MutexIsHeldInsideCalls, WaitersLock
<1>0. /\ lock = u <=> InGlobal(u)
      /\ lock = t <=> InGlobal(t)
      /\ at[u] = "waiting" => Locks(call[u])
      /\ at[t] = "waiting" => Locks(call[t])
  BY DEF MutexIsHeldInsideCalls, WaitersLock
<1>1. CASE Acquire(t)
  <2>1. /\ lock = NULL /\ lock' = t /\ call' = call
        /\ at[t] = "waiting" /\ at' = [at EXCEPT ![t] = "running"]
    BY <1>1 DEF Acquire
  <2>2. Locks(call[t])
    BY <1>0, <2>1
  <2>3. ~InGlobal(u)
    BY <1>0, <2>1, RuntimeAssumption
  <2>4. CASE u = t
    BY <2>1, <2>2, <2>4 DEF InGlobal, Locks, TypeOK
  <2>5. CASE u # t
    BY <1>0, <2>1, <2>3, <2>5 DEF InGlobal, Locks, TypeOK
  <2>. QED  BY <2>4, <2>5
<1>2. CASE Return(t)
  <2>1. /\ lock' = IF lock = t THEN NULL ELSE lock
        /\ at' = [at EXCEPT ![t] = "idle"]
        /\ call' = [call EXCEPT ![t] = NoCall]
    BY <1>2 DEF Return, LockAfter
  <2>2. CASE u = t
    <3>1. at'[t] = "idle"
      BY <2>1 DEF TypeOK
    <3>2. lock' # t
      BY <2>1, RuntimeAssumption
    <3>. QED  BY <2>2, <3>1, <3>2 DEF InGlobal
  <2>3. CASE u # t
    <3>1. at'[u] = at[u] /\ call'[u] = call[u]
      BY <2>1, <2>3 DEF TypeOK
    <3>2. lock' = u <=> lock = u
      BY <2>1, <2>3, RuntimeAssumption
    <3>. QED  BY <1>0, <3>1, <3>2 DEF InGlobal, Locks
  <2>. QED  BY <2>2, <2>3
<1>3. CASE ~Acquire(t) /\ ~Return(t)
  <2>1. Inside(t)
    BY <1>3, MostStepsStayInside
  <2>2. PICK where \in {"running", "returning"} : at' = [at EXCEPT ![t] = where]
    BY <2>1 DEF Inside
  <2>3. lock' = lock /\ call' = call /\ at[t] \in {"running", "returning"}
    BY <2>1 DEF Inside
  <2>4. CASE u = t
    BY <1>0, <2>2, <2>3, <2>4 DEF InGlobal, TypeOK
  <2>5. CASE u # t
    BY <1>0, <2>2, <2>3, <2>5 DEF InGlobal, Locks, TypeOK
  <2>. QED  BY <2>4, <2>5
<1>. QED  BY <1>1, <1>2, <1>3

LEMMA MutexNext == MutexInv /\ [Next]_vars => MutexInv'
<1>. SUFFICES ASSUME MutexInv, [Next]_vars PROVE MutexInv'
  OBVIOUS
<1>1. TypeOK'
  BY NextType DEF MutexInv
<1>2. SUFFICES ASSUME Locking PROVE (MutexIsHeldInsideCalls /\ WaitersLock)'
  BY <1>1 DEF MutexInv
<1>3. CASE \E t \in Threads : Step(t)
  BY <1>2, <1>3, MutexStep
<1>4. ASSUME NEW t \in Threads, NEW c \in CallsOf(t), Enter(t, c)
      PROVE  (MutexIsHeldInsideCalls /\ WaitersLock)'
  <2>. SUFFICES ASSUME NEW u \in Threads
                PROVE  /\ (lock = u <=> InGlobal(u))'
                       /\ (at[u] = "waiting" => Locks(call[u]))'
    BY DEF MutexIsHeldInsideCalls, WaitersLock
  <2>1. /\ lock = u <=> InGlobal(u)
        /\ at[u] = "waiting" => Locks(call[u])
    BY <1>2 DEF MutexInv, MutexIsHeldInsideCalls, WaitersLock
  <2>2. /\ at[t] = "idle" /\ lock' = lock
        /\ at' = [at EXCEPT ![t] = IF Locks(c) THEN "waiting" ELSE "running"]
        /\ call' = [call EXCEPT ![t] = c]
    BY <1>4 DEF Enter, shared
  <2>3. CASE u = t
    <3>1. at'[t] = (IF Locks(c) THEN "waiting" ELSE "running") /\ call'[t] = c
      BY <2>2 DEF MutexInv, TypeOK
    <3>2. lock # t
      BY <2>1, <2>2, <2>3 DEF InGlobal
    <3>3. ~InGlobal(t)'
      BY <1>2, <3>1 DEF InGlobal, Locks
    <3>4. at'[t] = "waiting" => Locks(c)
      BY <3>1
    <3>. QED  BY <2>2, <2>3, <3>1, <3>2, <3>3, <3>4 DEF Locks
  <2>4. CASE u # t
    <3>1. at'[u] = at[u] /\ call'[u] = call[u]
      BY <2>2, <2>4 DEF MutexInv, TypeOK
    <3>. QED  BY <2>1, <2>2, <3>1 DEF InGlobal, Locks
  <2>. QED  BY <2>3, <2>4
<1>5. CASE InitLibrary \/ Shutdown \/ ResetStats \/ UNCHANGED vars
  <2>1. lock' = lock /\ at' = at /\ call' = call
    BY <1>5 DEF InitLibrary, Shutdown, ResetStats, vars, shared, locals
  <2>. QED  BY <1>2, <2>1 DEF MutexInv, MutexIsHeldInsideCalls, WaitersLock, InGlobal, Locks
<1>. QED  BY <1>3, <1>4, <1>5 DEF Next, Request, Ask

LEMMA MutexInit == Init => MutexInv
<1>. SUFFICES ASSUME Init PROVE MutexInv
  OBVIOUS
<1>1. TypeOK
  BY InitType
<1>2. \A t \in Threads : at[t] = "idle" /\ lock # t
  BY RuntimeAssumption DEF Init
<1>. QED  BY <1>1, <1>2 DEF MutexInv, MutexIsHeldInsideCalls, WaitersLock, InGlobal

LEMMA MutexInvariant == Spec => []MutexInv
BY MutexInit, MutexNext, PTL DEF Spec

(* However many threads there are, the mutex is held exactly inside the     *)
(* calls that take it: no way out of a call of smc_runtime_stub.c keeps it, *)
(* and no two of them are inside at a time.                                 *)
THEOREM MutexHeldInsideCalls == Spec => []MutexIsHeldInsideCalls
<1>1. MutexInv => MutexIsHeldInsideCalls
  BY DEF MutexInv, MutexIsHeldInsideCalls
<1>. QED  BY <1>1, MutexInvariant, PTL

-----------------------------------------------------------------------------
(* The reads of an evaluation.  What it has read so far is still bound: its *)
(* context is its own, or the global one under the mutex.                   *)

UpToDate(t) ==
  /\ Len(seen[t]) <= Len(call[t].expr.reads)
  /\ \A i \in 1 .. Len(seen[t]) :
       seen[t][i] = bound[call[t].ctx][call[t].expr.reads[i]]

ReadsOf(t) ==
  /\ call[t].ctx \in {Global, t}
  /\ at[t] \in {"idle", "waiting"} => seen[t] = << >>
  /\ Running(t, "eval") /\ call[t].expr # NULL => UpToDate(t)
  /\ at[t] = "returning" /\ call[t].op = "eval" /\ rc[t] = "OK" =>
       /\ call[t].expr # NULL
       /\ UpToDate(t)
       /\ Len(seen[t]) = Len(call[t].expr.reads)

ReadInv == \A t \in Threads : ReadsOf(t)

(* An evaluation is reading, or has read, the bindings of its context.      *)
Depends(t) == at[t] \in {"running", "returning"} /\ call[t].op = "eval"

(* What keeps the state of a thread and the bindings it depends on keeps    *)
(* what is known of its reads.                                              *)
LEMMA Undisturbed ==
  ASSUME NEW u \in Threads, ReadsOf(u),
         at'[u] = at[u], call'[u] = call[u], seen'[u] = seen[u], rc'[u] = rc[u],
         Depends(u) => bound'[call[u].ctx] = bound[call[u].ctx]
  PROVE  ReadsOf(u)'
<1>1. CASE Depends(u)
  BY <1>1 DEF ReadsOf, UpToDate, Running
<1>2. CASE ~Depends(u)
  BY <1>2 DEF ReadsOf, Running, Depends
<1>. QED  BY <1>1, <1>2

(* A step of another thread leaves a thread where it is.                    *)
LEMMA OthersStay ==
  ASSUME TypeOK, NEW t \in Threads, Step(t), NEW u \in Threads, u # t
  PROVE  at'[u] = at[u] /\ call'[u] = call[u] /\ seen'[u] = seen[u] /\ rc'[u] = rc[u]
<1>1. ASSUME NEW code, NEW effects, Conclude(t, code, effects)
      PROVE  at'[u] = at[u] /\ call'[u] = call[u] /\ rc'[u] = rc[u]
  BY <1>1 DEF Conclude, TypeOK
<1>2. CASE Acquire(t) \/ Return(t)
  BY <1>2 DEF Acquire, Return, TypeOK
<1>3. CASE Load(t) \/ Store(t) \/ WriteError(t) \/ WriteLastCode(t)
  BY <1>3 DEF Load, Store, WriteError, WriteLastCode
<1>4. CASE Refuse(t) \/ EvaluateNothing(t)
  BY <1>1, <1>4 DEF Refuse, EvaluateNothing
<1>5. CASE ReadVariable(t)
  BY <1>5 DEF ReadVariable, TypeOK
<1>6. CASE ReadUnbound(t) \/ EndEvaluation(t)
  BY <1>1, <1>6 DEF ReadUnbound, EndEvaluation, FailEvaluation
<1>7. CASE SetVariable(t)
  BY <1>1, <1>7 DEF SetVariable
<1>8. CASE SetRefused(t)
  BY <1>1, <1>8 DEF SetRefused
<1>9. CASE ClearVariables(t)
  BY <1>1, <1>9 DEF ClearVariables
<1>10. CASE CallExpression(t) \/ CallUnsupported(t)
  BY <1>1, <1>10 DEF CallExpression, CallUnsupported
<1>11. CASE CreateContext(t) \/ DestroyContext(t)
  BY <1>1, <1>11 DEF CreateContext, DestroyContext
<1>12. CASE SetLevel(t) \/ GetLevel(t) \/ GetStats(t)
  BY <1>1, <1>12 DEF SetLevel, GetLevel, GetStats
<1>. QED  BY <1>2, <1>3, <1>4, <1>5, <1>6, <1>7, <1>8, <1>9, <1>10, <1>11, <1>12 DEF Step

(* No step writes bindings that an evaluation of another thread depends on: *)
(* this is what the mutex is for.                                           *)
LEMMA BindingsAreProtected ==
  ASSUME TypeOK, Locking, MutexIsHeldInsideCalls, ReadInv,
         NEW t \in Threads, Step(t), NEW u \in Threads, u # t, Depends(u)
  PROVE  bound'[call[u].ctx] = bound[call[u].ctx]
<1>1. call[t].ctx \in {Global, t} /\ call[u].ctx \in {Global, u}
  BY DEF ReadInv, ReadsOf
<1>2. call[u].ctx \in Contexts /\ call[t].ctx \in Contexts /\ t \in Contexts
  BY <1>1 DEF Contexts
<1>3. t # Global /\ u # Global
  BY RuntimeAssumption
<1>4. ASSUME Running(t, "set") \/ Running(t, "clear")
      PROVE  call[t].ctx # call[u].ctx
  <2>1. SUFFICES ASSUME call[t].ctx = Global, call[u].ctx = Global PROVE FALSE
    BY <1>1, <1>3
  <2>2. InGlobal(t) /\ InGlobal(u)
    BY <1>4, <2>1 DEF InGlobal, LockingOps, Running, Depends
  <2>. QED  BY <2>2 DEF MutexIsHeldInsideCalls
<1>5. CASE SetVariable(t)
  <2>1. call[t].ctx # call[u].ctx
    BY <1>4, <1>5 DEF SetVariable
  <2>2. bound' = [bound EXCEPT ![call[t].ctx][call[t].name] = call[t].value]
    BY <1>5 DEF SetVariable
  <2>. QED  BY <1>2, <2>1, <2>2 DEF TypeOK
<1>6. CASE ClearVariables(t)
  <2>1. call[t].ctx # call[u].ctx
    BY <1>4, <1>6 DEF ClearVariables
  <2>2. bound' = [bound EXCEPT ![call[t].ctx] = Unbound]
    BY <1>6 DEF ClearVariables
  <2>. QED  BY <1>2, <2>1, <2>2 DEF TypeOK
<1>7. CASE CreateContext(t)
  <2>1. bound' = bound \/ bound' = [bound EXCEPT ![t] = Unbound]
    BY <1>7 DEF CreateContext, shared
  <2>. QED  BY <1>1, <1>2, <1>3, <2>1 DEF TypeOK
<1>8. CASE ~SetVariable(t) /\ ~ClearVariables(t) /\ ~CreateContext(t)
  <2>1. bound' = bound
    BY <1>8 DEF Step, Acquire, Return, Load, Store, WriteError, WriteLastCode, Refuse,
                EvaluateNothing, ReadVariable, ReadUnbound, EndEvaluation, SetRefused,
                CallExpression, CallUnsupported, DestroyContext, SetLevel, GetLevel,
                GetStats, shared
  <2>. QED  BY <2>1
<1>. QED  BY <1>5, <1>6, <1>7, <1>8

(* The steps of a thread itself.                                            *)
LEMMA OwnReads ==
  ASSUME TypeOK, NEW t \in Threads, Step(t), ReadsOf(t)
  PROVE  ReadsOf(t)'
<1>1. ASSUME NEW code \in Codes, NEW effects, Conclude(t, code, effects)
      PROVE  at'[t] = "returning" /\ call'[t] = call[t] /\ rc'[t] = code
  BY <1>1 DEF Conclude, TypeOK
<1>2. ASSUME NEW code \in Codes \ {"OK"}, NEW effects, Conclude(t, code, effects)
      PROVE  ReadsOf(t)'
  BY <1>1, <1>2 DEF ReadsOf, Running
<1>3. ASSUME call[t].op # "eval", NEW code \in Codes, NEW effects, Conclude(t, code, effects)
      PROVE  ReadsOf(t)'
  BY <1>1, <1>3 DEF ReadsOf, Running
<1>4. "OK" \in Codes /\ {"INIT", "INVALID", "EVAL", "NOT_IMPL"} \subseteq Codes \ {"OK"}
  BY DEF Codes
<1>5. CASE Acquire(t)
  <2>1. at'[t] = "running" /\ call'[t] = call[t] /\ seen'[t] = << >>
    BY <1>5 DEF Acquire, ReadsOf, TypeOK
  <2>2. call[t].expr # NULL => call[t].expr.reads \in Seq(Names)
    BY RuntimeAssumption DEF TypeOK, CallType, ExpressionType
  <2>. QED  BY <2>1, <2>2 DEF ReadsOf, UpToDate, Running
<1>6. CASE Return(t)
  <2>1. at'[t] = "idle" /\ call'[t] = NoCall /\ seen'[t] = << >>
    BY <1>6 DEF Return, TypeOK
  <2>. QED  BY <2>1 DEF ReadsOf, Running, NoCall
<1>7. CASE Load(t) \/ Store(t) \/ WriteError(t) \/ WriteLastCode(t)
  BY <1>7, Undisturbed DEF Load, Store, WriteError, WriteLastCode, shared
<1>8. CASE Refuse(t) \/ EvaluateNothing(t)
  BY <1>2, <1>4, <1>8 DEF Refuse, EvaluateNothing
<1>9. CASE ReadVariable(t)
  <2>. DEFINE e == call[t].expr
  <2>1. /\ at' = at /\ call' = call /\ bound' = bound
        /\ at[t] = "running" /\ call[t].op = "eval" /\ e # NULL
        /\ Len(seen[t]) < Len(e.reads)
    BY <1>9 DEF ReadVariable, Reading, Running, shared
  <2>2. seen[t] \in Seq(Values) /\ e.reads \in Seq(Names)
    BY <2>1, RuntimeAssumption DEF TypeOK, CallType, ExpressionType
  <2>3. seen'[t] = Append(seen[t], NextValue(t))
    BY <1>9 DEF ReadVariable, TypeOK
  <2>4. NextValue(t) \in Values
    BY <1>9, <2>1, <2>2 DEF ReadVariable, NextValue, TypeOK, CallType
  <2>5. UpToDate(t)
    BY <2>1 DEF ReadsOf, Running
  <2>6. Len(seen'[t]) = Len(seen[t]) + 1
    BY <2>2, <2>3, <2>4
  <2>7. \A i \in 1 .. Len(seen'[t]) : seen'[t][i] = bound[call[t].ctx][e.reads[i]]
    <3>1. TAKE i \in 1 .. Len(seen'[t])
    <3>2. CASE i <= Len(seen[t])
      <4>1. i \in 1 .. Len(seen[t]) /\ seen'[t][i] = seen[t][i]
        BY <2>2, <2>3, <2>4, <3>2
      <4>. QED  BY <2>5, <4>1 DEF UpToDate
    <3>3. CASE i = Len(seen[t]) + 1
      BY <2>2, <2>3, <2>4, <3>3 DEF NextValue
    <3>. QED  BY <2>2, <2>6, <3>2, <3>3
  <2>8. UpToDate(t)'
    BY <2>1, <2>2, <2>6, <2>7 DEF UpToDate
  <2>. QED  BY <2>1, <2>8 DEF ReadsOf, Running
<1>10. CASE ReadUnbound(t)
  BY <1>2, <1>4, <1>10 DEF ReadUnbound, FailEvaluation
<1>11. CASE EndEvaluation(t)
  <2>1. call[t].expr \in Expressions
    BY <1>11 DEF EndEvaluation, TypeOK, CallType
  <2>2. call[t].expr.end \in Codes
    BY <2>1, RuntimeAssumption DEF ExpressionType, Codes
  <2>3. CASE call[t].expr.end = "OK"
    <3>1. /\ at'[t] = "returning" /\ call'[t] = call[t] /\ seen' = seen /\ bound' = bound
      BY <1>1, <1>4, <1>11, <2>3 DEF EndEvaluation, shared
    <3>2. /\ call[t].expr # NULL /\ Running(t, "eval")
          /\ Len(seen[t]) = Len(call[t].expr.reads)
      BY <1>11 DEF EndEvaluation
    <3>. QED  BY <3>1, <3>2 DEF ReadsOf, UpToDate, Running
  <2>4. CASE call[t].expr.end # "OK"
    BY <1>2, <1>11, <2>2, <2>4 DEF EndEvaluation, FailEvaluation
  <2>. QED  BY <2>3, <2>4
<1>12. CASE SetVariable(t) \/ ClearVariables(t)
  BY <1>3, <1>4, <1>12 DEF SetVariable, ClearVariables, Running
<1>13. CASE SetRefused(t)
  BY <1>2, <1>4, <1>13 DEF SetRefused
<1>14. CASE CallExpression(t)
  <2>1. CallCode(call[t].name) \in Codes
    BY CallOutcome DEF Codes
  <2>. QED  BY <1>3, <1>14, <2>1 DEF CallExpression, Running
<1>15. CASE CallUnsupported(t)
  BY <1>2, <1>4, <1>15 DEF CallUnsupported
<1>16. CASE CreateContext(t) \/ DestroyContext(t)
  BY <1>2, <1>3, <1>4, <1>16 DEF CreateContext, DestroyContext, Running
<1>17. CASE SetLevel(t) \/ GetLevel(t)
  BY <1>3, <1>4, <1>17 DEF SetLevel, GetLevel, Running
<1>18. CASE GetStats(t)
  BY <1>2, <1>4, <1>18 DEF GetStats
<1>. QED  BY <1>5, <1>6, <1>7, <1>8, <1>9, <1>10, <1>11, <1>12, <1>13, <1>14, <1>15, <1>16,
             <1>17, <1>18
          DEF Step

LEMMA ReadNext ==
  Locking /\ MutexInv /\ ReadInv /\ [Next]_vars => ReadInv'
<1>. SUFFICES ASSUME Locking, MutexInv, ReadInv, [Next]_vars, NEW u \in Threads
              PROVE  ReadsOf(u)'
  BY DEF ReadInv
<1>0. TypeOK /\ MutexIsHeldInsideCalls /\ ReadsOf(u)
  BY DEF MutexInv, ReadInv
<1>1. ASSUME NEW t \in Threads, Step(t) PROVE ReadsOf(u)'
  <2>1. CASE u = t
    BY <1>0, <1>1, <2>1, OwnReads
  <2>2. CASE u # t
    <3>1. at'[u] = at[u] /\ call'[u] = call[u] /\ seen'[u] = seen[u] /\ rc'[u] = rc[u]
      BY <1>0, <1>1, <2>2, OthersStay
    <3>2. Depends(u) => bound'[call[u].ctx] = bound[call[u].ctx]
      BY <1>0, <1>1, <2>2, BindingsAreProtected
    <3>. QED  BY <1>0, <3>1, <3>2, Undisturbed
  <2>. QED  BY <2>1, <2>2
<1>2. ASSUME NEW t \in Threads, NEW c \in CallsOf(t), Enter(t, c) PROVE ReadsOf(u)'
  <2>1. /\ at[t] = "idle"
        /\ at' = [at EXCEPT ![t] = IF Locks(c) THEN "waiting" ELSE "running"]
        /\ call' = [call EXCEPT ![t] = c]
        /\ seen' = seen /\ rc' = rc /\ bound' = bound
    BY <1>2 DEF Enter, shared
  <2>2. CASE u = t
    <3>1. /\ at'[t] \in {"waiting", "running"} /\ call'[t] = c /\ seen'[t] = << >>
      BY <1>0, <2>1, <2>2 DEF ReadsOf, TypeOK
    <3>2. c.ctx \in {Global, t} /\ c \in CallType
      BY CallsOfType
    <3>3. c.expr # NULL => c.expr.reads \in Seq(Names)
      BY <3>2, RuntimeAssumption DEF CallType, ExpressionType
    <3>. QED  BY <2>2, <3>1, <3>2, <3>3 DEF ReadsOf, UpToDate, Running
  <2>3. CASE u # t
    <3>1. at'[u] = at[u] /\ call'[u] = call[u]
      BY <1>0, <2>1, <2>3 DEF TypeOK
    <3>. QED  BY <1>0, <2>1, <3>1, Undisturbed
  <2>. QED  BY <2>2, <2>3
<1>3. CASE InitLibrary
  <2>1. at[u] = "idle" /\ UNCHANGED locals
    BY <1>3 DEF InitLibrary, Quiescent
  <2>. QED  BY <1>0, <2>1, Undisturbed DEF locals, Depends
<1>4. CASE Shutdown \/ ResetStats \/ UNCHANGED vars
  <2>1. bound' = bound /\ UNCHANGED locals
    BY <1>4 DEF Shutdown, ResetStats, vars, shared
  <2>. QED  BY <1>0, <2>1, Undisturbed DEF locals
<1>. QED  BY <1>1, <1>2, <1>3, <1>4 DEF Next, Request, Ask

LEMMA ReadInit == Init => ReadInv
BY DEF Init, ReadInv, ReadsOf, Running, NoCall

(* In a build with the mutex, an evaluation that succeeds has read all its  *)
(* variables as they stand when it returns, in the global context or in one *)
(* of its own, whatever any number of other threads do meanwhile.           *)
THEOREM AnswersReadAtOnce ==
  ASSUME Locking
  PROVE  Spec => []AnswersReflectOneMoment
<1>1. ReadInv => AnswersReflectOneMoment
  BY DEF ReadInv, ReadsOf, UpToDate, AnswersReflectOneMoment
<1>2. Spec => []ReadInv
  BY ReadInit, ReadNext, MutexInvariant, PTL DEF Spec
<1>. QED  BY <1>1, <1>2, PTL

-----------------------------------------------------------------------------
(* What is due, in order.                                                   *)

OutcomeCounters ==
  {"generated_hits", "fallback_evals", "invalid_ids", "arity_errors", "invalid_calls"}

IsCounter(w, c) == w.to = "counter" /\ w.what = c

IsOutcome(w) == w.to = "counter" /\ w.what \in OutcomeCounters

(* A parse error is counted last, a call before its outcome, and a call has *)
(* one outcome.                                                             *)
CountersInOrder(s) ==
  \A i \in 1 .. Len(s) :
    /\ IsCounter(s[i], "parse_errors") => i = Len(s)
    /\ IsCounter(s[i], "total_calls") => i = 1 /\ Len(s) > 1 /\ IsOutcome(s[2])
    /\ IsOutcome(s[i]) => \A j \in 1 .. Len(s) : IsOutcome(s[j]) => i = j

(* A failure is written to the slot first, then to the statistics.          *)
ErrorsInOrder(s) ==
  \A i \in 1 .. Len(s) :
    /\ s[i].to = "slot" =>
         i < Len(s) /\ s[i + 1].to = "last_code" /\ s[i + 1].what = s[i].what
    /\ s[i].to \in {"slot", "last_code"} =>
         \A j \in 1 .. Len(s) : s[j].to = s[i].to => i = j

-----------------------------------------------------------------------------
(* The order of what is left is the order of what was due.                  *)

LEMMA TailAt ==
  ASSUME NEW s \in Seq(Write), s # << >>
  PROVE  /\ Len(s) \in Nat \ {0}
         /\ Tail(s) \in Seq(Write)
         /\ Len(Tail(s)) = Len(s) - 1
         /\ \A i \in 1 .. Len(Tail(s)) : Tail(s)[i] = s[i + 1]
         /\ Head(s) = s[1]
OBVIOUS

LEMMA TailKeepsCounters ==
  ASSUME NEW s \in Seq(Write), s # << >>, CountersInOrder(s)
  PROVE  CountersInOrder(Tail(s))
<1>. DEFINE r == Tail(s)
<1>1. /\ Len(s) \in Nat \ {0} /\ Len(r) = Len(s) - 1
      /\ \A i \in 1 .. Len(r) : r[i] = s[i + 1]
  BY TailAt
<1>. HIDE DEF r
<1>2. ASSUME NEW i \in 1 .. Len(r)
      PROVE  /\ IsCounter(r[i], "parse_errors") => i = Len(r)
             /\ ~IsCounter(r[i], "total_calls")
             /\ IsOutcome(r[i]) => \A j \in 1 .. Len(r) : IsOutcome(r[j]) => i = j
  <2>1. i + 1 \in 1 .. Len(s) /\ r[i] = s[i + 1] /\ i + 1 # 1
    BY <1>1
  <2>2. \A j \in 1 .. Len(r) : j + 1 \in 1 .. Len(s) /\ r[j] = s[j + 1]
    BY <1>1
  <2>3. IsCounter(r[i], "parse_errors") => i + 1 = Len(s)
    BY <2>1 DEF CountersInOrder
  <2>4. ~IsCounter(r[i], "total_calls")
    BY <2>1 DEF CountersInOrder
  <2>5. ASSUME IsOutcome(r[i]), NEW j \in 1 .. Len(r), IsOutcome(r[j])
        PROVE  i + 1 = j + 1
    BY <2>1, <2>2, <2>5 DEF CountersInOrder
  <2>. QED  BY <1>1, <2>3, <2>4, <2>5
<1>3. CountersInOrder(r)
  BY <1>2 DEF CountersInOrder
<1>. QED  BY <1>3 DEF r

LEMMA TailKeepsErrors ==
  ASSUME NEW s \in Seq(Write), s # << >>, ErrorsInOrder(s)
  PROVE  ErrorsInOrder(Tail(s))
<1>. DEFINE r == Tail(s)
<1>1. /\ Len(s) \in Nat \ {0} /\ Len(r) = Len(s) - 1
      /\ \A i \in 1 .. Len(r) : r[i] = s[i + 1]
  BY TailAt
<1>. HIDE DEF r
<1>2. ASSUME NEW i \in 1 .. Len(r)
      PROVE  /\ r[i].to = "slot" =>
                  i < Len(r) /\ r[i + 1].to = "last_code" /\ r[i + 1].what = r[i].what
             /\ r[i].to \in {"slot", "last_code"} =>
                  \A j \in 1 .. Len(r) : r[j].to = r[i].to => i = j
  <2>1. i + 1 \in 1 .. Len(s) /\ r[i] = s[i + 1]
    BY <1>1
  <2>2. \A j \in 1 .. Len(r) : j + 1 \in 1 .. Len(s) /\ r[j] = s[j + 1]
    BY <1>1
  <2>3. ASSUME r[i].to = "slot"
        PROVE  i < Len(r) /\ r[i + 1].to = "last_code" /\ r[i + 1].what = r[i].what
    <3>1. /\ i + 1 < Len(s) /\ s[i + 2].to = "last_code"
          /\ s[i + 2].what = s[i + 1].what
      BY <2>1, <2>3 DEF ErrorsInOrder
    <3>2. i + 1 \in 1 .. Len(r)
      BY <1>1, <3>1
    <3>3. r[i + 1] = s[i + 2]
      BY <1>1, <3>2
    <3>. QED  BY <1>1, <2>1, <3>1, <3>3
  <2>4. ASSUME r[i].to \in {"slot", "last_code"}, NEW j \in 1 .. Len(r), r[j].to = r[i].to
        PROVE  i + 1 = j + 1
    BY <2>1, <2>2, <2>4 DEF ErrorsInOrder
  <2>. QED  BY <2>3, <2>4
<1>3. ErrorsInOrder(r)
  BY <1>2 DEF ErrorsInOrder
<1>. QED  BY <1>3 DEF r

-----------------------------------------------------------------------------
(* What a call owes when it has its result.                                 *)

Counts(s, c) == \E i \in 1 .. Len(s) : IsCounter(s[i], c)

CountsOutcome(s) == \E i \in 1 .. Len(s) : IsOutcome(s[i])

(* A failure left to write to the statistics is left to write to the slot.  *)
BothRecords(s) ==
  \A i \in 1 .. Len(s) :
    s[i].to = "last_code" => \E j \in 1 .. Len(s) : s[j].to = "slot"

InOrder(s) ==
  /\ CountersInOrder(s)
  /\ build.runtime = "stub" => ErrorsInOrder(s) /\ BothRecords(s)

CountsNothing(s) == \A i \in 1 .. Len(s) : s[i].to # "counter"

LEMMA NothingInOrder == InOrder(<< >>) /\ CountsNothing(<< >>)
BY DEF InOrder, CountersInOrder, ErrorsInOrder, BothRecords, CountsNothing

LEMMA SetErrorInOrder ==
  ASSUME NEW code \in Codes
  PROVE  InOrder(SetError(code)) /\ CountsNothing(SetError(code))
<1>. DEFINE s == SetError(code)
<1>1. /\ Len(s) = 2
      /\ s[1] = [to |-> "slot", what |-> code]
      /\ s[2] = [to |-> "last_code", what |-> code]
  BY DEF SetError
<1>. HIDE DEF s
<1>2. CountsNothing(s) /\ CountersInOrder(s)
  BY <1>1 DEF CountsNothing, CountersInOrder, IsCounter, IsOutcome
<1>3. ErrorsInOrder(s) /\ BothRecords(s)
  BY <1>1 DEF ErrorsInOrder, BothRecords
<1>. QED  BY <1>2, <1>3 DEF InOrder, s

LEMMA RecordedInOrder ==
  ASSUME NEW code \in Codes
  PROVE  InOrder(Recorded(code)) /\ CountsNothing(Recorded(code))
<1>1. CASE build.runtime # "sbcl"
  BY <1>1, SetErrorInOrder DEF Recorded
<1>2. CASE build.runtime = "sbcl"
  <2>. DEFINE s == Recorded(code)
  <2>1. Len(s) = 1 /\ s[1] = [to |-> "slot", what |-> code]
    BY <1>2 DEF Recorded
  <2>. HIDE DEF s
  <2>2. CountsNothing(s) /\ CountersInOrder(s)
    BY <2>1 DEF CountsNothing, CountersInOrder, IsCounter, IsOutcome
  <2>. QED  BY <1>2, <2>2 DEF InOrder, s
<1>. QED  BY <1>1, <1>2

LEMMA FailureInOrder ==
  ASSUME NEW code \in Codes, NEW s, s = SetError(code) \o <<Increment("parse_errors")>>
  PROVE  /\ InOrder(s) /\ Counts(s, "parse_errors")
         /\ ~Counts(s, "total_calls") /\ ~CountsOutcome(s)
<1>1. /\ Len(s) = 3
      /\ s[1] = [to |-> "slot", what |-> code]
      /\ s[2] = [to |-> "last_code", what |-> code]
      /\ s[3] = [to |-> "counter", what |-> "parse_errors"]
  BY DEF SetError, Increment
<1>2. /\ \A i \in 1 .. Len(s) : s[i].to = "counter" => i = 3
      /\ IsCounter(s[3], "parse_errors") /\ 3 \in 1 .. Len(s)
      /\ ~IsCounter(s[3], "total_calls") /\ ~IsOutcome(s[3])
  BY <1>1 DEF IsCounter, IsOutcome, OutcomeCounters
<1>3. CountersInOrder(s)
  BY <1>1, <1>2 DEF CountersInOrder, IsCounter, IsOutcome
<1>4. ErrorsInOrder(s) /\ BothRecords(s)
  BY <1>1 DEF ErrorsInOrder, BothRecords
<1>5. ~Counts(s, "total_calls") /\ ~CountsOutcome(s)
  BY <1>2 DEF Counts, CountsOutcome, IsCounter, IsOutcome
<1>6. Counts(s, "parse_errors")
  BY <1>2 DEF Counts
<1>. QED  BY <1>3, <1>4, <1>5, <1>6 DEF InOrder

(* The counters of a Tier 2 call, alone or before the two records of its    *)
(* failure.                                                                 *)
LEMMA OutcomeInOrder ==
  ASSUME NEW n \in {1, 2}, NEW m \in {0, 2}, NEW c \in OutcomeCounters, NEW s,
         Len(s) = n + m,
         s[n] = Increment(c),
         n = 2 => s[1] = Increment("total_calls"),
         m = 2 => s[n + 1] = [to |-> "slot", what |-> "NOT_IMPL"],
         m = 2 => s[n + 2] = [to |-> "last_code", what |-> "NOT_IMPL"]
  PROVE  /\ InOrder(s) /\ ~Counts(s, "parse_errors") /\ CountsOutcome(s)
         /\ Counts(s, "total_calls") <=> n = 2
<1>1. /\ n \in 1 .. Len(s)
      /\ \A i \in 1 .. Len(s) :
           \/ i = n \/ (i = 1 /\ n = 2)
           \/ (m = 2 /\ i = n + 1) \/ (m = 2 /\ i = n + 2)
  OBVIOUS
<1>2. /\ IsOutcome(s[n]) /\ ~IsCounter(s[n], "parse_errors")
      /\ ~IsCounter(s[n], "total_calls") /\ s[n].to = "counter"
  BY DEF Increment, IsOutcome, IsCounter, OutcomeCounters
<1>3. n = 2 => /\ IsCounter(s[1], "total_calls") /\ ~IsOutcome(s[1])
               /\ ~IsCounter(s[1], "parse_errors") /\ s[1].to = "counter"
  BY DEF Increment, IsOutcome, IsCounter, OutcomeCounters
<1>4. m = 2 => /\ s[n + 1].to = "slot" /\ s[n + 2].to = "last_code"
               /\ s[n + 2].what = s[n + 1].what
  OBVIOUS
<1>5. m = 2 => \A i \in {n + 1, n + 2} :
        ~IsOutcome(s[i]) /\ ~IsCounter(s[i], "parse_errors") /\ ~IsCounter(s[i], "total_calls")
  BY <1>4 DEF IsOutcome, IsCounter
<1>6. CountersInOrder(s)
  <2>1. ASSUME NEW i \in 1 .. Len(s)
        PROVE  /\ ~IsCounter(s[i], "parse_errors")
               /\ IsCounter(s[i], "total_calls") => n = 2 /\ i = 1
               /\ IsOutcome(s[i]) => i = n
    BY <1>1, <1>2, <1>3, <1>5
  <2>2. n = 2 => Len(s) > 1 /\ IsOutcome(s[2])
    BY <1>2
  <2>. QED  BY <2>1, <2>2 DEF CountersInOrder
<1>7. ErrorsInOrder(s) /\ BothRecords(s)
  <2>1. ASSUME NEW i \in 1 .. Len(s)
        PROVE  /\ s[i].to = "slot" => m = 2 /\ i = n + 1
               /\ s[i].to = "last_code" => m = 2 /\ i = n + 2
    BY <1>1, <1>2, <1>3, <1>4
  <2>2. m = 2 => n + 1 < Len(s) /\ n + 1 \in 1 .. Len(s)
    OBVIOUS
  <2>3. BothRecords(s)
    BY <1>4, <2>1, <2>2 DEF BothRecords
  <2>4. ASSUME NEW i \in 1 .. Len(s), s[i].to = "slot"
        PROVE  i < Len(s) /\ s[i + 1].to = "last_code" /\ s[i + 1].what = s[i].what
    <3>1. m = 2 /\ i = n + 1
      BY <2>1, <2>4
    <3>2. i + 1 = n + 2
      BY <3>1
    <3>. QED  BY <1>4, <2>2, <3>1, <3>2
  <2>5. ErrorsInOrder(s)
    BY <2>1, <2>4 DEF ErrorsInOrder
  <2>. QED  BY <2>3, <2>5
<1>8. ~Counts(s, "parse_errors") /\ CountsOutcome(s)
  BY <1>1, <1>2, <1>3, <1>5 DEF Counts, CountsOutcome
<1>9. Counts(s, "total_calls") <=> n = 2
  <2>1. n = 2 => 1 \in 1 .. Len(s)
    OBVIOUS
  <2>. QED  BY <1>1, <1>2, <1>3, <1>5, <2>1 DEF Counts
<1>. QED  BY <1>6, <1>7, <1>8, <1>9 DEF InOrder

(* What CallExpression leaves a call to write.                              *)
CallDue(kind) ==
  [i \in 1 .. Len(CallCounters(kind)) |-> Increment(CallCounters(kind)[i])]
    \o (IF Linked(kind) = "stub" THEN SetError("NOT_IMPL") ELSE << >>)

(* A Tier 2 call owes its outcome, after the call itself unless it gave     *)
(* nowhere to put a float.                                                  *)
LEMMA CallInOrder ==
  ASSUME NEW kind
  PROVE  /\ InOrder(CallDue(kind)) /\ ~Counts(CallDue(kind), "parse_errors")
         /\ CountsOutcome(CallDue(kind))
         /\ Counts(CallDue(kind), "total_calls")
              <=> ~(CallCode(kind) = "INVALID" /\ kind = "null_float")
<1>. DEFINE s == CallDue(kind)
            cs == CallCounters(kind)
            c == CounterOf[CallCode(kind)]
            calls == [i \in 1 .. Len(cs) |-> Increment(cs[i])]
            r == IF Linked(kind) = "stub" THEN SetError("NOT_IMPL") ELSE << >>
            late == CallCode(kind) = "INVALID" /\ kind = "null_float"
<1>1. c \in OutcomeCounters
  BY CallOutcome DEF CounterOf, OutcomeCounters
<1>2. cs = IF late THEN <<"invalid_calls">> ELSE <<"total_calls", c>>
  BY DEF CallCounters
<1>3. late => cs = <<c>>
  BY <1>2 DEF CounterOf
<1>4. /\ Len(cs) \in {1, 2} /\ cs[Len(cs)] = c
      /\ Len(cs) = 1 <=> late
      /\ Len(cs) = 2 => cs[1] = "total_calls"
  BY <1>2, <1>3
<1>5. calls \in Seq(Write) /\ Len(calls) = Len(cs)
  BY CallOutcome, IncrementType
<1>6. /\ r \in Seq(Write) /\ Len(r) \in {0, 2}
      /\ Len(r) = 2 => /\ r[1] = [to |-> "slot", what |-> "NOT_IMPL"]
                       /\ r[2] = [to |-> "last_code", what |-> "NOT_IMPL"]
  BY SetErrorType, NothingDue DEF Codes, SetError
<1>7. s = calls \o r
  BY DEF CallDue
<1>8. \A i \in 1 .. Len(cs) : calls[i] = Increment(cs[i])
  OBVIOUS
<1>. HIDE DEF s, c, cs, calls, r, late
<1>9. /\ Len(s) = Len(cs) + Len(r)
      /\ \A i \in 1 .. Len(cs) : s[i] = calls[i]
      /\ \A i \in 1 .. Len(r) : s[Len(cs) + i] = r[i]
  <2>1. /\ Len(s) = Len(calls) + Len(r)
        /\ \A i \in 1 .. Len(calls) + Len(r) :
             s[i] = IF i <= Len(calls) THEN calls[i] ELSE r[i - Len(calls)]
    BY <1>5, <1>6, <1>7, ConcatProperties
  <2>2. Len(s) = Len(cs) + Len(r)
    BY <1>5, <2>1
  <2>3. ASSUME NEW i \in 1 .. Len(cs)
        PROVE  s[i] = calls[i]
    BY <1>4, <1>5, <1>6, <2>1
  <2>4. ASSUME NEW i \in 1 .. Len(r)
        PROVE  s[Len(cs) + i] = r[i]
    <3>. DEFINE k == Len(cs) + i
    <3>1. k \in 1 .. Len(calls) + Len(r) /\ ~(k <= Len(calls)) /\ k - Len(calls) = i
      BY <1>4, <1>5, <1>6
    <3>. HIDE DEF k
    <3>2. s[k] = r[k - Len(calls)]
      BY <2>1, <3>1
    <3>. QED  BY <3>1, <3>2 DEF k
  <2>. QED  BY <2>2, <2>3, <2>4
<1>10. /\ s[Len(cs)] = Increment(c)
       /\ Len(cs) = 2 => s[1] = Increment("total_calls")
  <2>1. Len(cs) \in 1 .. Len(cs) /\ 1 \in 1 .. Len(cs)
    BY <1>4
  <2>2. \A i \in 1 .. Len(cs) : s[i] = Increment(cs[i])
    BY <1>8, <1>9
  <2>. QED  BY <1>4, <2>1, <2>2
<1>11. /\ Len(r) = 2 => s[Len(cs) + 1] = [to |-> "slot", what |-> "NOT_IMPL"]
       /\ Len(r) = 2 => s[Len(cs) + 2] = [to |-> "last_code", what |-> "NOT_IMPL"]
  BY <1>6, <1>9
<1>12. /\ InOrder(s) /\ ~Counts(s, "parse_errors") /\ CountsOutcome(s)
       /\ Counts(s, "total_calls") <=> Len(cs) = 2
  BY <1>1, <1>4, <1>6, <1>9, <1>10, <1>11, OutcomeInOrder
<1>13. Len(cs) = 2 <=> ~late
  BY <1>4
<1>. QED  BY <1>12, <1>13 DEF s, late

-----------------------------------------------------------------------------
(* A step of a thread ends its call with what it owes, makes one of its     *)
(* writes, or passes without either.                                        *)

Concludes(t, effects) ==
  /\ at[t] = "running" /\ at' = [at EXCEPT ![t] = "returning"]
  /\ due' = [due EXCEPT ![t] = effects]
  /\ UNCHANGED <<build, error, stats, lastCode, call, loaded>>

(* What is owed tells the failures and the calls with nowhere to put a      *)
(* float from the others.                                                   *)
Owed(t, effects) ==
  /\ InOrder(effects)
  /\ FailsIn(t) <=> Counts(effects, "parse_errors")
  /\ CountsOutcome(effects) /\ ~Counts(effects, "total_calls") <=> Nowhere(t)

Ends(t) == \E effects \in Seq(Write) : Concludes(t, effects) /\ Owed(t, effects)

Writes(t) == Load(t) \/ Store(t) \/ WriteError(t) \/ WriteLastCode(t)

Passes(t) ==
  /\ due[t] = << >> \/ at[t] # "returning"
  /\ UNCHANGED <<build, error, stats, lastCode, due, loaded>>

LEMMA QuietEnd ==
  ASSUME TypeOK, NEW t \in Threads, NEW effects \in Seq(Write), Concludes(t, effects),
         InOrder(effects), CountsNothing(effects), ~FailsIn(t), ~Nowhere(t)
  PROVE  Ends(t)
<1>1. ~Counts(effects, "parse_errors") /\ ~CountsOutcome(effects)
  BY DEF CountsNothing, Counts, CountsOutcome, IsCounter, IsOutcome
<1>. QED  BY <1>1 DEF Ends, Owed

LEMMA SteppingAside ==
  ASSUME TypeOK, NEW t \in Threads, ~Running(t, "eval"), ~Running(t, "call")
  PROVE  ~FailsIn(t) /\ ~Nowhere(t)
BY DEF FailsIn, Nowhere

LEMMA FailureEnds ==
  ASSUME TypeOK, NEW t \in Threads, NEW code \in Codes \ {"OK", "INVALID"},
         Running(t, "eval"), ~Refused(t), FailEvaluation(t, code), UNCHANGED <<shared, seen>>
  PROVE  Ends(t)
<1>. DEFINE effects == SetError(code) \o <<Increment("parse_errors")>>
<1>1. effects \in Seq(Write)
  BY FailureType
<1>2. /\ InOrder(effects) /\ Counts(effects, "parse_errors")
      /\ ~Counts(effects, "total_calls") /\ ~CountsOutcome(effects)
  BY FailureInOrder
<1>3. Concludes(t, effects) /\ rc'[t] = code /\ at'[t] = "returning"
  BY DEF FailEvaluation, Conclude, Concludes, Running, shared, TypeOK
<1>4. FailsIn(t) /\ ~Nowhere(t)
  BY <1>3 DEF FailsIn, Nowhere, Running
<1>. HIDE DEF effects
<1>. QED  BY <1>1, <1>2, <1>3, <1>4 DEF Ends, Owed

LEMMA CallEnds ==
  ASSUME TypeOK, NEW t \in Threads, CallExpression(t)
  PROVE  Ends(t)
<1>. DEFINE kind == call[t].name
            effects == CallDue(kind)
<1>1. effects \in Seq(Write)
  BY CallDueType DEF CallDue
<1>2. /\ InOrder(effects) /\ ~Counts(effects, "parse_errors") /\ CountsOutcome(effects)
      /\ Counts(effects, "total_calls") <=> ~(CallCode(kind) = "INVALID" /\ kind = "null_float")
  BY CallInOrder
<1>3. Conclude(t, CallCode(kind), effects) /\ Running(t, "call") /\ UNCHANGED <<shared, seen>>
  BY DEF CallExpression, CallDue
<1>. HIDE DEF effects
<1>4. Concludes(t, effects) /\ rc'[t] = CallCode(kind) /\ at'[t] = "returning"
  BY <1>3 DEF Conclude, Concludes, Running, shared, TypeOK
<1>5. ~FailsIn(t)
  BY <1>3 DEF FailsIn, Running
<1>6. Nowhere(t) <=> CallCode(kind) = "INVALID" /\ kind = "null_float"
  BY <1>3, <1>4 DEF Nowhere
<1>. QED  BY <1>1, <1>2, <1>4, <1>5, <1>6 DEF Ends, Owed

LEMMA StepKinds ==
  ASSUME TypeOK, NEW t \in Threads, Step(t)
  PROVE  Ends(t) \/ ((Writes(t) \/ Passes(t)) /\ ~FailsIn(t) /\ ~Nowhere(t))
<1>1. ASSUME NEW code \in Codes, NEW effects \in Seq(Write), Conclude(t, code, effects),
             at[t] = "running", UNCHANGED <<build, error, stats, lastCode>>,
             InOrder(effects), CountsNothing(effects),
             call[t].op # "call", call[t].op = "eval" => Refused(t) \/ code \in {"OK", "INVALID"}
      PROVE  Ends(t)
  <2>1. Concludes(t, effects) /\ rc'[t] = code
    BY <1>1 DEF Conclude, Concludes, TypeOK
  <2>2. ~FailsIn(t) /\ ~Nowhere(t)
    BY <1>1, <2>1 DEF FailsIn, Nowhere, Running
  <2>. QED  BY <1>1, <2>1, <2>2, QuietEnd
<1>2. {"OK", "INIT", "INVALID", "EVAL", "NOT_IMPL"} \subseteq Codes
  BY DEF Codes
<1>3. CASE Acquire(t) \/ Return(t)
  <2>1. ~FailsIn(t) /\ ~Nowhere(t)
    BY <1>3, SteppingAside DEF Acquire, Return, Running
  <2>. QED  BY <1>3, <2>1 DEF Acquire, Return, Passes
<1>4. CASE Writes(t)
  <2>1. ~FailsIn(t) /\ ~Nowhere(t)
    BY <1>4, SteppingAside DEF Writes, Load, Store, WriteError, WriteLastCode, NextIs, Running
  <2>. QED  BY <1>4, <2>1
<1>5. CASE Refuse(t)
  <2>1. Conclude(t, "INIT", SetError("INIT")) /\ at[t] = "running" /\ Refused(t)
        /\ UNCHANGED shared /\ call[t].op # "call"
    BY <1>5 DEF Refuse, LockingOps
  <2>. QED  BY <1>1, <1>2, <2>1, SetErrorType, SetErrorInOrder DEF shared
<1>6. CASE EvaluateNothing(t)
  <2>1. Conclude(t, "INVALID", SetError("INVALID")) /\ at[t] = "running"
        /\ UNCHANGED shared /\ call[t].op = "eval"
    BY <1>6 DEF EvaluateNothing, Running
  <2>. QED  BY <1>1, <1>2, <2>1, SetErrorType, SetErrorInOrder DEF shared
<1>7. CASE ReadVariable(t)
  <2>1. at' = at /\ at[t] = "running" /\ UNCHANGED <<build, error, stats, lastCode, due, loaded>>
    BY <1>7 DEF ReadVariable, Reading, Running, shared
  <2>. QED  BY <2>1 DEF Passes, FailsIn, Nowhere
<1>8. CASE ReadUnbound(t)
  <2>1. /\ Running(t, "eval") /\ ~Refused(t) /\ FailEvaluation(t, "EVAL")
        /\ UNCHANGED <<shared, seen>>
    BY <1>8 DEF ReadUnbound, Reading
  <2>. QED  BY <1>2, <2>1, FailureEnds
<1>9. CASE EndEvaluation(t)
  <2>1. /\ Running(t, "eval") /\ ~Refused(t) /\ call[t].expr # NULL
        /\ UNCHANGED <<shared, seen>>
        /\ IF call[t].expr.end = "OK" THEN Conclude(t, "OK", << >>)
           ELSE FailEvaluation(t, call[t].expr.end)
    BY <1>9 DEF EndEvaluation
  <2>2. call[t].expr \in ExpressionType
    BY <2>1, RuntimeAssumption DEF TypeOK, CallType
  <2>3. call[t].expr.end \in {"OK", "PARSE", "EVAL", "INIT"}
    BY <2>2 DEF ExpressionType
  <2>4. CASE call[t].expr.end = "OK"
    BY <1>1, <1>2, <2>1, <2>4, NothingDue, NothingInOrder DEF Running, shared
  <2>5. CASE call[t].expr.end # "OK"
    <3>1. call[t].expr.end \in Codes \ {"OK", "INVALID"}
      BY <2>3, <2>5 DEF Codes
    <3>. QED  BY <2>1, <2>5, <3>1, FailureEnds
  <2>. QED  BY <2>4, <2>5
<1>10. CASE SetVariable(t) \/ ClearVariables(t) \/ SetLevel(t) \/ GetLevel(t)
  <2>1. Conclude(t, "OK", << >>) /\ at[t] = "running" /\ call[t].op \notin {"eval", "call"}
        /\ UNCHANGED <<build, error, stats, lastCode>>
    BY <1>10 DEF SetVariable, ClearVariables, SetLevel, GetLevel, Running, shared
  <2>. QED  BY <1>1, <1>2, <2>1, NothingDue, NothingInOrder
<1>11. CASE SetRefused(t)
  <2>1. PICK code \in {"INVALID", "EVAL"} : Conclude(t, code, << >>)
    BY <1>11 DEF SetRefused
  <2>2. at[t] = "running" /\ call[t].op = "set" /\ UNCHANGED <<build, error, stats, lastCode>>
    BY <1>11 DEF SetRefused, Running, shared
  <2>. QED  BY <1>1, <1>2, <2>1, <2>2, NothingDue, NothingInOrder
<1>12. CASE CallExpression(t)
  BY <1>12, CallEnds
<1>13. CASE CallUnsupported(t) \/ GetStats(t)
  <2>1. PICK code \in {"INVALID", "NOT_IMPL"} : Conclude(t, code, Recorded(code))
    BY <1>13 DEF CallUnsupported, GetStats
  <2>2. at[t] = "running" /\ call[t].op \notin {"eval", "call"}
        /\ UNCHANGED <<build, error, stats, lastCode>>
    BY <1>13 DEF CallUnsupported, GetStats, Running, shared
  <2>3. Recorded(code) \in Seq(Write) /\ InOrder(Recorded(code)) /\ CountsNothing(Recorded(code))
    BY <1>2, RecordedType, RecordedInOrder
  <2>. QED  BY <1>1, <1>2, <2>1, <2>2, <2>3
<1>14. CASE CreateContext(t)
  <2>1. at[t] = "running" /\ call[t].op = "create" /\ UNCHANGED <<build, error, stats, lastCode>>
    BY <1>14 DEF CreateContext, Running, shared
  <2>2. Conclude(t, "OK", << >>) \/ Conclude(t, "INIT", SetError("INIT"))
    BY <1>14 DEF CreateContext
  <2>3. CASE Conclude(t, "OK", << >>)
    BY <1>1, <1>2, <2>1, <2>3, NothingDue, NothingInOrder
  <2>4. CASE Conclude(t, "INIT", SetError("INIT"))
    BY <1>1, <1>2, <2>1, <2>4, SetErrorType, SetErrorInOrder
  <2>. QED  BY <2>2, <2>3, <2>4
<1>15. CASE DestroyContext(t)
  <2>1. Conclude(t, "OK", << >>) /\ at[t] = "running" /\ call[t].op = "destroy"
        /\ UNCHANGED <<build, error, stats, lastCode>>
    BY <1>15 DEF DestroyContext, Running
  <2>. QED  BY <1>1, <1>2, <2>1, NothingDue, NothingInOrder
<1>. QED
  BY <1>3, <1>4, <1>5, <1>6, <1>7, <1>8, <1>9, <1>10, <1>11, <1>12, <1>13, <1>14, <1>15
  DEF Step, Writes

-----------------------------------------------------------------------------
(* What the runtime keeps of its writes, whatever the history.              *)

WritesInOrder(t) ==
  /\ due[t] # << >> => at[t] = "returning"
  /\ loaded[t] # NULL => due[t] # << >> /\ Head(due[t]).to = "counter"
  /\ CountersInOrder(due[t])
  /\ build.runtime = "stub" => ErrorsInOrder(due[t])

HistoryType ==
  /\ failures \in Nat /\ nowhere \in Nat
  /\ raced \in BOOLEAN /\ crossed \in BOOLEAN /\ torn \in BOOLEAN

OrderInv == MutexInv /\ HistoryType /\ \A t \in Threads : WritesInOrder(t)

LEMMA OthersKeepTheirWrites ==
  ASSUME TypeOK, NEW t \in Threads, Step(t), NEW u \in Threads, u # t
  PROVE  at'[u] = at[u] /\ call'[u] = call[u] /\ due'[u] = due[u] /\ loaded'[u] = loaded[u]
<1>1. at'[u] = at[u] /\ call'[u] = call[u]
  BY OthersStay
<1>2. CASE Ends(t)
  BY <1>1, <1>2 DEF Ends, Concludes, TypeOK
<1>3. CASE Writes(t)
  BY <1>1, <1>3 DEF Writes, Load, Store, WriteError, WriteLastCode, Done, TypeOK
<1>4. CASE Passes(t)
  BY <1>1, <1>4 DEF Passes
<1>. QED  BY <1>2, <1>3, <1>4, StepKinds

(* A thread that makes a write.                                             *)
LEMMA WriteMade ==
  ASSUME OrderInv, NEW t \in Threads, Store(t) \/ WriteError(t) \/ WriteLastCode(t)
  PROVE  /\ due[t] \in Seq(Write) /\ due[t] # << >>
         /\ due'[t] = Tail(due[t])
         /\ loaded'[t] = NULL
         /\ at' = at /\ call' = call /\ build' = build
         /\ at[t] = "returning"
<1>1. due[t] \in Seq(Write) /\ due[t] # << >> /\ at[t] = "returning"
  BY DEF OrderInv, MutexInv, TypeOK, Store, WriteError, WriteLastCode, NextIs
<1>2. due'[t] = Tail(due[t])
  BY DEF OrderInv, MutexInv, TypeOK, Store, WriteError, WriteLastCode, Done
<1>3. loaded'[t] = NULL
  <2>1. CASE Store(t)
    BY <2>1 DEF OrderInv, MutexInv, TypeOK, Store
  <2>2. CASE WriteError(t) \/ WriteLastCode(t)
    <3>1. Head(due[t]).to # "counter" /\ loaded' = loaded
      BY <2>2 DEF WriteError, WriteLastCode, NextIs
    <3>. QED  BY <3>1 DEF OrderInv, WritesInOrder
  <2>. QED  BY <2>1, <2>2
<1>4. at' = at /\ call' = call /\ build' = build
  BY DEF Store, WriteError, WriteLastCode
<1>. QED  BY <1>1, <1>2, <1>3, <1>4

LEMMA EndReached ==
  ASSUME OrderInv, NEW t \in Threads, NEW effects \in Seq(Write), Concludes(t, effects)
  PROVE  /\ due[t] = << >> /\ due'[t] = effects
         /\ loaded[t] = NULL /\ loaded'[t] = NULL
         /\ at[t] = "running" /\ at'[t] = "returning"
         /\ call' = call /\ stats' = stats /\ error' = error /\ lastCode' = lastCode
         /\ build' = build
<1>1. at[t] = "running" /\ at'[t] = "returning" /\ due'[t] = effects
  BY DEF OrderInv, MutexInv, TypeOK, Concludes
<1>2. due[t] = << >> /\ loaded[t] = NULL
  BY <1>1 DEF OrderInv, WritesInOrder
<1>. QED  BY <1>1, <1>2 DEF Concludes

LEMMA WritesStep ==
  ASSUME OrderInv, NEW t \in Threads, Step(t)
  PROVE  \A u \in Threads : WritesInOrder(u)'
<1>. TypeOK /\ \A u \in Threads : WritesInOrder(u)
  BY DEF OrderInv, MutexInv
<1>0. build' = build
  BY StepKinds DEF Ends, Concludes, Writes, Load, Store, WriteError, WriteLastCode, shared, Passes
<1>1. ASSUME NEW u \in Threads, u # t
      PROVE  WritesInOrder(u)'
  BY <1>0, <1>1, OthersKeepTheirWrites DEF WritesInOrder
<1>2. CASE Ends(t)
  <2>1. PICK effects \in Seq(Write) : Concludes(t, effects) /\ Owed(t, effects)
    BY <1>2 DEF Ends
  <2>2. /\ CountersInOrder(effects)
        /\ build.runtime = "stub" => ErrorsInOrder(effects)
    BY <2>1 DEF Owed, InOrder
  <2>3. WritesInOrder(t)'
    BY <1>0, <2>1, <2>2, EndReached DEF WritesInOrder
  <2>. QED  BY <1>1, <2>3
<1>3. CASE Load(t)
  <2>1. WritesInOrder(t)'
    BY <1>0, <1>3 DEF Load, NextIs, WritesInOrder
  <2>. QED  BY <1>1, <2>1
<1>4. CASE Store(t) \/ WriteError(t) \/ WriteLastCode(t)
  <2>1. /\ CountersInOrder(Tail(due[t]))
        /\ build.runtime = "stub" => ErrorsInOrder(Tail(due[t]))
    BY <1>4, WriteMade, TailKeepsCounters, TailKeepsErrors DEF WritesInOrder
  <2>2. WritesInOrder(t)'
    BY <1>0, <1>4, <2>1, WriteMade DEF WritesInOrder
  <2>. QED  BY <1>1, <2>2
<1>5. CASE Passes(t)
  <2>1. due[t] = << >>
    BY <1>5 DEF Passes, WritesInOrder
  <2>2. WritesInOrder(t)'
    BY <1>0, <1>5, <2>1 DEF Passes, WritesInOrder
  <2>. QED  BY <1>1, <2>2
<1>. QED  BY <1>2, <1>3, <1>4, <1>5, StepKinds DEF Writes

(* Between calls nothing is left to write, and asking for a call writes     *)
(* nothing.                                                                 *)
LEMMA NothingLeft ==
  ASSUME OrderInv, Quiescent, NEW t \in Threads
  PROVE  due[t] = << >> /\ loaded[t] = NULL
BY DEF OrderInv, WritesInOrder, Quiescent

LEMMA AskWritesNothing ==
  ASSUME OrderInv, Ask
  PROVE  /\ UNCHANGED <<build, error, stats, lastCode, due, loaded>>
         /\ \A u \in Threads : due[u] # << >> => at'[u] = at[u] /\ call'[u] = call[u]
<1>1. PICK t \in Threads : \E c \in CallsOf(t) : Enter(t, c)
  BY DEF Ask
<1>2. at[t] = "idle" /\ UNCHANGED <<build, error, stats, lastCode, due, loaded>>
  BY <1>1 DEF Enter, shared
<1>3. \A u \in Threads \ {t} : at'[u] = at[u] /\ call'[u] = call[u]
  BY <1>1 DEF Enter, OrderInv, MutexInv, TypeOK
<1>4. due[t] = << >>
  BY <1>2 DEF OrderInv, WritesInOrder
<1>. QED  BY <1>2, <1>3, <1>4

LEMMA HistoryStepsAreSteps == [HistoryNext]_historyVars => [Next]_vars
BY DEF HistoryNext, HistoryRequest, ResetHistory, InitHistory, HistoryStep, historyVars,
       Next, Request

LEMMA OrderNext == OrderInv /\ [HistoryNext]_historyVars => OrderInv'
<1>. SUFFICES ASSUME OrderInv, [HistoryNext]_historyVars PROVE OrderInv'
  OBVIOUS
<1>1. MutexInv'
  BY HistoryStepsAreSteps, MutexNext DEF OrderInv
<1>2. CASE \E t \in Threads : HistoryStep(t)
  <2>1. PICK t \in Threads : HistoryStep(t)
    BY <1>2
  <2>2. HistoryType'
    BY <2>1 DEF HistoryStep, OrderInv, HistoryType
  <2>3. \A u \in Threads : WritesInOrder(u)'
    BY <2>1, WritesStep DEF HistoryStep
  <2>. QED  BY <1>1, <2>2, <2>3 DEF OrderInv
<1>3. CASE Ask /\ UNCHANGED history
  <2>1. \A u \in Threads : WritesInOrder(u)'
    BY <1>3, AskWritesNothing DEF OrderInv, WritesInOrder
  <2>2. HistoryType'
    BY <1>3 DEF OrderInv, HistoryType, history
  <2>. QED  BY <1>1, <2>1, <2>2 DEF OrderInv
<1>4. CASE ResetHistory \/ InitHistory \/ (Shutdown /\ UNCHANGED history)
            \/ UNCHANGED historyVars
  <2>1. UNCHANGED <<build, at, due, loaded>>
    BY <1>4 DEF ResetHistory, ResetStats, InitHistory, InitLibrary, Shutdown, locals, historyVars,
                vars, shared
  <2>2. \A u \in Threads : WritesInOrder(u)'
    BY <2>1 DEF OrderInv, WritesInOrder
  <2>3. HistoryType'
    <3>1. torn' \in BOOLEAN
      BY <1>4, Zenon DEF ResetHistory, InitHistory, OrderInv, HistoryType, historyVars, history
    <3>2. raced' \in BOOLEAN /\ crossed' \in BOOLEAN
      BY <1>4, Zenon DEF ResetHistory, InitHistory, OrderInv, HistoryType, historyVars, history
    <3>3. failures' \in Nat /\ nowhere' \in Nat
      BY <1>4 DEF ResetHistory, InitHistory, OrderInv, HistoryType, historyVars, history
    <3>. QED  BY <3>1, <3>2, <3>3 DEF HistoryType
  <2>. QED  BY <1>1, <2>2, <2>3 DEF OrderInv
<1>. QED  BY <1>2, <1>3, <1>4 DEF HistoryNext, HistoryRequest

LEMMA OrderInit == HistoryInit => OrderInv
<1>. SUFFICES ASSUME HistoryInit PROVE OrderInv
  OBVIOUS
<1>1. MutexInv /\ HistoryType
  BY MutexInit DEF HistoryInit, HistoryType
<1>2. ASSUME NEW t \in Threads PROVE WritesInOrder(t)
  <2>1. due[t] = << >> /\ loaded[t] = NULL
    BY DEF HistoryInit, Init
  <2>. QED  BY <2>1, NothingInOrder DEF WritesInOrder, InOrder
<1>. QED  BY <1>1, <1>2 DEF OrderInv

LEMMA OrderInvariant == HistorySpec => []OrderInv
BY OrderInit, OrderNext, PTL DEF HistorySpec

-----------------------------------------------------------------------------
(* Failures of the parser.  Unless one has raced, a thread that has one to  *)
(* count holds the mutex: it is the only one, and the counter is one behind *)
(* until it is done.                                                        *)

OwesFailure(t) == Counts(due[t], "parse_errors")

FailuresInv ==
  ~raced =>
    /\ \A t \in Threads : OwesFailure(t) => Locks(call[t])
    /\ \A t \in Threads :
         OwesFailure(t) => stats["parse_errors"] + 1 = failures
    /\ (\A t \in Threads : ~OwesFailure(t)) => stats["parse_errors"] = failures
    /\ \A t \in Threads :
         loaded[t] # NULL /\ Head(due[t]).what = "parse_errors" =>
           loaded[t] = stats["parse_errors"]

LEMMA TailCounts ==
  ASSUME NEW s \in Seq(Write), s # << >>, NEW c
  PROVE  /\ ~IsCounter(Head(s), c) => (Counts(Tail(s), c) <=> Counts(s, c))
         /\ IsCounter(Head(s), c) => Counts(s, c)
<1>. DEFINE r == Tail(s)
<1>1. /\ Len(s) \in Nat \ {0} /\ Len(r) = Len(s) - 1 /\ Head(s) = s[1]
      /\ \A i \in 1 .. Len(r) : r[i] = s[i + 1]
  BY TailAt
<1>. HIDE DEF r
<1>2. 1 \in 1 .. Len(s)
  BY <1>1
<1>3. ASSUME NEW i \in 1 .. Len(r), IsCounter(r[i], c)
      PROVE  Counts(s, c)
  <2>1. i + 1 \in 1 .. Len(s) /\ IsCounter(s[i + 1], c)
    BY <1>1, <1>3
  <2>. QED  BY <2>1 DEF Counts
<1>4. ASSUME NEW i \in 1 .. Len(s), IsCounter(s[i], c), ~IsCounter(Head(s), c)
      PROVE  Counts(r, c)
  <2>1. i # 1 /\ i - 1 \in 1 .. Len(r)
    BY <1>1, <1>4
  <2>2. r[i - 1] = s[(i - 1) + 1] /\ (i - 1) + 1 = i
    BY <1>1, <2>1
  <2>. QED  BY <1>4, <2>1, <2>2 DEF Counts
<1>5. IsCounter(Head(s), c) => Counts(s, c)
  BY <1>1, <1>2 DEF Counts
<1>6. ~IsCounter(Head(s), c) => (Counts(r, c) <=> Counts(s, c))
  BY <1>3, <1>4 DEF Counts
<1>. QED  BY <1>5, <1>6 DEF r

(* Two calls that take the mutex are not inside at a time.                  *)
LEMMA OneInside ==
  ASSUME MutexInv, Locking, NEW t \in Threads, NEW u \in Threads, InGlobal(t), InGlobal(u)
  PROVE  t = u
BY DEF MutexInv, MutexIsHeldInsideCalls

LEMMA LockedInside ==
  ASSUME NEW t \in Threads, Locks(call[t]), at[t] \in {"running", "returning"}
  PROVE  Locking /\ InGlobal(t)
BY DEF Locks, InGlobal

LEMMA OwingFailure ==
  ASSUME OrderInv, NEW t \in Threads, OwesFailure(t)
  PROVE  due[t] # << >> /\ at[t] = "returning"
BY DEF OwesFailure, Counts, OrderInv, WritesInOrder

LEMMA OneOwesFailure ==
  ASSUME OrderInv, FailuresInv, ~raced, NEW t \in Threads, NEW u \in Threads,
         OwesFailure(t), Locks(call[u]), at[u] \in {"running", "returning"}
  PROVE  t = u
<1>1. Locks(call[t]) /\ at[t] = "returning"
  BY OwingFailure DEF FailuresInv
<1>. QED  BY <1>1, LockedInside, OneInside DEF OrderInv

LEMMA FailuresStep ==
  ASSUME OrderInv, FailuresInv, NEW t \in Threads, HistoryStep(t)
  PROVE  FailuresInv'
<1>. TypeOK /\ HistoryType /\ (\A u \in Threads : WritesInOrder(u)) /\ Step(t)
  BY DEF OrderInv, MutexInv, HistoryStep
<1>. SUFFICES ASSUME ~raced'
              PROVE  /\ \A u \in Threads : OwesFailure(u)' => Locks(call'[u])
                     /\ \A u \in Threads :
                          OwesFailure(u)' => stats'["parse_errors"] + 1 = failures'
                     /\ (\A u \in Threads : ~OwesFailure(u)') =>
                          stats'["parse_errors"] = failures'
                     /\ \A u \in Threads :
                          loaded'[u] # NULL /\ Head(due'[u]).what = "parse_errors" =>
                            loaded'[u] = stats'["parse_errors"]
  BY DEF FailuresInv, Locks
<1>0. /\ ~raced /\ (FailsIn(t) => Locks(call[t]))
      /\ failures' = IF FailsIn(t) THEN failures + 1 ELSE failures
  BY DEF HistoryStep, HistoryType
<1>1. /\ \A u \in Threads : OwesFailure(u) => Locks(call[u])
      /\ \A u \in Threads : OwesFailure(u) => stats["parse_errors"] + 1 = failures
      /\ (\A u \in Threads : ~OwesFailure(u)) => stats["parse_errors"] = failures
      /\ \A u \in Threads : loaded[u] # NULL /\ Head(due[u]).what = "parse_errors" =>
           loaded[u] = stats["parse_errors"]
  BY <1>0 DEF FailuresInv
<1>2. \A u \in Threads \ {t} :
        /\ OwesFailure(u)' <=> OwesFailure(u)
        /\ at'[u] = at[u] /\ call'[u] = call[u] /\ due'[u] = due[u] /\ loaded'[u] = loaded[u]
  BY OthersKeepTheirWrites DEF OwesFailure
<1>3. CASE Ends(t)
  <2>1. PICK effects \in Seq(Write) : Concludes(t, effects) /\ Owed(t, effects)
    BY <1>3 DEF Ends
  <2>2. /\ due[t] = << >> /\ due'[t] = effects /\ loaded'[t] = NULL
        /\ at[t] = "running" /\ call' = call /\ stats' = stats
    BY <2>1, EndReached
  <2>3. ~OwesFailure(t) /\ (OwesFailure(t)' <=> FailsIn(t))
    BY <2>1, <2>2 DEF Owed, OwesFailure, Counts
  <2>4. CASE FailsIn(t)
    <3>1. \A u \in Threads : ~OwesFailure(u)
      BY <1>0, <2>2, <2>3, <2>4, OneOwesFailure
    <3>2. stats["parse_errors"] = failures /\ failures' = failures + 1
      BY <1>0, <1>1, <2>4, <3>1
    <3>3. \A u \in Threads : OwesFailure(u)' => u = t
      BY <1>2, <3>1
    <3>. QED  BY <1>0, <1>1, <1>2, <2>2, <2>3, <2>4, <3>2, <3>3
  <2>5. CASE ~FailsIn(t)
    <3>1. \A u \in Threads : OwesFailure(u)' <=> OwesFailure(u)
      BY <1>2, <2>3, <2>5
    <3>2. failures' = failures
      BY <1>0, <2>5
    <3>. QED  BY <1>1, <1>2, <2>2, <3>1, <3>2
  <2>. QED  BY <2>4, <2>5
<1>4. CASE ~Ends(t)
  <2>0. (Writes(t) \/ Passes(t)) /\ failures' = failures
    BY <1>0, <1>4, StepKinds
  <2>1. CASE Passes(t)
    <3>1. UNCHANGED <<stats, due, loaded>> /\ due[t] = << >>
      BY <2>1 DEF Passes, WritesInOrder
    <3>2. ~OwesFailure(t) /\ \A u \in Threads : OwesFailure(u)' <=> OwesFailure(u)
      BY <3>1 DEF OwesFailure, Counts
    <3>. QED  BY <1>1, <1>2, <2>0, <3>1, <3>2
  <2>2. CASE Load(t)
    <3>1. /\ UNCHANGED <<stats, due, call>>
          /\ loaded'[t] = stats[Head(due[t]).what]
      BY <2>2 DEF Load, shared, TypeOK
    <3>2. \A u \in Threads : OwesFailure(u)' <=> OwesFailure(u)
      BY <3>1 DEF OwesFailure
    <3>. QED  BY <1>1, <1>2, <2>0, <3>1, <3>2
  <2>3. CASE Store(t) \/ WriteError(t) \/ WriteLastCode(t)
    <3>. DEFINE s == due[t]
    <3>1. /\ s \in Seq(Write) /\ s # << >> /\ due'[t] = Tail(s)
          /\ loaded'[t] = NULL /\ call' = call /\ at[t] = "returning"
      BY <2>3, WriteMade
    <3>2. CASE IsCounter(Head(s), "parse_errors")
      <4>1. Store(t) /\ loaded[t] # NULL
        BY <2>3, <3>2 DEF Store, WriteError, WriteLastCode, NextIs, IsCounter
      <4>2. OwesFailure(t)
        BY <3>1, <3>2, TailCounts DEF OwesFailure
      <4>3. loaded[t] = stats["parse_errors"]
        BY <1>1, <3>2, <4>1 DEF IsCounter
      <4>4. stats'["parse_errors"] = stats["parse_errors"] + 1
        BY <3>2, <4>1, <4>3 DEF Store, IsCounter, TypeOK, Counters
      <4>5. Len(s) = 1
        <5>1. Head(s) = s[1] /\ 1 \in 1 .. Len(s)
          BY <3>1, TailAt
        <5>2. CountersInOrder(s)
          BY DEF WritesInOrder
        <5>. QED  BY <3>2, <5>1, <5>2 DEF CountersInOrder
      <4>6. ~OwesFailure(t)'
        BY <3>1, <4>5, TailAt DEF OwesFailure, Counts
      <4>7. \A u \in Threads \ {t} : ~OwesFailure(u)
        BY <1>0, <1>1, <3>1, <4>2, OneOwesFailure
      <4>8. \A u \in Threads : ~OwesFailure(u)'
        BY <1>2, <4>6, <4>7
      <4>9. stats'["parse_errors"] = failures'
        BY <1>1, <2>0, <4>2, <4>4
      <4>10. \A u \in Threads : loaded'[u] # NULL => Head(due'[u]).what # "parse_errors"
        <5>. SUFFICES ASSUME NEW u \in Threads, loaded'[u] # NULL,
                             Head(due'[u]).what = "parse_errors"
                      PROVE  FALSE
          OBVIOUS
        <5>1. u # t /\ loaded[u] # NULL /\ Head(due[u]).what = "parse_errors"
          BY <1>2, <3>1
        <5>2. due[u] # << >> /\ IsCounter(Head(due[u]), "parse_errors") /\ due[u] \in Seq(Write)
          BY <5>1 DEF WritesInOrder, IsCounter, TypeOK
        <5>. QED  BY <4>7, <5>1, <5>2, TailCounts DEF OwesFailure
      <4>. QED  BY <4>8, <4>9, <4>10
    <3>3. CASE ~IsCounter(Head(s), "parse_errors")
      <4>1. OwesFailure(t)' <=> OwesFailure(t)
        BY <3>1, <3>3, TailCounts DEF OwesFailure
      <4>2. \A u \in Threads : OwesFailure(u)' <=> OwesFailure(u)
        BY <1>2, <4>1
      <4>3. stats'["parse_errors"] = stats["parse_errors"]
        BY <2>3, <3>3 DEF Store, WriteError, WriteLastCode, NextIs, IsCounter, TypeOK, Counters
      <4>. QED  BY <1>1, <1>2, <2>0, <3>1, <4>2, <4>3
    <3>. QED  BY <3>2, <3>3
  <2>. QED  BY <2>0, <2>1, <2>2, <2>3 DEF Writes
<1>. QED  BY <1>3, <1>4

LEMMA FailuresNext == OrderInv /\ FailuresInv /\ [HistoryNext]_historyVars => FailuresInv'
<1>. SUFFICES ASSUME OrderInv, FailuresInv, [HistoryNext]_historyVars PROVE FailuresInv'
  OBVIOUS
<1>1. CASE \E t \in Threads : HistoryStep(t)
  BY <1>1, FailuresStep
<1>2. CASE Ask /\ UNCHANGED history
  <2>1. \A u \in Threads : OwesFailure(u) => call'[u] = call[u]
    BY <1>2, AskWritesNothing DEF OwesFailure, Counts
  <2>2. UNCHANGED <<stats, due, loaded, failures, raced>>
    BY <1>2, AskWritesNothing DEF history
  <2>3. \A u \in Threads : OwesFailure(u)' <=> OwesFailure(u)
    BY <2>2 DEF OwesFailure
  <2>. QED  BY <2>1, <2>2, <2>3 DEF FailuresInv, Locks
<1>3. CASE UNCHANGED historyVars
  BY <1>3 DEF FailuresInv, OwesFailure, Locks, historyVars, history, vars, shared, locals
<1>4. CASE ResetHistory \/ InitHistory \/ (Shutdown /\ UNCHANGED history)
  <2>1. Quiescent /\ UNCHANGED <<due, loaded>>
    BY <1>4 DEF ResetHistory, ResetStats, InitHistory, InitLibrary, Shutdown, locals
  <2>2. \A u \in Threads : ~OwesFailure(u) /\ ~OwesFailure(u)' /\ loaded'[u] = NULL
    BY <2>1, NothingLeft DEF OwesFailure, Counts
  <2>3. \/ stats' = ZeroStats /\ failures' = 0
        \/ UNCHANGED <<stats, failures, raced>>
    BY <1>4 DEF ResetHistory, ResetStats, InitHistory, InitLibrary, Shutdown, history
  <2>4. ZeroStats["parse_errors"] = 0
    BY DEF ZeroStats, Counters
  <2>. QED  BY <2>2, <2>3, <2>4 DEF FailuresInv
<1>. QED  BY <1>1, <1>2, <1>3, <1>4 DEF HistoryNext, HistoryRequest

LEMMA FailuresInit == HistoryInit => FailuresInv
<1>. SUFFICES ASSUME HistoryInit PROVE FailuresInv
  OBVIOUS
<1>1. \A t \in Threads : ~OwesFailure(t) /\ loaded[t] = NULL
  BY DEF HistoryInit, Init, OwesFailure, Counts
<1>2. stats["parse_errors"] = failures
  BY DEF HistoryInit, Init, ZeroStats, Counters
<1>. QED  BY <1>1, <1>2 DEF FailuresInv

(* However many threads evaluate, set and call, the failures of the parser  *)
(* are counted one for one in parse_errors, unless one in an explicit       *)
(* context has been counted without the mutex of smc_runtime_stub.c.        *)
THEOREM FailuresCounted == HistorySpec => []FailuresAreCounted
<1>1. OrderInv /\ FailuresInv => FailuresAreCounted
  <2>. SUFFICES ASSUME OrderInv, FailuresInv, Quiescent, ~raced
                PROVE  stats["parse_errors"] = failures
    BY DEF FailuresAreCounted
  <2>1. \A t \in Threads : ~OwesFailure(t)
    BY NothingLeft DEF OwesFailure, Counts
  <2>. QED  BY <2>1 DEF FailuresInv
<1>2. HistorySpec => []FailuresInv
  BY FailuresInit, FailuresNext, OrderInvariant, PTL DEF HistorySpec
<1>. QED  BY <1>1, <1>2, OrderInvariant, PTL

-----------------------------------------------------------------------------
(* Tier 2 calls.  Unless two of them have crossed, at most one thread is    *)
(* writing counters; it has counted its call and not yet the outcome, or    *)
(* both are counted, or neither.                                            *)

OwesCounter(t) == Owes(t, {"counter"})

OwesOutcome(t) == CountsOutcome(due[t]) /\ ~Counts(due[t], "total_calls")

Outcomes(counters) ==
  counters["generated_hits"] + counters["fallback_evals"] + counters["invalid_ids"]
    + counters["arity_errors"] + counters["invalid_calls"]

CallsInv ==
  ~crossed =>
    /\ ~Crossing
    /\ \A t \in Threads :
         OwesOutcome(t) => stats["total_calls"] + nowhere = Outcomes(stats) + 1
    /\ (\A t \in Threads : ~OwesOutcome(t)) =>
         stats["total_calls"] + nowhere = Outcomes(stats)
    /\ \A t \in Threads : loaded[t] # NULL => loaded[t] = stats[Head(due[t]).what]

LEMMA OutcomesType ==
  ASSUME NEW counters \in [Counters -> Nat]
  PROVE  Outcomes(counters) \in Nat
BY DEF Outcomes, Counters

LEMMA OutcomeCounted ==
  ASSUME NEW counters \in [Counters -> Nat], NEW c \in Counters, NEW k,
         k = [counters EXCEPT ![c] = counters[c] + 1]
  PROVE  /\ c \in OutcomeCounters =>
               /\ Outcomes(k) = Outcomes(counters) + 1
               /\ k["total_calls"] = counters["total_calls"]
         /\ c = "total_calls" =>
               /\ Outcomes(k) = Outcomes(counters)
               /\ k["total_calls"] = counters["total_calls"] + 1
         /\ c = "parse_errors" =>
               /\ Outcomes(k) = Outcomes(counters)
               /\ k["total_calls"] = counters["total_calls"]
<1>1. ASSUME c \in OutcomeCounters
      PROVE  Outcomes(k) = Outcomes(counters) + 1 /\ k["total_calls"] = counters["total_calls"]
  BY <1>1 DEF Outcomes, OutcomeCounters, Counters
<1>2. ASSUME c = "total_calls"
      PROVE  Outcomes(k) = Outcomes(counters)
             /\ k["total_calls"] = counters["total_calls"] + 1
  BY <1>2 DEF Outcomes, Counters
<1>3. ASSUME c = "parse_errors"
      PROVE  Outcomes(k) = Outcomes(counters) /\ k["total_calls"] = counters["total_calls"]
  BY <1>3 DEF Outcomes, Counters
<1>. QED  BY <1>1, <1>2, <1>3

LEMMA TailCountsOutcome ==
  ASSUME NEW s \in Seq(Write), s # << >>
  PROVE  /\ ~IsOutcome(Head(s)) => (CountsOutcome(Tail(s)) <=> CountsOutcome(s))
         /\ IsOutcome(Head(s)) => CountsOutcome(s)
<1>. DEFINE r == Tail(s)
<1>1. /\ Len(s) \in Nat \ {0} /\ Len(r) = Len(s) - 1 /\ Head(s) = s[1]
      /\ \A i \in 1 .. Len(r) : r[i] = s[i + 1]
  BY TailAt
<1>. HIDE DEF r
<1>2. 1 \in 1 .. Len(s)
  BY <1>1
<1>3. ASSUME NEW i \in 1 .. Len(r), IsOutcome(r[i])
      PROVE  CountsOutcome(s)
  <2>1. i + 1 \in 1 .. Len(s) /\ IsOutcome(s[i + 1])
    BY <1>1, <1>3
  <2>. QED  BY <2>1 DEF CountsOutcome
<1>4. ASSUME NEW i \in 1 .. Len(s), IsOutcome(s[i]), ~IsOutcome(Head(s))
      PROVE  CountsOutcome(r)
  <2>1. i # 1 /\ i - 1 \in 1 .. Len(r)
    BY <1>1, <1>4
  <2>2. r[i - 1] = s[(i - 1) + 1] /\ (i - 1) + 1 = i
    BY <1>1, <2>1
  <2>. QED  BY <1>4, <2>1, <2>2 DEF CountsOutcome
<1>5. IsOutcome(Head(s)) => CountsOutcome(s)
  BY <1>1, <1>2 DEF CountsOutcome
<1>6. ~IsOutcome(Head(s)) => (CountsOutcome(r) <=> CountsOutcome(s))
  BY <1>3, <1>4 DEF CountsOutcome
<1>. QED  BY <1>5, <1>6 DEF r

(* What is left of the counters of a call when the first has been written.  *)
LEMMA AfterFirstCounter ==
  ASSUME NEW s \in Seq(Write), s # << >>, CountersInOrder(s)
  PROVE  /\ IsOutcome(Head(s)) =>
              ~CountsOutcome(Tail(s)) /\ CountsOutcome(s) /\ ~Counts(s, "total_calls")
         /\ IsCounter(Head(s), "total_calls") =>
              CountsOutcome(Tail(s)) /\ ~Counts(Tail(s), "total_calls")
                /\ Counts(s, "total_calls")
         /\ IsCounter(Head(s), "parse_errors") => ~CountsOutcome(Tail(s)) /\ ~CountsOutcome(s)
<1>. DEFINE r == Tail(s)
<1>1. /\ Len(s) \in Nat \ {0} /\ Len(r) = Len(s) - 1 /\ Head(s) = s[1]
      /\ \A i \in 1 .. Len(r) : r[i] = s[i + 1] /\ i + 1 \in 1 .. Len(s) /\ i + 1 # 1
      /\ 1 \in 1 .. Len(s)
  BY TailAt
<1>. HIDE DEF r
<1>2. ASSUME IsOutcome(Head(s))
      PROVE  ~CountsOutcome(r) /\ CountsOutcome(s) /\ ~Counts(s, "total_calls")
  <2>1. ASSUME NEW i \in 1 .. Len(s), IsOutcome(s[i]) PROVE i = 1
    BY <1>1, <1>2, <2>1 DEF CountersInOrder
  <2>2. ASSUME NEW i \in 1 .. Len(s), IsCounter(s[i], "total_calls") PROVE FALSE
    BY <1>1, <1>2, <2>2 DEF CountersInOrder, IsCounter, IsOutcome, OutcomeCounters
  <2>3. ~CountsOutcome(r)
    BY <1>1, <2>1 DEF CountsOutcome
  <2>4. CountsOutcome(s)
    BY <1>1, <1>2 DEF CountsOutcome
  <2>. QED  BY <2>2, <2>3, <2>4 DEF Counts
<1>3. ASSUME IsCounter(Head(s), "total_calls")
      PROVE  CountsOutcome(r) /\ ~Counts(r, "total_calls") /\ Counts(s, "total_calls")
  <2>1. Len(s) > 1 /\ IsOutcome(s[2])
    BY <1>1, <1>3 DEF CountersInOrder
  <2>2. 1 \in 1 .. Len(r) /\ r[1] = s[2]
    BY <1>1, <2>1
  <2>3. ASSUME NEW i \in 1 .. Len(s), IsCounter(s[i], "total_calls") PROVE i = 1
    BY <2>3 DEF CountersInOrder
  <2>4. ~Counts(r, "total_calls")
    BY <1>1, <2>3 DEF Counts
  <2>5. Counts(s, "total_calls")
    BY <1>1, <1>3 DEF Counts
  <2>. QED  BY <2>1, <2>2, <2>4, <2>5 DEF CountsOutcome
<1>4. ASSUME IsCounter(Head(s), "parse_errors")
      PROVE  ~CountsOutcome(r) /\ ~CountsOutcome(s)
  <2>1. Len(s) = 1
    BY <1>1, <1>4 DEF CountersInOrder
  <2>2. ~IsOutcome(s[1])
    BY <1>1, <1>4 DEF IsCounter, IsOutcome, OutcomeCounters
  <2>3. \A i \in 1 .. Len(s) : i = 1
    BY <2>1
  <2>4. ~CountsOutcome(s)
    BY <2>2, <2>3 DEF CountsOutcome
  <2>5. ~CountsOutcome(r)
    BY <1>1, <2>1 DEF CountsOutcome
  <2>. QED  BY <2>4, <2>5
<1>. QED  BY <1>2, <1>3, <1>4 DEF r

LEMMA OwingOutcome ==
  ASSUME NEW t \in Threads, CountsOutcome(due[t])
  PROVE  OwesCounter(t)
BY DEF CountsOutcome, IsOutcome, OwesCounter, Owes

LEMMA OwingHead ==
  ASSUME TypeOK, NEW t \in Threads, due[t] # << >>, Head(due[t]).to = "counter"
  PROVE  OwesCounter(t)
<1>1. 1 \in 1 .. Len(due[t]) /\ Head(due[t]) = due[t][1]
  BY TailAt DEF TypeOK
<1>. QED  BY <1>1 DEF OwesCounter, Owes

LEMMA CallsStep ==
  ASSUME OrderInv, CallsInv, NEW t \in Threads, HistoryStep(t)
  PROVE  CallsInv'
<1>. TypeOK /\ HistoryType /\ (\A u \in Threads : WritesInOrder(u)) /\ Step(t)
  BY DEF OrderInv, MutexInv, HistoryStep
<1>. SUFFICES ASSUME ~crossed'
              PROVE  /\ ~Crossing'
                     /\ \A u \in Threads : OwesOutcome(u)' =>
                          stats'["total_calls"] + nowhere' = Outcomes(stats') + 1
                     /\ (\A u \in Threads : ~OwesOutcome(u)') =>
                          stats'["total_calls"] + nowhere' = Outcomes(stats')
                     /\ \A u \in Threads :
                          loaded'[u] # NULL => loaded'[u] = stats'[Head(due'[u]).what]
  BY DEF CallsInv, Outcomes
<1>0. /\ ~crossed /\ ~Crossing'
      /\ nowhere' = IF Nowhere(t) THEN nowhere + 1 ELSE nowhere
  BY DEF HistoryStep, HistoryType
<1>1. /\ ~Crossing
      /\ \A u \in Threads : OwesOutcome(u) =>
           stats["total_calls"] + nowhere = Outcomes(stats) + 1
      /\ (\A u \in Threads : ~OwesOutcome(u)) =>
           stats["total_calls"] + nowhere = Outcomes(stats)
      /\ \A u \in Threads : loaded[u] # NULL => loaded[u] = stats[Head(due[u]).what]
  BY <1>0 DEF CallsInv
<1>2. \A u \in Threads \ {t} :
        /\ OwesOutcome(u)' <=> OwesOutcome(u)
        /\ OwesCounter(u)' <=> OwesCounter(u)
        /\ due'[u] = due[u] /\ loaded'[u] = loaded[u]
  BY OthersKeepTheirWrites DEF OwesOutcome, OwesCounter, Owes
<1>3. Outcomes(stats) \in Nat /\ stats["total_calls"] \in Nat /\ stats \in [Counters -> Nat]
  BY OutcomesType DEF TypeOK, Counters
<1>4. CASE Ends(t)
  <2>1. PICK effects \in Seq(Write) : Concludes(t, effects) /\ Owed(t, effects)
    BY <1>4 DEF Ends
  <2>2. /\ due[t] = << >> /\ due'[t] = effects /\ loaded'[t] = NULL /\ stats' = stats
    BY <2>1, EndReached
  <2>3. ~OwesOutcome(t) /\ (OwesOutcome(t)' <=> Nowhere(t))
    BY <2>1, <2>2 DEF Owed, OwesOutcome, CountsOutcome
  <2>4. CASE Nowhere(t)
    <3>1. OwesCounter(t)'
      BY <2>3, <2>4 DEF OwesOutcome, CountsOutcome, IsOutcome, OwesCounter, Owes
    <3>2. \A u \in Threads \ {t} : ~OwesCounter(u)
      BY <1>0, <1>2, <3>1 DEF Crossing, OwesCounter
    <3>3. \A u \in Threads : ~OwesOutcome(u)
      BY <2>3, <3>2, OwingOutcome DEF OwesOutcome
    <3>4. stats["total_calls"] + nowhere = Outcomes(stats) /\ nowhere' = nowhere + 1
      BY <1>0, <1>1, <2>4, <3>3
    <3>5. stats'["total_calls"] + nowhere' = Outcomes(stats') + 1
      BY <1>3, <2>2, <3>4 DEF HistoryType
    <3>6. OwesOutcome(t)'
      BY <2>3, <2>4
    <3>7. \A u \in Threads : loaded'[u] # NULL => loaded'[u] = stats'[Head(due'[u]).what]
      BY <1>1, <1>2, <2>2
    <3>. QED  BY <1>0, <3>5, <3>6, <3>7
  <2>5. CASE ~Nowhere(t)
    <3>1. \A u \in Threads : OwesOutcome(u)' <=> OwesOutcome(u)
      BY <1>2, <2>3, <2>5
    <3>2. nowhere' = nowhere
      BY <1>0, <2>5
    <3>. QED  BY <1>0, <1>1, <1>2, <2>2, <3>1, <3>2
  <2>. QED  BY <2>4, <2>5
<1>5. CASE ~Ends(t)
  <2>0. (Writes(t) \/ Passes(t)) /\ nowhere' = nowhere
    BY <1>0, <1>5, StepKinds
  <2>1. CASE Passes(t)
    <3>1. UNCHANGED <<stats, due, loaded>>
      BY <2>1 DEF Passes
    <3>2. \A u \in Threads : OwesOutcome(u)' <=> OwesOutcome(u)
      BY <3>1 DEF OwesOutcome
    <3>. QED  BY <1>0, <1>1, <2>0, <3>1, <3>2
  <2>2. CASE Load(t)
    <3>1. UNCHANGED <<stats, due>> /\ loaded'[t] = stats[Head(due[t]).what]
      BY <2>2 DEF Load, shared, TypeOK
    <3>2. \A u \in Threads : OwesOutcome(u)' <=> OwesOutcome(u)
      BY <3>1 DEF OwesOutcome
    <3>. QED  BY <1>0, <1>1, <1>2, <2>0, <3>1, <3>2
  <2>3. CASE WriteError(t) \/ WriteLastCode(t)
    <3>1. /\ due[t] \in Seq(Write) /\ due[t] # << >> /\ due'[t] = Tail(due[t])
          /\ loaded'[t] = NULL
      BY <2>3, WriteMade
    <3>2. Head(due[t]).to # "counter" /\ stats' = stats
      BY <2>3 DEF WriteError, WriteLastCode, NextIs
    <3>3. OwesOutcome(t)' <=> OwesOutcome(t)
      BY <3>1, <3>2, TailCounts, TailCountsOutcome DEF OwesOutcome, IsCounter, IsOutcome
    <3>4. \A u \in Threads : OwesOutcome(u)' <=> OwesOutcome(u)
      BY <1>2, <3>3
    <3>. QED  BY <1>0, <1>1, <1>2, <2>0, <3>1, <3>2, <3>4
  <2>4. CASE Store(t)
    <3>. DEFINE s == due[t]
                c == Head(s).what
    <3>1. /\ s \in Seq(Write) /\ s # << >> /\ due'[t] = Tail(s) /\ loaded'[t] = NULL
      BY <2>4, WriteMade
    <3>2. Head(s).to = "counter" /\ loaded[t] # NULL
      BY <2>4 DEF Store, NextIs
    <3>3. Head(s) \in Write
      BY <3>1, TailAt
    <3>4. c \in Counters
      BY <3>2, <3>3 DEF Write
    <3>5. loaded[t] = stats[c]
      BY <1>1, <3>2
    <3>6. stats' = [stats EXCEPT ![c] = stats[c] + 1]
      BY <2>4, <3>5 DEF Store
    <3>7. \A u \in Threads \ {t} : ~OwesCounter(u)
      BY <1>1, <3>1, <3>2, OwingHead DEF Crossing, OwesCounter
    <3>8. \A u \in Threads \ {t} : ~OwesOutcome(u) /\ ~OwesOutcome(u)'
      BY <1>2, <3>7, OwingOutcome DEF OwesOutcome
    <3>9. \A u \in Threads : loaded'[u] = NULL
      <4>. SUFFICES ASSUME NEW u \in Threads \ {t}, loaded[u] # NULL PROVE FALSE
        BY <1>2, <3>1
      <4>. QED  BY <3>7, OwingHead DEF WritesInOrder
    <3>10. CountersInOrder(s)
      BY DEF WritesInOrder
    <3>. HIDE DEF c
    <3>11. /\ c \in OutcomeCounters =>
                OwesOutcome(t) /\ ~OwesOutcome(t)'
           /\ c = "total_calls" => ~OwesOutcome(t) /\ OwesOutcome(t)'
           /\ c = "parse_errors" => ~OwesOutcome(t) /\ ~OwesOutcome(t)'
      <4>1. /\ c \in OutcomeCounters => IsOutcome(Head(s))
            /\ c = "total_calls" => IsCounter(Head(s), "total_calls")
            /\ c = "parse_errors" => IsCounter(Head(s), "parse_errors")
        BY <3>2 DEF c, IsOutcome, IsCounter
      <4>. QED  BY <3>1, <3>10, <4>1, AfterFirstCounter DEF OwesOutcome
    <3>12. c \in OutcomeCounters \/ c = "total_calls" \/ c = "parse_errors"
      BY <3>4 DEF Counters, OutcomeCounters
    <3>13. CASE c \in OutcomeCounters
      <4>1. /\ Outcomes(stats') = Outcomes(stats) + 1
            /\ stats'["total_calls"] = stats["total_calls"]
        BY <1>3, <3>4, <3>6, <3>13, OutcomeCounted
      <4>2. stats["total_calls"] + nowhere = Outcomes(stats) + 1
        BY <1>1, <3>11, <3>13
      <4>3. stats'["total_calls"] + nowhere' = Outcomes(stats')
        BY <1>3, <2>0, <4>1, <4>2 DEF HistoryType
      <4>. QED  BY <1>0, <3>8, <3>9, <3>11, <3>13, <4>3
    <3>14. CASE c = "total_calls"
      <4>1. /\ Outcomes(stats') = Outcomes(stats)
            /\ stats'["total_calls"] = stats["total_calls"] + 1
        BY <1>3, <3>4, <3>6, <3>14, OutcomeCounted
      <4>2. stats["total_calls"] + nowhere = Outcomes(stats)
        BY <1>1, <3>8, <3>11, <3>14
      <4>3. stats'["total_calls"] + nowhere' = Outcomes(stats') + 1
        BY <1>3, <2>0, <4>1, <4>2 DEF HistoryType
      <4>. QED  BY <1>0, <3>8, <3>9, <3>11, <3>14, <4>3
    <3>15. CASE c = "parse_errors"
      <4>1. /\ Outcomes(stats') = Outcomes(stats)
            /\ stats'["total_calls"] = stats["total_calls"]
        BY <1>3, <3>4, <3>6, <3>15, OutcomeCounted
      <4>2. stats["total_calls"] + nowhere = Outcomes(stats)
        BY <1>1, <3>8, <3>11, <3>15
      <4>3. stats'["total_calls"] + nowhere' = Outcomes(stats')
        BY <2>0, <4>1, <4>2
      <4>. QED  BY <1>0, <3>8, <3>9, <3>11, <3>15, <4>3
    <3>. QED  BY <3>12, <3>13, <3>14, <3>15
  <2>. QED  BY <2>0, <2>1, <2>2, <2>3, <2>4 DEF Writes
<1>. QED  BY <1>4, <1>5

LEMMA CallsNext == OrderInv /\ CallsInv /\ [HistoryNext]_historyVars => CallsInv'
<1>. SUFFICES ASSUME OrderInv, CallsInv, [HistoryNext]_historyVars PROVE CallsInv'
  OBVIOUS
<1>1. CASE \E t \in Threads : HistoryStep(t)
  BY <1>1, CallsStep
<1>2. CASE (Ask /\ UNCHANGED history) \/ UNCHANGED historyVars
  <2>1. UNCHANGED <<stats, due, loaded, nowhere, crossed>>
    BY <1>2, AskWritesNothing DEF history, historyVars, vars, shared, locals
  <2>2. Crossing' <=> Crossing
    BY <2>1 DEF Crossing, Owes
  <2>3. \A u \in Threads : OwesOutcome(u)' <=> OwesOutcome(u)
    BY <2>1 DEF OwesOutcome
  <2>. QED  BY <2>1, <2>2, <2>3 DEF CallsInv
<1>3. CASE ResetHistory \/ InitHistory \/ (Shutdown /\ UNCHANGED history)
  <2>1. Quiescent /\ UNCHANGED <<due, loaded>>
    BY <1>3 DEF ResetHistory, ResetStats, InitHistory, InitLibrary, Shutdown, locals
  <2>2. \A u \in Threads :
          /\ due'[u] = << >> /\ loaded'[u] = NULL
          /\ ~OwesOutcome(u) /\ ~OwesOutcome(u)'
    BY <2>1, NothingLeft DEF OwesOutcome, CountsOutcome
  <2>3. ~Crossing'
    BY <2>2 DEF Crossing, Owes
  <2>4. \/ stats' = ZeroStats /\ nowhere' = 0
        \/ UNCHANGED <<stats, nowhere, crossed>>
    BY <1>3 DEF ResetHistory, ResetStats, InitHistory, InitLibrary, Shutdown, history
  <2>5. ZeroStats["total_calls"] = 0 /\ Outcomes(ZeroStats) = 0
    BY DEF ZeroStats, Counters, Outcomes
  <2>. QED  BY <2>2, <2>3, <2>4, <2>5 DEF CallsInv
<1>. QED  BY <1>1, <1>2, <1>3 DEF HistoryNext, HistoryRequest

LEMMA CallsInit == HistoryInit => CallsInv
<1>. SUFFICES ASSUME HistoryInit PROVE CallsInv
  OBVIOUS
<1>1. \A t \in Threads : due[t] = << >> /\ loaded[t] = NULL
  BY DEF HistoryInit, Init
<1>2. ~Crossing /\ \A t \in Threads : ~OwesOutcome(t)
  BY <1>1 DEF Crossing, Owes, OwesOutcome, CountsOutcome
<1>3. stats["total_calls"] = 0 /\ Outcomes(stats) = 0 /\ nowhere = 0
  BY DEF HistoryInit, Init, ZeroStats, Counters, Outcomes
<1>. QED  BY <1>1, <1>2, <1>3 DEF CallsInv

(* However smc_call_* is linked and however many threads call it, every     *)
(* call counted is counted by its outcome too, but those with nowhere to    *)
(* put a float; unless two of them have been at the counters at a time.     *)
THEOREM CallsCounted == HistorySpec => []CallsAddUp
<1>1. OrderInv /\ CallsInv => CallsAddUp
  <2>. SUFFICES ASSUME OrderInv, CallsInv, Quiescent, ~crossed
                PROVE  stats["total_calls"] + nowhere = Outcomes(stats)
    BY DEF CallsAddUp, Outcomes
  <2>1. \A t \in Threads : ~OwesOutcome(t)
    BY NothingLeft DEF OwesOutcome, CountsOutcome
  <2>. QED  BY <2>1 DEF CallsInv
<1>2. HistorySpec => []CallsInv
  BY CallsInit, CallsNext, OrderInvariant, PTL DEF HistorySpec
<1>. QED  BY <1>1, <1>2, OrderInvariant, PTL

(* include/smc.h:161, where it holds: as long as no two calls write         *)
(* counters at a time, no counter ever decreases but by a reset of them     *)
(* all.  The instance with two threads shows what happens where they do.    *)
THEOREM CountersOnlyGrow == HistorySpec /\ [](~crossed) => CountersNeverDecrease
<1>. DEFINE Grow == \A c \in Counters : stats'[c] >= stats[c] \/ stats' = ZeroStats
<1>1. ASSUME OrderInv, CallsInv, ~crossed, [HistoryNext]_historyVars
      PROVE  Grow
  <2>. TypeOK /\ stats \in [Counters -> Nat]
    BY <1>1 DEF OrderInv, MutexInv, TypeOK
  <2>1. CASE stats' = stats
    BY <2>1
  <2>2. ASSUME NEW t \in Threads, Store(t) PROVE Grow
    <3>. DEFINE d == Head(due[t]).what
    <3>1. /\ due[t] \in Seq(Write) /\ due[t] # << >>
          /\ Head(due[t]).to = "counter" /\ loaded[t] # NULL
      BY <1>1, <2>2, WriteMade DEF Store, NextIs
    <3>2. d \in Counters
      BY <3>1, TailAt DEF Write
    <3>3. loaded[t] = stats[d]
      BY <1>1, <3>1 DEF CallsInv
    <3>4. stats' = [stats EXCEPT ![d] = stats[d] + 1]
      BY <2>2, <3>3 DEF Store
    <3>. HIDE DEF d
    <3>. QED  BY <3>2, <3>4
  <2>3. ASSUME NEW t \in Threads, Step(t) PROVE stats' = stats \/ Store(t)
    <3>1. CASE Ends(t) \/ Passes(t)
      BY <3>1 DEF Ends, Concludes, Passes
    <3>2. CASE Writes(t)
      BY <3>2 DEF Writes, Load, shared, WriteError, WriteLastCode
    <3>. QED  BY <2>3, <3>1, <3>2, StepKinds
  <2>4. ASSUME HistoryRequest PROVE stats' = stats \/ stats' = ZeroStats
    BY <1>1, <2>4, AskWritesNothing
    DEF HistoryRequest, ResetHistory, ResetStats, InitHistory, InitLibrary, Shutdown
  <2>5. CASE UNCHANGED historyVars
    BY <2>1, <2>5 DEF historyVars, vars, shared
  <2>6. CASE HistoryRequest
    BY <2>1, <2>4, <2>6
  <2>7. CASE \E t \in Threads : HistoryStep(t)
    BY <2>1, <2>2, <2>3, <2>7 DEF HistoryStep
  <2>. QED  BY <1>1, <2>5, <2>6, <2>7 DEF HistoryNext
<1>2. OrderInv /\ CallsInv /\ ~crossed /\ [HistoryNext]_historyVars => [Grow]_vars
  BY <1>1
<1>. HIDE DEF Grow
<1>3. HistorySpec => []CallsInv
  BY CallsInit, CallsNext, OrderInvariant, PTL DEF HistorySpec
<1>4. HistorySpec /\ [](~crossed) => [][Grow]_vars
  BY <1>2, <1>3, OrderInvariant, PTL DEF HistorySpec
<1>. QED  BY <1>4 DEF Grow, CountersNeverDecrease

-----------------------------------------------------------------------------
(* The two records of the last error.  Unless two writers have met, one of  *)
(* them outside the mutex, at most one thread is writing them, and between  *)
(* its two writes the slot holds what the statistics are about to.          *)

OwesSlot(t) == \E i \in 1 .. Len(due[t]) : due[t][i].to = "slot"

ErrorsInv ==
  ~torn /\ build.runtime = "stub" =>
    /\ ~Tearing
    /\ (\A t \in Threads : ~OwesError(t)) => error = lastCode
    /\ \A t \in Threads : \A i \in 1 .. Len(due[t]) :
         due[t][i].to = "last_code" => error = due[t][i].what \/ OwesSlot(t)

LEMMA OwingError ==
  ASSUME OrderInv, NEW t \in Threads, OwesError(t)
  PROVE  due[t] # << >> /\ at[t] = "returning"
BY DEF OwesError, Owes, OrderInv, WritesInOrder

LEMMA OneOwesError ==
  ASSUME OrderInv, Locking, ~Tearing, NEW t \in Threads, NEW u \in Threads,
         OwesError(t), OwesError(u)
  PROVE  t = u
BY OneInside DEF Tearing, OrderInv

(* What is left of the records when the first of them has been written.     *)
LEMMA AfterFirstRecord ==
  ASSUME NEW s \in Seq(Write), s # << >>, ErrorsInOrder(s)
  PROVE  /\ Head(s).to = "slot" =>
              \A i \in 1 .. Len(Tail(s)) :
                /\ Tail(s)[i].to # "slot"
                /\ Tail(s)[i].to = "last_code" => Tail(s)[i].what = Head(s).what
         /\ Head(s).to = "slot" =>
              \E i \in 1 .. Len(Tail(s)) : Tail(s)[i].to = "last_code"
         /\ Head(s).to = "last_code" =>
              /\ \A i \in 1 .. Len(s) : s[i].to # "slot"
              /\ \A i \in 1 .. Len(Tail(s)) : Tail(s)[i].to \notin {"slot", "last_code"}
<1>. DEFINE r == Tail(s)
<1>1. /\ Len(s) \in Nat \ {0} /\ Len(r) = Len(s) - 1 /\ Head(s) = s[1]
      /\ \A i \in 1 .. Len(r) : r[i] = s[i + 1] /\ i + 1 \in 1 .. Len(s) /\ i + 1 # 1
      /\ 1 \in 1 .. Len(s)
  BY TailAt
<1>. HIDE DEF r
<1>2. ASSUME Head(s).to = "slot"
      PROVE  /\ \A i \in 1 .. Len(r) :
                  /\ r[i].to # "slot"
                  /\ r[i].to = "last_code" => r[i].what = Head(s).what
             /\ \E i \in 1 .. Len(r) : r[i].to = "last_code"
  <2>1. 1 < Len(s) /\ s[1 + 1].to = "last_code" /\ s[1 + 1].what = s[1].what
    BY <1>1, <1>2 DEF ErrorsInOrder
  <2>2. 2 \in 1 .. Len(s) /\ s[2].to = "last_code" /\ s[2].what = s[1].what
    BY <1>1, <2>1
  <2>3. \A i \in 1 .. Len(s) : s[i].to = "slot" => i = 1
    BY <1>1, <1>2 DEF ErrorsInOrder
  <2>4. \A i \in 1 .. Len(s) : s[i].to = "last_code" => i = 2
    BY <2>2 DEF ErrorsInOrder
  <2>5. 1 \in 1 .. Len(r) /\ r[1] = s[2]
    BY <1>1, <2>2
  <2>6. ASSUME NEW i \in 1 .. Len(r)
        PROVE  r[i].to # "slot" /\ (r[i].to = "last_code" => r[i].what = Head(s).what)
    BY <1>1, <2>2, <2>3, <2>4
  <2>. QED  BY <2>2, <2>5, <2>6
<1>3. ASSUME Head(s).to = "last_code"
      PROVE  /\ \A i \in 1 .. Len(s) : s[i].to # "slot"
             /\ \A i \in 1 .. Len(r) : r[i].to \notin {"slot", "last_code"}
  <2>1. \A i \in 1 .. Len(s) : s[i].to = "last_code" => i = 1
    BY <1>1, <1>3 DEF ErrorsInOrder
  <2>2. ASSUME NEW i \in 1 .. Len(s), s[i].to = "slot"
        PROVE  FALSE
    <3>1. i < Len(s) /\ s[i + 1].to = "last_code"
      BY <2>2 DEF ErrorsInOrder
    <3>2. i + 1 \in 1 .. Len(s) /\ i + 1 # 1
      BY <1>1, <3>1
    <3>. QED  BY <2>1, <3>1, <3>2
  <2>3. \A i \in 1 .. Len(r) : r[i].to \notin {"slot", "last_code"}
    BY <1>1, <2>1, <2>2
  <2>. QED  BY <2>2, <2>3
<1>. QED  BY <1>2, <1>3 DEF r

(* A counter written takes no record away.                                  *)
LEMMA TailOwesRecords ==
  ASSUME NEW s \in Seq(Write), s # << >>, Head(s).to = "counter"
  PROVE  /\ (\E i \in 1 .. Len(Tail(s)) : Tail(s)[i].to \in {"slot", "last_code"})
              <=> (\E i \in 1 .. Len(s) : s[i].to \in {"slot", "last_code"})
         /\ (\E i \in 1 .. Len(s) : s[i].to = "slot")
              => (\E i \in 1 .. Len(Tail(s)) : Tail(s)[i].to = "slot")
<1>. DEFINE r == Tail(s)
<1>1. /\ Len(s) \in Nat \ {0} /\ Len(r) = Len(s) - 1 /\ Head(s) = s[1]
      /\ \A i \in 1 .. Len(r) : r[i] = s[i + 1] /\ i + 1 \in 1 .. Len(s)
  BY TailAt
<1>. HIDE DEF r
<1>2. ASSUME NEW i \in 1 .. Len(s), s[i].to # "counter"
      PROVE  i - 1 \in 1 .. Len(r) /\ r[i - 1] = s[i]
  <2>1. i # 1 /\ i - 1 \in 1 .. Len(r) /\ (i - 1) + 1 = i
    BY <1>1, <1>2
  <2>. QED  BY <1>1, <2>1
<1>3. (\E i \in 1 .. Len(r) : r[i].to \in {"slot", "last_code"})
        => (\E i \in 1 .. Len(s) : s[i].to \in {"slot", "last_code"})
  BY <1>1
<1>4. (\E i \in 1 .. Len(s) : s[i].to \in {"slot", "last_code"})
        => (\E i \in 1 .. Len(r) : r[i].to \in {"slot", "last_code"})
  BY <1>2
<1>5. (\E i \in 1 .. Len(s) : s[i].to = "slot") => (\E i \in 1 .. Len(r) : r[i].to = "slot")
  BY <1>2
<1>. QED  BY <1>3, <1>4, <1>5 DEF r

LEMMA ErrorsStep ==
  ASSUME OrderInv, OrderInv', Locking, ErrorsInv, NEW t \in Threads, HistoryStep(t)
  PROVE  ErrorsInv'
<1>. TypeOK /\ HistoryType /\ (\A u \in Threads : WritesInOrder(u)) /\ Step(t)
  BY DEF OrderInv, MutexInv, HistoryStep
<1>a. build' = build
  BY StepKinds DEF Ends, Concludes, Writes, Load, Store, WriteError, WriteLastCode, shared, Passes
<1>. SUFFICES ASSUME ~torn', build.runtime = "stub"
              PROVE  /\ ~Tearing'
                     /\ (\A u \in Threads : ~OwesError(u)') => error' = lastCode'
                     /\ \A u \in Threads : \A i \in 1 .. Len(due'[u]) :
                          due'[u][i].to = "last_code" => error' = due'[u][i].what \/ OwesSlot(u)'
  BY <1>a DEF ErrorsInv
<1>0. ~torn /\ ~Tearing'
  BY DEF HistoryStep, HistoryType
<1>1. /\ ~Tearing
      /\ (\A u \in Threads : ~OwesError(u)) => error = lastCode
      /\ \A u \in Threads : \A i \in 1 .. Len(due[u]) :
           due[u][i].to = "last_code" => error = due[u][i].what \/ OwesSlot(u)
  BY <1>0 DEF ErrorsInv
<1>2. \A u \in Threads \ {t} :
        /\ OwesError(u)' <=> OwesError(u)
        /\ OwesSlot(u)' <=> OwesSlot(u)
        /\ due'[u] = due[u]
  BY OthersKeepTheirWrites DEF OwesError, OwesSlot, Owes
<1>3. \A u \in Threads : \A i \in 1 .. Len(due[u]) : due[u][i].to = "last_code" => OwesError(u)
  BY DEF OwesError, Owes
<1>4. CASE Ends(t)
  <2>1. PICK effects \in Seq(Write) : Concludes(t, effects) /\ Owed(t, effects)
    BY <1>4 DEF Ends
  <2>2. /\ due[t] = << >> /\ due'[t] = effects /\ error' = error /\ lastCode' = lastCode
    BY <2>1, EndReached
  <2>3. BothRecords(effects)
    BY <2>1 DEF Owed, InOrder
  <2>4. ~OwesError(t)
    BY <2>2 DEF OwesError, Owes
  <2>5. \A i \in 1 .. Len(due'[t]) : due'[t][i].to = "last_code" => OwesSlot(t)'
    BY <2>2, <2>3 DEF BothRecords, OwesSlot
  <2>6. (\A u \in Threads : ~OwesError(u)') => error' = lastCode'
    BY <1>1, <1>2, <2>2, <2>4
  <2>. QED  BY <1>0, <1>1, <1>2, <2>2, <2>5, <2>6
<1>5. CASE Passes(t) \/ Load(t)
  <2>1. UNCHANGED <<error, lastCode, due>>
    BY <1>5 DEF Passes, Load, shared
  <2>2. \A u \in Threads : (OwesError(u)' <=> OwesError(u)) /\ (OwesSlot(u)' <=> OwesSlot(u))
    BY <2>1 DEF OwesError, OwesSlot, Owes
  <2>. QED  BY <1>0, <1>1, <2>1, <2>2
<1>6. CASE Store(t)
  <2>. DEFINE s == due[t]
  <2>1. /\ s \in Seq(Write) /\ s # << >> /\ due'[t] = Tail(s)
    BY <1>6, WriteMade
  <2>2. Head(s).to = "counter" /\ UNCHANGED <<error, lastCode>>
    BY <1>6 DEF Store, NextIs
  <2>3. OwesError(t)' <=> OwesError(t)
    BY <2>1, <2>2, TailOwesRecords DEF OwesError, Owes
  <2>4. OwesSlot(t) => OwesSlot(t)'
    BY <2>1, <2>2, TailOwesRecords DEF OwesSlot
  <2>5. \A i \in 1 .. Len(due'[t]) : due'[t][i].to = "last_code" =>
          error' = due'[t][i].what \/ OwesSlot(t)'
    <3>1. \A i \in 1 .. Len(due'[t]) : i + 1 \in 1 .. Len(s) /\ due'[t][i] = s[i + 1]
      BY <2>1, TailAt
    <3>. QED  BY <1>1, <2>2, <2>4, <3>1
  <2>. QED  BY <1>0, <1>1, <1>2, <2>2, <2>3, <2>5
<1>7. CASE WriteError(t)
  <2>. DEFINE s == due[t]
  <2>1. /\ s \in Seq(Write) /\ s # << >> /\ due'[t] = Tail(s)
    BY <1>7, WriteMade
  <2>2. Head(s).to = "slot" /\ error' = Head(s).what
    BY <1>7 DEF WriteError, NextIs
  <2>3. ErrorsInOrder(s)
    BY DEF WritesInOrder
  <2>4. /\ \A i \in 1 .. Len(due'[t]) :
             due'[t][i].to = "last_code" => error' = due'[t][i].what
        /\ \E i \in 1 .. Len(due'[t]) : due'[t][i].to = "last_code"
    BY <2>1, <2>2, <2>3, AfterFirstRecord
  <2>5. OwesError(t) /\ OwesError(t)'
    <3>1. 1 \in 1 .. Len(s) /\ Head(s) = s[1]
      BY <2>1, TailAt
    <3>. QED  BY <2>2, <2>4, <3>1 DEF OwesError, Owes
  <2>6. \A u \in Threads \ {t} : ~OwesError(u)
    BY <1>1, <2>5, OneOwesError
  <2>. QED  BY <1>0, <1>2, <1>3, <2>4, <2>5, <2>6
<1>8. CASE WriteLastCode(t)
  <2>. DEFINE s == due[t]
  <2>1. /\ s \in Seq(Write) /\ s # << >> /\ due'[t] = Tail(s)
    BY <1>8, WriteMade
  <2>2. Head(s).to = "last_code" /\ lastCode' = Head(s).what /\ error' = error
    BY <1>8 DEF WriteLastCode, NextIs
  <2>3. ErrorsInOrder(s)
    BY DEF WritesInOrder
  <2>4. 1 \in 1 .. Len(s) /\ Head(s) = s[1]
    BY <2>1, TailAt
  <2>5. ~OwesSlot(t) /\ OwesError(t)
    BY <2>1, <2>2, <2>3, <2>4, AfterFirstRecord DEF OwesSlot, OwesError, Owes
  <2>6. error' = lastCode'
    BY <1>1, <2>2, <2>4, <2>5
  <2>7. \A i \in 1 .. Len(due'[t]) : due'[t][i].to # "last_code"
    BY <2>1, <2>2, <2>3, AfterFirstRecord
  <2>8. \A u \in Threads \ {t} : ~OwesError(u)
    BY <1>1, <2>5, OneOwesError
  <2>. QED  BY <1>0, <1>2, <1>3, <2>6, <2>7, <2>8
<1>. QED  BY <1>4, <1>5, <1>6, <1>7, <1>8, StepKinds DEF Writes

LEMMA ErrorsNext ==
  Locking /\ OrderInv /\ OrderInv' /\ ErrorsInv /\ [HistoryNext]_historyVars => ErrorsInv'
<1>. SUFFICES ASSUME Locking, OrderInv, OrderInv', ErrorsInv, [HistoryNext]_historyVars
              PROVE  ErrorsInv'
  OBVIOUS
<1>1. CASE \E t \in Threads : HistoryStep(t)
  BY <1>1, ErrorsStep
<1>2. CASE Ask /\ UNCHANGED history
  <2>1. \A u \in Threads : OwesError(u) => at'[u] = at[u] /\ call'[u] = call[u]
    BY <1>2, AskWritesNothing DEF OwesError, Owes
  <2>2. UNCHANGED <<build, error, lastCode, due, torn>>
    BY <1>2, AskWritesNothing DEF history
  <2>3. \A u \in Threads : (OwesError(u)' <=> OwesError(u)) /\ (OwesSlot(u)' <=> OwesSlot(u))
    BY <2>2 DEF OwesError, OwesSlot, Owes
  <2>4. Tearing' => Tearing
    BY <2>1, <2>3 DEF Tearing, InGlobal
  <2>. QED  BY <2>2, <2>3, <2>4 DEF ErrorsInv
<1>3. CASE UNCHANGED historyVars
  <2>1. UNCHANGED <<build, error, lastCode, due, torn, at, call>>
    BY <1>3 DEF historyVars, history, vars, shared, locals
  <2>2. \A u \in Threads : (OwesError(u)' <=> OwesError(u)) /\ (OwesSlot(u)' <=> OwesSlot(u))
    BY <2>1 DEF OwesError, OwesSlot, Owes
  <2>3. Tearing' <=> Tearing
    BY <2>1, <2>2 DEF Tearing, InGlobal
  <2>. QED  BY <2>1, <2>2, <2>3 DEF ErrorsInv
<1>4. CASE ResetHistory \/ InitHistory \/ (Shutdown /\ UNCHANGED history)
  <2>1. Quiescent /\ UNCHANGED <<build, due>>
    BY <1>4 DEF ResetHistory, ResetStats, InitHistory, InitLibrary, Shutdown, locals
  <2>2. \A u \in Threads : due'[u] = << >> /\ ~OwesError(u) /\ ~OwesError(u)'
    BY <2>1, NothingLeft DEF OwesError, Owes
  <2>3. ~Tearing'
    BY <2>2 DEF Tearing
  <2>4. ~torn' /\ build.runtime = "stub" => error' = lastCode'
    <3>1. CASE ResetHistory
      BY <3>1 DEF ResetHistory, ResetStats
    <3>2. CASE InitHistory
      BY <3>2 DEF InitHistory
    <3>3. CASE Shutdown /\ UNCHANGED history
      <4>1. error' = error /\ lastCode' = lastCode /\ (torn' <=> torn)
        BY <3>3 DEF Shutdown, history
      <4>. QED  BY <2>2, <4>1 DEF ErrorsInv
    <3>. QED  BY <1>4, <3>1, <3>2, <3>3
  <2>. QED  BY <2>1, <2>2, <2>3, <2>4 DEF ErrorsInv
<1>. QED  BY <1>1, <1>2, <1>3, <1>4 DEF HistoryNext, HistoryRequest

LEMMA ErrorsInit == HistoryInit => ErrorsInv
<1>. SUFFICES ASSUME HistoryInit PROVE ErrorsInv
  OBVIOUS
<1>1. \A t \in Threads : due[t] = << >>
  BY DEF HistoryInit, Init
<1>2. ~Tearing
  BY <1>1 DEF Tearing, OwesError, Owes
<1>3. error = lastCode
  BY DEF HistoryInit, Init
<1>. QED  BY <1>1, <1>2, <1>3 DEF ErrorsInv

(* In a build with the mutex and however many threads, smc_last_error and   *)
(* the last_error_code of the statistics name the same failure when no call *)
(* runs, unless the statistics were reset over one or a failure outside the *)
(* mutex has met another.                                                   *)
THEOREM ErrorsAgree ==
  ASSUME Locking
  PROVE  HistorySpec => []ErrorRecordsAgree
<1>1. OrderInv /\ ErrorsInv => ErrorRecordsAgree
  <2>. SUFFICES ASSUME OrderInv, ErrorsInv, Quiescent, ~torn, build.runtime = "stub"
                PROVE  error = lastCode
    BY DEF ErrorRecordsAgree
  <2>1. \A t \in Threads : ~OwesError(t)
    BY NothingLeft DEF OwesError, Owes
  <2>. QED  BY <2>1 DEF ErrorsInv
<1>2. OrderInv /\ OrderInv' /\ ErrorsInv /\ [HistoryNext]_historyVars => ErrorsInv'
  BY ErrorsNext
<1>3. HistorySpec => []ErrorsInv
  BY <1>2, ErrorsInit, OrderInvariant, PTL DEF HistorySpec
<1>. QED  BY <1>1, <1>3, OrderInvariant, PTL

-----------------------------------------------------------------------------
(* The table of variables.                                                  *)

FitsTable(c) == IsFiniteSet(Used(c)) /\ Cardinality(Used(c)) <= MaxVariables

VariablesFit == \A c \in Contexts : FitsTable(c)

LEMMA UsedShrinks ==
  ASSUME NEW c \in Contexts, FitsTable(c), Used(c)' \subseteq Used(c)
  PROVE  FitsTable(c)'
<1>1. IsFiniteSet(Used(c)') /\ Cardinality(Used(c)') <= Cardinality(Used(c))
  BY FS_Subset DEF FitsTable
<1>2. Cardinality(Used(c)) \in Nat /\ Cardinality(Used(c)') \in Nat
  BY <1>1, FS_CardinalityType DEF FitsTable
<1>. QED  BY <1>1, <1>2, RuntimeAssumption DEF FitsTable

(* Only a call that sets a variable makes the table longer, and it looks    *)
(* for room first.                                                          *)
LEMMA SetVariableFits ==
  ASSUME TypeOK, VariablesFit, NEW t \in Threads, SetVariable(t)
  PROVE  VariablesFit'
<1>. SUFFICES ASSUME NEW k, NEW n, k = call[t].ctx, n = call[t].name
              PROVE  VariablesFit'
  OBVIOUS
<1>1. /\ n \in Used(k) \/ Cardinality(Used(k)) < MaxVariables
      /\ bound' = [bound EXCEPT ![k][n] = call[t].value]
  BY DEF SetVariable
<1>2. k \in Contexts /\ bound[k] \in [Names -> Values \cup {NULL}]
  BY DEF TypeOK, CallType
<1>3. ASSUME NEW c \in Contexts, c # k PROVE FitsTable(c)'
  <2>1. bound'[c] = bound[c]
    BY <1>1, <1>2, <1>3 DEF TypeOK
  <2>2. Used(c)' \subseteq Used(c)
    BY <2>1 DEF Used
  <2>. QED  BY <2>2, UsedShrinks DEF VariablesFit
<1>4. Used(k)' \subseteq Used(k) \cup {n}
  <2>1. bound'[k] = [bound[k] EXCEPT ![n] = call[t].value]
    BY <1>1, <1>2 DEF TypeOK
  <2>2. \A x \in Names : x # n => bound'[k][x] = bound[k][x]
    BY <1>2, <2>1
  <2>. QED  BY <2>2, <1>2 DEF Used, SetVariable
<1>5. FitsTable(k) /\ Cardinality(Used(k)) \in Nat
  BY <1>2, FS_CardinalityType DEF VariablesFit, FitsTable
<1>6. CASE n \in Used(k)
  <2>1. Used(k)' \subseteq Used(k)
    BY <1>4, <1>6
  <2>2. FitsTable(k)'
    BY <1>2, <1>5, <2>1, UsedShrinks
  <2>. QED  BY <1>3, <2>2 DEF VariablesFit, Contexts
<1>7. CASE n \notin Used(k)
  <2>1. IsFiniteSet(Used(k) \cup {n}) /\ Cardinality(Used(k) \cup {n}) = Cardinality(Used(k)) + 1
    BY <1>5, <1>7, FS_AddElement DEF FitsTable
  <2>2. IsFiniteSet(Used(k)') /\ Cardinality(Used(k)') <= Cardinality(Used(k)) + 1
    BY <1>4, <2>1, FS_Subset
  <2>3. Cardinality(Used(k)') \in Nat
    BY <2>2, FS_CardinalityType
  <2>4. Cardinality(Used(k)) < MaxVariables
    BY <1>1, <1>7
  <2>5. FitsTable(k)'
    BY <1>5, <2>2, <2>3, <2>4, RuntimeAssumption DEF FitsTable
  <2>. QED  BY <1>3, <2>5 DEF VariablesFit, Contexts
<1>. QED  BY <1>6, <1>7

(* A step that keeps or forgets what is bound keeps the table in bounds.    *)
LEMMA ForgettingFits ==
  ASSUME VariablesFit,
         \A c \in Contexts : \A x \in Names : bound'[c][x] # NULL => bound[c][x] # NULL
  PROVE  VariablesFit'
<1>. SUFFICES ASSUME NEW c \in Contexts PROVE FitsTable(c)'
  BY DEF VariablesFit
<1>1. Used(c)' \subseteq Used(c)
  BY DEF Used
<1>. QED  BY <1>1, UsedShrinks DEF VariablesFit

LEMMA VariablesNext == TypeOK /\ VariablesFit /\ [Next]_vars => VariablesFit'
<1>. SUFFICES ASSUME TypeOK, VariablesFit, [Next]_vars PROVE VariablesFit'
  OBVIOUS
<1>1. ASSUME NEW k, bound' = [bound EXCEPT ![k] = Unbound] PROVE VariablesFit'
  BY <1>1, ForgettingFits DEF Unbound, TypeOK
<1>2. ASSUME bound' = bound PROVE VariablesFit'
  BY <1>2, ForgettingFits
<1>3. ASSUME NEW t \in Threads, Step(t) PROVE VariablesFit'
  <2>1. CASE SetVariable(t)
    BY <2>1, SetVariableFits
  <2>2. CASE ClearVariables(t)
    BY <1>1, <2>2 DEF ClearVariables
  <2>3. CASE CreateContext(t)
    BY <1>1, <1>2, <2>3 DEF CreateContext, shared
  <2>4. CASE ~SetVariable(t) /\ ~ClearVariables(t) /\ ~CreateContext(t)
    <3>1. bound' = bound
      BY <1>3, <2>4
      DEF Step, Acquire, Return, Load, Store, WriteError, WriteLastCode, Refuse,
          EvaluateNothing, ReadVariable, ReadUnbound, EndEvaluation, SetRefused,
          CallExpression, CallUnsupported, DestroyContext, SetLevel, GetLevel,
          GetStats, shared
    <3>. QED  BY <1>2, <3>1
  <2>. QED  BY <2>1, <2>2, <2>3, <2>4
<1>4. CASE Ask \/ Shutdown \/ ResetStats \/ UNCHANGED vars
  BY <1>2, <1>4 DEF Ask, Enter, Shutdown, ResetStats, vars, shared
<1>5. CASE InitLibrary
  BY <1>1, <1>2, <1>5 DEF InitLibrary
<1>. QED  BY <1>3, <1>4, <1>5 DEF Next, Request

LEMMA VariablesInit == Init => VariablesFit
<1>. SUFFICES ASSUME Init, NEW c \in Contexts PROVE FitsTable(c)
  BY DEF VariablesFit
<1>1. Used(c) = {}
  BY DEF Init, Unbound, Used
<1>. QED  BY <1>1, FS_EmptySet, RuntimeAssumption DEF FitsTable

(* However many threads set and clear variables, in contexts of their own   *)
(* or in the global one under the mutex, no table ever holds more than      *)
(* SMC_MAX_VARIABLES.  (A build without the mutex is for one thread: Runtime *)
(* writes bindings in one step.)                                            *)
THEOREM TablesNeverOverflow == Spec => []VariablesFit
BY VariablesInit, VariablesNext, TypeCorrect, PTL DEF Spec

-----------------------------------------------------------------------------
(* Progress.  The variables a call reads, and its own steps left: it may    *)
(* have to wait, it reads, it ends with at most four writes, two of which   *)
(* take two steps, and it returns.                                          *)
Reads(t) ==
  IF call[t].op = "eval" /\ call[t].expr # NULL THEN Len(call[t].expr.reads) ELSE 0

StepsToGo(t) ==
  CASE at[t] = "idle"      -> 0
    [] at[t] = "waiting"   -> Reads(t) + 11
    [] at[t] = "running"   -> (Reads(t) - Len(seen[t])) + 10
    [] at[t] = "returning" -> 2 * Len(due[t]) + (IF loaded[t] = NULL THEN 1 ELSE 0)

ProgressOf(t) ==
  /\ due[t] # << >> => at[t] = "returning"
  /\ loaded[t] # NULL => due[t] # << >> /\ Head(due[t]).to = "counter"
  /\ Len(due[t]) <= 4
  /\ at[t] \in {"idle", "waiting"} => seen[t] = << >>
  /\ at[t] = "waiting" => Locking
  /\ at[t] = "running" => Len(seen[t]) <= Reads(t) /\ call[t].op # "none"

ProgressInv == \A t \in Threads : ProgressOf(t)

(* The guards of the steps a thread may take by itself, case by case.       *)
CanGoOn(t) ==
  \/ at[t] = "waiting" /\ lock = NULL
  \/ \E op \in {"get_level", "call", "unsupported", "stats", "create", "destroy"} : Running(t, op)
  \/ at[t] = "running" /\ call[t].op \in LockingOps \ {"get_level"} /\ Refused(t)
  \/ /\ Running(t, "eval") /\ ~Refused(t)
     /\ call[t].expr = NULL \/ Reading(t) \/ Len(seen[t]) = Len(call[t].expr.reads)
  \/ /\ Running(t, "set") /\ ~Refused(t)
     /\ \/ call[t].name \in Used(call[t].ctx) \cup {BadName}
        \/ Cardinality(Used(call[t].ctx)) < MaxVariables
        \/ Cardinality(Used(call[t].ctx)) >= MaxVariables
  \/ (Running(t, "clear") \/ Running(t, "set_level")) /\ ~Refused(t)
  \/ NextIs(t, "counter") \/ NextIs(t, "slot") \/ NextIs(t, "last_code")
  \/ at[t] = "returning" /\ due[t] = << >>

(* Whoever is in a call can go on, or waits for the holder of the mutex,    *)
(* which can.                                                               *)
NobodyIsStuck ==
  \A t \in Threads :
    at[t] # "idle" => CanGoOn(t) \/ (at[t] = "waiting" /\ lock \in Threads /\ CanGoOn(lock))

(* A step of a thread leaves it less to do, and the others what they had.   *)
CallsShorten ==
  \A t \in Threads : Step(t) =>
    /\ StepsToGo(t)' < StepsToGo(t)
    /\ \A u \in Threads \ {t} : StepsToGo(u)' = StepsToGo(u)

-----------------------------------------------------------------------------
(* What a call has left to write is short.                                  *)

LEMMA ShortEffects ==
  /\ Len(<< >>) <= 4
  /\ \A code : /\ Len(SetError(code)) <= 4 /\ Len(Recorded(code)) <= 4
               /\ Len(SetError(code) \o <<Increment("parse_errors")>>) <= 4
<1>. SUFFICES ASSUME NEW code
              PROVE  /\ Len(SetError(code)) <= 4 /\ Len(Recorded(code)) <= 4
                     /\ Len(SetError(code) \o <<Increment("parse_errors")>>) <= 4
  OBVIOUS
<1>1. Len(SetError(code)) = 2 /\ Len(SetError(code) \o <<Increment("parse_errors")>>) = 3
  BY DEF SetError
<1>2. Len(Recorded(code)) \in {1, 2}
  BY <1>1 DEF Recorded
<1>. QED  BY <1>1, <1>2

LEMMA ShortCalls ==
  ASSUME NEW kind
  PROVE  Len([i \in 1 .. Len(CallCounters(kind)) |-> Increment(CallCounters(kind)[i])]
               \o (IF Linked(kind) = "stub" THEN SetError("NOT_IMPL") ELSE << >>)) <= 4
<1>. DEFINE n == Len(CallCounters(kind))
            counting == [i \in 1 .. n |-> Increment(CallCounters(kind)[i])]
            recording == IF Linked(kind) = "stub" THEN SetError("NOT_IMPL") ELSE << >>
<1>1. n \in {1, 2}
  BY DEF CallCounters
<1>2. CallCounters(kind) \in Seq(Counters)
  BY CallOutcome
<1>3. \A i \in 1 .. n : Increment(CallCounters(kind)[i]) \in Write
  BY <1>2, IncrementType
<1>. HIDE DEF n
<1>4. counting \in [1 .. n -> Write]
  BY <1>3
<1>5. counting \in Seq(Write) /\ Len(counting) = n
  BY <1>1, <1>4
<1>6. recording \in Seq(Write) /\ Len(recording) \in {0, 2}
  <2>1. Len(SetError("NOT_IMPL")) = 2 /\ Len(<< >>) = 0
    BY DEF SetError
  <2>2. recording \in Seq(Write)
    BY SetErrorType, NothingDue DEF Codes
  <2>. QED  BY <2>1, <2>2
<1>. HIDE DEF counting, recording
<1>7. Len(counting \o recording) = n + Len(recording)
  BY <1>5, <1>6
<1>8. Len(counting \o recording) <= 4
  BY <1>1, <1>6, <1>7
<1>. QED  BY <1>8 DEF counting, recording, n

(* What a thread does by itself: it takes the mutex, reads, ends its call   *)
(* with something to write, writes, or returns.                             *)
EndsShort(t) ==
  /\ at[t] = "running" /\ at' = [at EXCEPT ![t] = "returning"]
  /\ \E effects \in Seq(Write) :
       Len(effects) <= 4 /\ due' = [due EXCEPT ![t] = effects]
  /\ UNCHANGED <<call, loaded, seen>>

LEMMA StepsAreShort ==
  ASSUME TypeOK, NEW t \in Threads, Step(t)
  PROVE  Acquire(t) \/ Return(t) \/ Writes(t) \/ ReadVariable(t) \/ EndsShort(t)
<1>1. ASSUME NEW code, NEW effects \in Seq(Write), Len(effects) <= 4,
             Conclude(t, code, effects), at[t] = "running", seen' = seen
      PROVE  EndsShort(t)
  BY <1>1 DEF Conclude, EndsShort
<1>2. {"OK", "INIT", "INVALID", "EVAL", "NOT_IMPL"} \subseteq Codes
  BY DEF Codes
<1>3. ASSUME NEW code \in Codes, at[t] = "running", seen' = seen,
             \/ Conclude(t, code, << >>) \/ Conclude(t, code, SetError(code))
             \/ Conclude(t, code, Recorded(code)) \/ FailEvaluation(t, code)
      PROVE  EndsShort(t)
  <2>1. CASE Conclude(t, code, << >>)
    BY <1>1, <1>3, <2>1, NothingDue, ShortEffects
  <2>2. CASE Conclude(t, code, SetError(code))
    BY <1>1, <1>3, <2>2, SetErrorType, ShortEffects
  <2>3. CASE Conclude(t, code, Recorded(code))
    BY <1>1, <1>3, <2>3, RecordedType, ShortEffects
  <2>4. CASE FailEvaluation(t, code)
    BY <1>1, <1>3, <2>4, FailureType, ShortEffects DEF FailEvaluation
  <2>. QED  BY <1>3, <2>1, <2>2, <2>3, <2>4
<1>4. CASE Refuse(t) \/ EvaluateNothing(t) \/ ReadUnbound(t)
  BY <1>2, <1>3, <1>4 DEF Refuse, EvaluateNothing, ReadUnbound, Reading, Running
<1>5. CASE EndEvaluation(t)
  <2>1. call[t].expr \in ExpressionType
    BY <1>5, RuntimeAssumption DEF EndEvaluation, TypeOK, CallType
  <2>2. call[t].expr.end \in Codes
    BY <2>1 DEF ExpressionType, Codes
  <2>3. at[t] = "running" /\ seen' = seen
    BY <1>5 DEF EndEvaluation, Running
  <2>4. Conclude(t, "OK", << >>) \/ FailEvaluation(t, call[t].expr.end)
    BY <1>5 DEF EndEvaluation
  <2>. QED  BY <1>2, <1>3, <2>2, <2>3, <2>4
<1>6. CASE SetVariable(t) \/ SetRefused(t) \/ ClearVariables(t)
  BY <1>2, <1>3, <1>6 DEF SetVariable, SetRefused, ClearVariables, Running
<1>7. CASE SetLevel(t) \/ GetLevel(t) \/ DestroyContext(t)
  BY <1>2, <1>3, <1>7 DEF SetLevel, GetLevel, DestroyContext, Running
<1>8. CASE CreateContext(t) \/ CallUnsupported(t) \/ GetStats(t)
  BY <1>2, <1>3, <1>8 DEF CreateContext, CallUnsupported, GetStats, Running
<1>9. CASE CallExpression(t)
  BY <1>1, <1>9, CallDueType, ShortCalls DEF CallExpression, Running
<1>. QED  BY <1>4, <1>5, <1>6, <1>7, <1>8, <1>9 DEF Step, Writes

-----------------------------------------------------------------------------
(* The steps left are a number that every step of the thread makes smaller. *)

LEMMA ReadsType ==
  ASSUME TypeOK, NEW t \in Threads
  PROVE  Reads(t) \in Nat
<1>1. CASE call[t].op = "eval" /\ call[t].expr # NULL
  <2>1. call[t].expr.reads \in Seq(Names)
    BY <1>1, RuntimeAssumption DEF TypeOK, CallType, ExpressionType
  <2>. QED  BY <1>1, <2>1 DEF Reads
<1>2. CASE ~(call[t].op = "eval" /\ call[t].expr # NULL)
  BY <1>2 DEF Reads
<1>. QED  BY <1>1, <1>2

LEMMA StepsBounded ==
  ASSUME TypeOK, NEW t \in Threads, ProgressOf(t)
  PROVE  StepsToGo(t) \in 0 .. Reads(t) + 11
<1>1. Reads(t) \in Nat
  BY ReadsType
<1>2. Len(seen[t]) \in Nat /\ Len(due[t]) \in Nat
  BY DEF TypeOK
<1>3. at[t] \in {"idle", "waiting", "running", "returning"}
  BY DEF TypeOK
<1>4. CASE at[t] \in {"idle", "waiting"}
  <2>1. StepsToGo(t) \in {0, Reads(t) + 11}
    BY <1>4 DEF StepsToGo
  <2>. QED  BY <1>1, <2>1
<1>5. CASE at[t] = "running"
  BY <1>1, <1>2, <1>5 DEF StepsToGo, ProgressOf
<1>6. CASE at[t] = "returning"
  <2>1. StepsToGo(t) = 2 * Len(due[t]) + 0 \/ StepsToGo(t) = 2 * Len(due[t]) + 1
    BY <1>6 DEF StepsToGo
  <2>2. Len(due[t]) <= 4
    BY DEF ProgressOf
  <2>. QED  BY <1>1, <1>2, <2>1, <2>2
<1>. QED  BY <1>3, <1>4, <1>5, <1>6

LEMMA ReadsKept ==
  ASSUME NEW t \in Threads, call'[t] = call[t]
  PROVE  Reads(t)' = Reads(t)
BY DEF Reads

(* A step of the thread itself keeps its invariant and leaves less to do.   *)
LEMMA OwnProgress ==
  ASSUME MutexInv, NEW t \in Threads, ProgressOf(t), Step(t)
  PROVE  ProgressOf(t)' /\ StepsToGo(t)' < StepsToGo(t)
<1>0. TypeOK /\ Reads(t) \in Nat /\ StepsToGo(t) \in 0 .. Reads(t) + 11
  BY ReadsType, StepsBounded DEF MutexInv
<1>1. CASE Acquire(t)
  <2>1. /\ at[t] = "waiting" /\ at'[t] = "running" /\ call'[t] = call[t]
        /\ due'[t] = due[t] /\ loaded'[t] = loaded[t] /\ seen'[t] = << >> /\ due[t] = << >>
    BY <1>0, <1>1 DEF Acquire, ProgressOf, TypeOK
  <2>2. Locks(call[t])
    BY <2>1 DEF MutexInv, WaitersLock, ProgressOf
  <2>3. Reads(t)' = Reads(t) /\ call[t].op # "none" /\ Len(<< >>) = 0
    BY <2>1, <2>2, ReadsKept DEF Locks, LockingOps
  <2>4. StepsToGo(t)' = (Reads(t) - 0) + 10 /\ StepsToGo(t) = Reads(t) + 11
    BY <2>1, <2>3 DEF StepsToGo
  <2>5. ProgressOf(t)'
    BY <1>0, <2>1, <2>3 DEF ProgressOf
  <2>. QED  BY <1>0, <2>4, <2>5
<1>2. CASE Return(t)
  <2>1. /\ at[t] = "returning" /\ at'[t] = "idle" /\ due[t] = << >> /\ due'[t] = << >>
        /\ loaded'[t] = loaded[t] /\ seen'[t] = << >>
    BY <1>0, <1>2 DEF Return, TypeOK
  <2>2. loaded[t] = NULL /\ Len(<< >>) = 0
    BY <2>1 DEF ProgressOf
  <2>3. StepsToGo(t)' = 0 /\ StepsToGo(t) = 2 * 0 + 1
    BY <2>1, <2>2 DEF StepsToGo
  <2>4. ProgressOf(t)'
    BY <2>1, <2>2 DEF ProgressOf
  <2>. QED  BY <2>3, <2>4
<1>3. CASE ReadVariable(t)
  <2>1. /\ at[t] = "running" /\ at' = at /\ call' = call /\ due' = due /\ loaded' = loaded
        /\ Len(seen[t]) < Reads(t)
        /\ seen'[t] = Append(seen[t], NextValue(t))
    BY <1>0, <1>3 DEF ReadVariable, Reading, Running, Reads, TypeOK
  <2>2. seen[t] \in Seq(Values) /\ Len(seen[t]) \in Nat
    BY <1>0 DEF TypeOK
  <2>3. Len(seen'[t]) = Len(seen[t]) + 1
    BY <2>1, <2>2
  <2>4. Reads(t)' = Reads(t)
    BY <2>1, ReadsKept
  <2>5. /\ StepsToGo(t)' = (Reads(t) - (Len(seen[t]) + 1)) + 10
        /\ StepsToGo(t) = (Reads(t) - Len(seen[t])) + 10
    BY <2>1, <2>3, <2>4 DEF StepsToGo
  <2>6. Len(seen'[t]) <= Reads(t)'
    BY <1>0, <2>1, <2>2, <2>3, <2>4
  <2>7. ProgressOf(t)'
    BY <2>1, <2>6 DEF ProgressOf
  <2>. QED  BY <1>0, <2>2, <2>5, <2>7
<1>4. CASE EndsShort(t)
  <2>1. PICK effects \in Seq(Write) :
          Len(effects) <= 4 /\ due' = [due EXCEPT ![t] = effects]
    BY <1>4 DEF EndsShort
  <2>2. /\ at[t] = "running" /\ at'[t] = "returning" /\ due'[t] = effects
        /\ loaded'[t] = loaded[t] /\ loaded[t] = NULL
    BY <1>0, <1>4, <2>1 DEF EndsShort, ProgressOf, TypeOK
  <2>3. Len(effects) \in Nat /\ Len(seen[t]) \in Nat /\ Len(seen[t]) <= Reads(t)
    BY <1>0, <2>2 DEF ProgressOf, TypeOK
  <2>4. /\ StepsToGo(t)' = 2 * Len(effects) + 1
        /\ StepsToGo(t) = (Reads(t) - Len(seen[t])) + 10
    BY <2>2 DEF StepsToGo
  <2>5. ProgressOf(t)'
    BY <2>1, <2>2 DEF ProgressOf
  <2>. QED  BY <1>0, <2>1, <2>3, <2>4, <2>5
<1>5. CASE Load(t)
  <2>1. /\ at[t] = "returning" /\ at' = at /\ call' = call /\ due' = due
        /\ due[t] # << >> /\ Head(due[t]).to = "counter" /\ loaded[t] = NULL
    BY <1>5 DEF Load, NextIs
  <2>2. loaded'[t] # NULL
    <3>1. Head(due[t]).what \in Counters
      <4>1. due[t] \in Seq(Write) /\ Head(due[t]) \in Write
        BY <1>0, <2>1 DEF TypeOK
      <4>. QED  BY <2>1, <4>1 DEF Write
    <3>2. loaded'[t] = stats[Head(due[t]).what]
      BY <1>0, <1>5 DEF Load, TypeOK
    <3>3. stats[Head(due[t]).what] \in Nat
      BY <1>0, <3>1 DEF TypeOK
    <3>. QED  BY <3>2, <3>3, RuntimeAssumption
  <2>3. Len(due[t]) \in Nat
    BY <1>0 DEF TypeOK
  <2>4. StepsToGo(t)' = 2 * Len(due[t]) + 0 /\ StepsToGo(t) = 2 * Len(due[t]) + 1
    BY <2>1, <2>2 DEF StepsToGo
  <2>5. ProgressOf(t)'
    BY <2>1 DEF ProgressOf
  <2>. QED  BY <2>3, <2>4, <2>5
<1>6. CASE Store(t) \/ WriteError(t) \/ WriteLastCode(t)
  <2>1. /\ at[t] = "returning" /\ at' = at /\ call' = call /\ due[t] # << >>
    BY <1>6 DEF Store, WriteError, WriteLastCode, NextIs
  <2>2. due[t] \in Seq(Write) /\ Len(due[t]) \in Nat /\ due'[t] = Tail(due[t])
    BY <1>0, <1>6 DEF Store, WriteError, WriteLastCode, Done, TypeOK
  <2>3. Len(due'[t]) = Len(due[t]) - 1 /\ Len(due'[t]) \in Nat
    BY <2>1, <2>2
  <2>4. loaded'[t] = NULL
    <3>1. CASE Store(t)
      BY <1>0, <3>1 DEF Store, TypeOK
    <3>2. CASE WriteError(t) \/ WriteLastCode(t)
      <4>1. Head(due[t]).to # "counter" /\ loaded' = loaded
        BY <3>2 DEF WriteError, WriteLastCode, NextIs
      <4>. QED  BY <4>1 DEF ProgressOf
    <3>. QED  BY <1>6, <3>1, <3>2
  <2>5. StepsToGo(t)' = 2 * (Len(due[t]) - 1) + 1
    BY <2>1, <2>3, <2>4 DEF StepsToGo
  <2>6. StepsToGo(t) = 2 * Len(due[t]) + 0 \/ StepsToGo(t) = 2 * Len(due[t]) + 1
    BY <2>1 DEF StepsToGo
  <2>7. ProgressOf(t)'
    BY <2>1, <2>2, <2>3, <2>4 DEF ProgressOf
  <2>. QED  BY <2>2, <2>5, <2>6, <2>7
<1>. QED  BY <1>0, <1>1, <1>2, <1>3, <1>4, <1>5, <1>6, StepsAreShort DEF Writes

(* No other step changes anything of it.                                    *)
LEMMA ProgressKept ==
  ASSUME NEW u \in Threads,
         at'[u] = at[u], call'[u] = call[u], seen'[u] = seen[u],
         due'[u] = due[u], loaded'[u] = loaded[u]
  PROVE  /\ StepsToGo(u)' = StepsToGo(u)
         /\ ProgressOf(u) => ProgressOf(u)'
<1>1. Reads(u)' = Reads(u)
  BY ReadsKept
<1>. QED  BY <1>1 DEF StepsToGo, ProgressOf

LEMMA ProgressStep ==
  ASSUME MutexInv, ProgressInv, NEW t \in Threads, Step(t)
  PROVE  /\ ProgressInv'
         /\ StepsToGo(t)' < StepsToGo(t)
         /\ \A u \in Threads \ {t} : StepsToGo(u)' = StepsToGo(u)
<1>1. TypeOK /\ \A u \in Threads : ProgressOf(u)
  BY DEF MutexInv, ProgressInv
<1>2. ASSUME NEW u \in Threads \ {t}
      PROVE  StepsToGo(u)' = StepsToGo(u) /\ ProgressOf(u)'
  <2>1. at'[u] = at[u] /\ call'[u] = call[u] /\ seen'[u] = seen[u]
    BY <1>1, OthersStay
  <2>2. due'[u] = due[u] /\ loaded'[u] = loaded[u]
    BY <1>1, OthersKeepTheirWrites
  <2>. QED  BY <1>1, <2>1, <2>2, ProgressKept
<1>3. ProgressOf(t)' /\ StepsToGo(t)' < StepsToGo(t)
  BY <1>1, OwnProgress
<1>. QED  BY <1>2, <1>3 DEF ProgressInv

LEMMA CallsAreNamed ==
  ASSUME NEW t \in Threads, NEW c \in CallsOf(t)
  PROVE  c.op # "none"
<1>. DEFINE others == {"get_level", "unsupported", "stats", "create", "destroy"}
<1>1. /\ \A k, e : EvalCall(k, e).op = "eval"
      /\ \A k, x, v : SetCall(k, x, v).op = "set"
      /\ \A k : ClearCall(k).op = "clear"
      /\ \A n : LevelCall(n).op = "set_level"
      /\ \A kind : TableCall(kind).op = "call"
      /\ \A op : OtherCall(op).op = op
  BY DEF EvalCall, SetCall, ClearCall, LevelCall, TableCall, OtherCall, NoCall
<1>2. CASE c \in StubCalls(t)
  <2>1. c.op \in {"eval", "set", "clear", "set_level", "call"} \cup others
    BY <1>2, <1>1 DEF StubCalls
  <2>. QED  BY <2>1
<1>3. CASE c \notin StubCalls(t)
  BY <1>3, <1>1 DEF CallsOf
<1>. QED  BY <1>2, <1>3

LEMMA EnterProgress ==
  ASSUME MutexInv, ProgressInv, NEW t \in Threads, NEW c \in CallsOf(t), Enter(t, c)
  PROVE  ProgressInv'
<1>. SUFFICES ASSUME NEW u \in Threads PROVE ProgressOf(u)'
  BY DEF ProgressInv
<1>1. TypeOK /\ TypeOK' /\ ProgressOf(u)
  BY NextType DEF MutexInv, ProgressInv, Next, Request, Ask
<1>2. /\ at[t] = "idle"
      /\ at' = [at EXCEPT ![t] = IF Locks(c) THEN "waiting" ELSE "running"]
      /\ call' = [call EXCEPT ![t] = c]
      /\ seen' = seen /\ due' = due /\ loaded' = loaded
  BY DEF Enter
<1>3. CASE u # t
  <2>1. at'[u] = at[u] /\ call'[u] = call[u]
    BY <1>1, <1>2, <1>3 DEF TypeOK
  <2>. QED  BY <1>1, <1>2, <2>1, ProgressKept
<1>4. CASE u = t
  <2>1. /\ call'[t] = c /\ c.op # "none"
        /\ (at'[t] = "waiting" /\ Locks(c)) \/ at'[t] = "running"
    BY <1>1, <1>2, CallsAreNamed DEF TypeOK
  <2>2. seen'[t] = << >> /\ due'[t] = << >> /\ loaded'[t] = NULL /\ Len(<< >>) = 0
    BY <1>1, <1>2, <1>4 DEF ProgressOf
  <2>3. Reads(t)' \in Nat
    <3>1. c \in CallType
      BY CallsOfType
    <3>2. c.expr # NULL => Len(c.expr.reads) \in Nat
      <4>1. c.expr # NULL => c.expr.reads \in Seq(Names)
        BY <3>1, RuntimeAssumption DEF CallType, ExpressionType
      <4>. QED  BY <4>1
    <3>. QED  BY <2>1, <3>2 DEF Reads
  <2>. QED  BY <1>4, <2>1, <2>2, <2>3 DEF ProgressOf, Locks
<1>. QED  BY <1>3, <1>4

LEMMA ProgressNext == MutexInv /\ ProgressInv /\ [Next]_vars => ProgressInv' /\ [CallsShorten]_vars
<1>. SUFFICES ASSUME MutexInv, ProgressInv, [Next]_vars PROVE ProgressInv' /\ CallsShorten
  OBVIOUS
<1>1. CallsShorten
  BY ProgressStep DEF CallsShorten
<1>2. CASE \E t \in Threads : Step(t)
  BY <1>1, <1>2, ProgressStep
<1>3. CASE Ask
  BY <1>1, <1>3, EnterProgress DEF Ask
<1>4. CASE InitLibrary \/ Shutdown \/ ResetStats \/ UNCHANGED vars
  <2>1. UNCHANGED locals
    BY <1>4 DEF InitLibrary, Shutdown, ResetStats, vars
  <2>2. ASSUME NEW u \in Threads PROVE ProgressOf(u)'
    BY <2>1, <2>2, ProgressKept DEF locals, ProgressInv
  <2>. QED  BY <1>1, <2>2 DEF ProgressInv
<1>. QED  BY <1>1, <1>2, <1>3, <1>4 DEF Next, Request

LEMMA ProgressInit == Init => ProgressInv
<1>1. Len(<< >>) = 0
  OBVIOUS
<1>. QED  BY <1>1 DEF Init, ProgressInv, ProgressOf

LEMMA ProgressInvariant == Spec => []ProgressInv /\ [][CallsShorten]_vars
BY ProgressInit, ProgressNext, MutexInvariant, PTL DEF Spec

(* A call of any number of threads takes at most twelve steps of its own,   *)
(* and one for each variable it reads, whatever other threads do meanwhile: *)
(* they never add to what it has to do.                                     *)
THEOREM CallsAreShort ==
  Spec => /\ [](\A t \in Threads : StepsToGo(t) \in 0 .. Reads(t) + 11)
          /\ [][CallsShorten]_vars
<1>. DEFINE Short == \A t \in Threads : StepsToGo(t) \in 0 .. Reads(t) + 11
<1>1. TypeOK /\ ProgressInv => Short
  BY StepsBounded DEF ProgressInv
<1>. HIDE DEF Short
<1>2. Spec => []Short
  BY <1>1, TypeCorrect, ProgressInvariant, PTL
<1>. QED  BY <1>2, ProgressInvariant, PTL DEF Short

(* A thread that is past its entry is never at a loss.                      *)
LEMMA InsideGoesOn ==
  ASSUME TypeOK, VariablesFit, NEW t \in Threads, ProgressOf(t),
         at[t] \in {"running", "returning"}
  PROVE  CanGoOn(t)
<1>1. CASE at[t] = "returning" /\ due[t] = << >>
  BY <1>1 DEF CanGoOn
<1>2. CASE at[t] = "returning" /\ due[t] # << >>
  <2>1. due[t] \in Seq(Write) /\ Head(due[t]) \in Write
    BY <1>2 DEF TypeOK
  <2>2. Head(due[t]).to \in {"counter", "slot", "last_code"}
    BY <2>1 DEF Write
  <2>. QED  BY <1>2, <2>2 DEF CanGoOn, NextIs
<1>3. CASE at[t] = "running"
  <2>1. /\ call[t].op \in (LockingOps \cup {"call", "unsupported", "stats", "create", "destroy"})
        /\ call[t].ctx \in Contexts
    BY <1>3 DEF TypeOK, CallType, ProgressOf
  <2>2. CASE call[t].op \in {"get_level", "call", "unsupported", "stats", "create", "destroy"}
    BY <1>3, <2>2 DEF CanGoOn, Running
  <2>3. CASE call[t].op \in LockingOps \ {"get_level"} /\ Refused(t)
    BY <1>3, <2>3 DEF CanGoOn
  <2>4. CASE call[t].op \in {"clear", "set_level"} /\ ~Refused(t)
    BY <1>3, <2>4 DEF CanGoOn, Running
  <2>5. CASE call[t].op = "eval" /\ ~Refused(t)
    <3>1. CASE call[t].expr = NULL
      BY <1>3, <2>5, <3>1 DEF CanGoOn, Running
    <3>2. CASE call[t].expr # NULL
      <4>1. Len(seen[t]) <= Len(call[t].expr.reads)
        BY <1>3, <2>5, <3>2 DEF ProgressOf, Reads
      <4>2. Len(seen[t]) \in Nat /\ Len(call[t].expr.reads) \in Nat
        BY <2>5, <3>2, ReadsType DEF Reads, TypeOK
      <4>3. Reading(t) \/ Len(seen[t]) = Len(call[t].expr.reads)
        BY <1>3, <2>5, <3>2, <4>1, <4>2 DEF Reading, Running
      <4>. QED  BY <1>3, <2>5, <4>3 DEF CanGoOn, Running
    <3>. QED  BY <3>1, <3>2
  <2>6. CASE call[t].op = "set" /\ ~Refused(t)
    <3>1. Cardinality(Used(call[t].ctx)) \in Nat
      BY <2>1, FS_CardinalityType DEF VariablesFit, FitsTable
    <3>2. \/ Cardinality(Used(call[t].ctx)) < MaxVariables
          \/ Cardinality(Used(call[t].ctx)) >= MaxVariables
      BY <3>1, RuntimeAssumption
    <3>. QED  BY <1>3, <2>6, <3>2 DEF CanGoOn, Running
  <2>. QED  BY <2>1, <2>2, <2>3, <2>4, <2>5, <2>6 DEF LockingOps
<1>. QED  BY <1>1, <1>2, <1>3

(* However many threads call, none is ever stuck: it can go on, or it waits *)
(* for the mutex, whose holder can go on.                                   *)
THEOREM CallsNeverBlock == Spec => []NobodyIsStuck
<1>1. MutexInv /\ VariablesFit /\ ProgressInv => NobodyIsStuck
  <2>. SUFFICES ASSUME MutexInv, VariablesFit, ProgressInv, NEW t \in Threads, at[t] # "idle"
                PROVE  \/ CanGoOn(t)
                       \/ at[t] = "waiting" /\ lock \in Threads /\ CanGoOn(lock)
    BY DEF NobodyIsStuck
  <2>1. TypeOK /\ \A u \in Threads : ProgressOf(u)
    BY DEF MutexInv, ProgressInv
  <2>2. CASE at[t] = "waiting" /\ lock = NULL
    BY <2>2 DEF CanGoOn
  <2>3. CASE at[t] = "waiting" /\ lock # NULL
    <3>1. lock \in Threads
      BY <2>1, <2>3 DEF TypeOK
    <3>2. Locking
      BY <2>1, <2>3 DEF ProgressOf
    <3>3. InGlobal(lock)
      BY <3>1, <3>2 DEF MutexInv, MutexIsHeldInsideCalls
    <3>4. CanGoOn(lock)
      BY <2>1, <3>1, <3>3, InsideGoesOn DEF InGlobal
    <3>. QED  BY <2>3, <3>1, <3>4
  <2>4. CASE at[t] \in {"running", "returning"}
    BY <2>1, <2>4, InsideGoesOn
  <2>. QED  BY <2>1, <2>2, <2>3, <2>4 DEF TypeOK
<1>. QED  BY <1>1, MutexInvariant, TablesNeverOverflow, ProgressInvariant, PTL
=============================================================================
