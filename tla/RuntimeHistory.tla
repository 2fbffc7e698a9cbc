-------------------------- MODULE RuntimeHistory --------------------------
(***************************************************************************)
(* The runtime with what the program can know of its past and the counters *)
(* are meant to tell: how many evaluations have failed, and how many calls *)
(* have had nowhere to put a float, since the statistics were last reset.  *)
(* The history also keeps whether calls have overlapped where the code     *)
(* does not guard what they write.                                         *)
(***************************************************************************)
EXTENDS Runtime

VARIABLES
  failures,  \* the evaluations that have failed in the parser since the last reset
  raced,     \* one of them in an explicit context, thus without the mutex
  nowhere,   \* the calls since then that gave nowhere to put a float
  crossed,   \* two calls have been writing counters at a time
  torn       \* two calls, not both under the mutex, have been writing errors at a time

history == <<failures, raced, nowhere, crossed, torn>>
historyVars == <<vars, history>>

-----------------------------------------------------------------------------
(* A failure of the parser, seen where it is found.                         *)
FailsIn(t) ==
  /\ Running(t, "eval") /\ at'[t] = "returning"
  /\ rc'[t] \notin {"OK", "INVALID"} /\ ~Refused(t)

Nowhere(t) ==
  /\ Running(t, "call") /\ at'[t] = "returning"
  /\ call[t].name = "null_float" /\ rc'[t] = "INVALID"

Owes(t, kinds) == \E i \in 1 .. Len(due[t]) : due[t][i].to \in kinds

OwesError(t) == Owes(t, {"slot", "last_code"})

Crossing ==
  \E t, u \in Threads : t # u /\ Owes(t, {"counter"}) /\ Owes(u, {"counter"})

Tearing ==
  \E t, u \in Threads : t # u /\ ~InGlobal(t) /\ OwesError(t) /\ OwesError(u)

-----------------------------------------------------------------------------
HistoryInit ==
  /\ Init
  /\ failures = 0 /\ raced = FALSE /\ nowhere = 0 /\ crossed = FALSE /\ torn = FALSE

(* A reset of the statistics begins a new history, and parts the two        *)
(* records of the last error unless there is none.                          *)
ResetHistory ==
  /\ ResetStats
  /\ failures' = 0 /\ raced' = FALSE /\ nowhere' = 0 /\ crossed' = FALSE
  /\ torn' = (error # "OK")

InitHistory ==
  /\ InitLibrary
  /\ torn' = (error' # lastCode')
  /\ UNCHANGED <<failures, raced, nowhere, crossed>>

HistoryRequest ==
  \/ ResetHistory \/ InitHistory
  \/ (Ask \/ Shutdown) /\ UNCHANGED history

HistoryStep(t) ==
  /\ Step(t)
  /\ failures' = IF FailsIn(t) THEN failures + 1 ELSE failures
  /\ raced' = (raced \/ (FailsIn(t) /\ ~Locks(call[t])))
  /\ nowhere' = IF Nowhere(t) THEN nowhere + 1 ELSE nowhere
  /\ crossed' = (crossed \/ Crossing')
  /\ torn' = (torn \/ Tearing')

HistoryNext == HistoryRequest \/ \E t \in Threads : HistoryStep(t)

HistorySpec == HistoryInit /\ [][HistoryNext]_historyVars

-----------------------------------------------------------------------------
(* Evaluations in the global context are counted one for one when they      *)
(* fail, whatever the other threads do; a failure goes uncounted only where *)
(* one in an explicit context has raced with it.                            *)
FailuresAreCounted ==
  Quiescent /\ ~raced => stats["parse_errors"] = failures

(* However smc_call_* is linked, each call counted in total_calls is counted *)
(* by its outcome as well; but those with nowhere to put a float, which only *)
(* invalid_calls counts.                                                     *)
CallsAddUp ==
  Quiescent /\ ~crossed =>
    stats["total_calls"] + nowhere =
      stats["generated_hits"] + stats["fallback_evals"] + stats["invalid_ids"]
        + stats["arity_errors"] + stats["invalid_calls"]

(* smc_last_error and last_error_code of the statistics name the same        *)
(* failure, unless the statistics were reset since or a call outside the     *)
(* mutex failed at the same time as another.                                 *)
ErrorRecordsAgree ==
  Quiescent /\ ~torn /\ build.runtime = "stub" => error = lastCode
=============================================================================
