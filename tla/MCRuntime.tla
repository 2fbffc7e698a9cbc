----------------------------- MODULE MCRuntime -----------------------------
(***************************************************************************)
(* Two threads for TLC, an expression that reads one variable twice and    *)
(* one with a syntax error behind a variable.                              *)
(***************************************************************************)
EXTENDS RuntimeHistory, TLC

CONSTANTS
  x, y,       \* variable names
  MaxCalls    \* bound: the calls made, init among them

VARIABLE calls

mcvars == <<historyVars, calls>>

MCNames == {x, y}

MCExpressions ==
  {[reads |-> <<x, x>>, end |-> "OK"], [reads |-> <<x>>, end |-> "PARSE"]}

Build(runtime, dispatch, abiMatches) ==
  [runtime |-> runtime, dispatch |-> dispatch, abiMatches |-> abiMatches]

MCBuilds ==
  {Build("stub", "stub", TRUE), Build("stub", "fallback", TRUE),
   Build("stub", "generated", TRUE), Build("stub", "generated", FALSE),
   Build("sbcl", "stub", TRUE)}

Generated == {Build("stub", "generated", TRUE)}

MCSymmetry == Permutations(Threads)

MCInit == HistoryInit /\ calls = 0

MCNext ==
  \/ calls < MaxCalls /\ calls' = calls + 1 /\ HistoryRequest
  \/ (\E t \in Threads : HistoryStep(t)) /\ UNCHANGED calls
  \/ calls = MaxCalls /\ Quiescent /\ UNCHANGED mcvars

MCSpec == MCInit /\ [][MCNext]_mcvars
=============================================================================
