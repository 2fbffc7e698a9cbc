-------------------------- MODULE MemolessEvaluator --------------------------
(***************************************************************************)
(* What evaluation promises whatever is cached, compiled, specialized,     *)
(* saved or loaded: the answer to an expression is its meaning, as if it   *)
(* were computed from scratch every time.  It may be an error instead.     *)
(* Of expressions that mean different things under different bindings      *)
(* nothing is promised but some value or an error.                         *)
(***************************************************************************)
CONSTANTS
  Nodes,    \* the expressions
  Envs,     \* the variable bindings
  Meaning,  \* the value of every expression under every binding, or ERROR
  Steady,   \* the expressions of which the bindings change nothing
  Values,
  ERROR,
  NULL

VARIABLES
  asked,    \* the expression being evaluated and its bindings, or NULL
  answer    \* the value or error answered last, with what was asked

evars == <<asked, answer>>

Init == asked = NULL /\ answer = NULL

Ask(n, e) ==
  /\ asked = NULL
  /\ asked' = [node |-> n, env |-> e]
  /\ answer' = NULL

Promised(n, e) == IF n \in Steady THEN {Meaning[n][e], ERROR} ELSE Values \cup {ERROR}

Answer ==
  /\ asked # NULL
  /\ \E v \in Promised(asked.node, asked.env) :
       answer' = [asked |-> asked, value |-> v]
  /\ asked' = NULL

(* The process ends in the middle of whatever it was doing, or is told      *)
(* something else than to evaluate.                                         *)
Reset == asked' = NULL /\ answer' = NULL

Next == (\E n \in Nodes, e \in Envs : Ask(n, e)) \/ Answer \/ Reset

Spec == Init /\ [][Next]_evars
=============================================================================
