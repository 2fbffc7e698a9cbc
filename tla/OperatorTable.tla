--------------------------- MODULE OperatorTable ---------------------------
(***************************************************************************)
(* The operator registry of the evaluator and the specialization of its    *)
(* operators at run time (src/core/optimizer.lisp), as a record and the    *)
(* operations on it.                                                       *)
(*                                                                         *)
(* An operator starts as its base function.  Enabling specialization puts  *)
(* a wrapper in its place that counts how often each tuple of arguments is *)
(* passed; a tuple counted often enough makes the optimizer compile a      *)
(* specialized function, with the results of all such tuples computed      *)
(* beforehand, and put that into the registry instead of the wrapper.      *)
(* Specialized functions no longer count, and tell arguments apart by =,   *)
(* for which 1 and 1.0 are the same number.  A call goes to the function   *)
(* fetched for it before its arguments were evaluated, so a wrapper may    *)
(* still be called after it was replaced.                                  *)
(***************************************************************************)
EXTENDS Integers, Sequences

CONSTANTS
  Operators,      \* the operators of the registry
  Values,         \* the numbers passed and returned
  Apply(_, _),    \* what a base function returns for its arguments, or ERROR
  Same(_, _),     \* the predicate = on numbers
  SpecThreshold,  \* *pipeline-specialization-threshold*: 5
  ERROR           \* a condition signalled instead of a value

ASSUME OperatorAssumption ==
  /\ SpecThreshold \in Nat \ {0}
  /\ ERROR \notin Values

Calls == Operators \X Seq(Values)

(* A clause of a specialized function: arguments and the result for them.   *)
Clauses == Seq(Values) \X Values

(* What the registry holds for an operator.                                 *)
Functions == [kind : {"base", "wrapper", "specialized"}, clauses : SUBSET Clauses]

BaseFunction == [kind |-> "base", clauses |-> {}]

(* wrap-operator-with-specialization                                        *)
Wrapper == [kind |-> "wrapper", clauses |-> {}]

(* The function installed under each operator, and the counts of the calls  *)
(* recorded.                                                                *)
RegistryType(r) ==
  /\ DOMAIN r = {"installed", "counts"}
  /\ r.installed \in [Operators -> Functions]
  /\ DOMAIN r.counts \subseteq Calls
  /\ r.counts \in [DOMAIN r.counts -> Nat]

BaseRegistry ==
  [installed |-> [op \in Operators |-> BaseFunction], counts |-> [c \in {} |-> 0]]

Recorded(r, op, args) ==
  IF <<op, args>> \in DOMAIN r.counts THEN r.counts[<<op, args>>] ELSE 0

(* The counts without those of some operators.                              *)
Forgotten(counts, ops) ==
  [c \in {c \in DOMAIN counts : c[1] \notin ops} |-> counts[c]]

(* install-specializing-wrapper                                             *)
Wrapped(r, ops) ==
  [r EXCEPT !.installed = [op \in Operators |-> IF op \in ops THEN Wrapper ELSE @[op]],
            !.counts = Forgotten(@, ops)]

(* record-operator-call                                                     *)
Counted(r, op, args) ==
  [r EXCEPT !.counts =
     [c \in DOMAIN @ \cup {<<op, args>>} |->
        IF c = <<op, args>> THEN Recorded(r, op, args) + 1 ELSE @[c]]]

(* specialization-patterns                                                  *)
HotPatterns(r, op) ==
  {c[2] : c \in {c \in DOMAIN r.counts : c[1] = op /\ r.counts[c] >= SpecThreshold}}

(* specialize-operator signals an error when one of the results it computes *)
(* beforehand is an error.                                                  *)
Unspecializable(r, op) == \E p \in HotPatterns(r, op) : Apply(op, p) = ERROR

(* The operators, of some set, that have something to be specialized for.   *)
Hot(r, ops) == {op \in ops : HotPatterns(r, op) # {}}

(* Faulty: the results are filed under the arguments in reverse.            *)
SpecializedFunctionReversed(r, op) ==
  [kind    |-> "specialized",
   clauses |-> {<<p, Apply(op, [i \in 1 .. Len(p) |-> p[Len(p) + 1 - i]])>> :
                  p \in HotPatterns(r, op)}]

(* generate-specialized-function                                            *)
SpecializedFunction(r, op) ==
  [kind    |-> "specialized",
   clauses |-> {<<p, Apply(op, p)>> : p \in HotPatterns(r, op)}]

(* specialize-operator, for several operators.                              *)
Specialized(r, ops) ==
  [installed |-> [op \in Operators |->
                    IF op \in Hot(r, ops) THEN SpecializedFunction(r, op)
                    ELSE r.installed[op]],
   counts    |-> Forgotten(r.counts, Hot(r, ops))]

(* A call is one of the function that was fetched for it, which need not be *)
(* the one installed by then.  A wrapper counts the tuple passed with those *)
(* counted now, and specializes the operator, again if need be, as soon as  *)
(* the tuple has been counted often enough, before it is applied.           *)
CallSpecializes(r, f, op, args) ==
  f.kind = "wrapper" /\ Recorded(r, op, args) + 1 >= SpecThreshold

CallFails(r, f, op, args) ==
  CallSpecializes(r, f, op, args) /\ Unspecializable(Counted(r, op, args), op)

(* The registry after a call; only a wrapper leaves a trace.                *)
AfterCall(r, f, op, args) ==
  IF f.kind # "wrapper" THEN r
  ELSE IF CallSpecializes(r, f, op, args) /\ ~CallFails(r, f, op, args)
    THEN Specialized(Counted(r, op, args), {op})
  ELSE Counted(r, op, args)

(* The clauses of a function the arguments are taken for.  It returns the   *)
(* result of the first; which that is depends on the order of recording and *)
(* is left open.                                                            *)
Matching(f, args) ==
  {c \in f.clauses : Len(c[1]) = Len(args) /\ \A i \in 1 .. Len(args) : Same(args[i], c[1][i])}

(* What a call may return.  A wrapper calls the base function even if it    *)
(* has just had the operator specialized.                                   *)
Outcomes(r, f, op, args) ==
  IF CallFails(r, f, op, args) THEN {ERROR}
  ELSE IF Matching(f, args) # {} THEN {c[2] : c \in Matching(f, args)}
  ELSE {Apply(op, args)}
=============================================================================
