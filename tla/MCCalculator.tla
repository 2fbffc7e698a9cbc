---------------------------- MODULE MCCalculator ----------------------------
(***************************************************************************)
(* A calculator small enough for TLC: expressions that share parts, one    *)
(* that divides by zero and one with a variable, over residues.  Residues  *)
(* that are = are the same number, as they are as long as exact and        *)
(* floating numbers are not mixed.                                         *)
(***************************************************************************)
EXTENDS CalculatorHistory

CONSTANTS
  first, second, third, twice, over, open,  \* expressions
  MaxRequests,        \* bound: requests of the user
  MaxRestarts         \* bound: restarts among them

VARIABLES requests, restarts

mcvars == <<historyVars, requests, restarts>>

Modulus == 7  \* bound: numbers are residues

MCValues == 0 .. Modulus - 1

MCSame(a, b) == a = b

Inverse7 == <<1, 4, 5, 2, 3, 6>>

MCApply(op, args) ==
  CASE op = "+" -> (args[1] + args[2]) % Modulus
    [] op = "-" -> (args[1] + Modulus - args[2]) % Modulus
    [] op = "/" -> IF args[2] = 0 THEN ERROR
                   ELSE (args[1] * Inverse7[args[2]]) % Modulus

Node(n)        == [kind |-> "node", node |-> n]
Constant(q)    == [kind |-> "constant", value |-> q]
Variable(x)    == [kind |-> "variable", name |-> x]

(* 1 - 0, less zero and less zero again, so that calls of one operator with *)
(* the same arguments are nested; the first subtracted from itself, 1 over  *)
(* zero, and the first plus x.                                              *)
MCOp ==
  [n \in Nodes |-> CASE n = over -> "/" [] n = open -> "+" [] OTHER -> "-"]

MCArgs ==
  [n \in Nodes |->
     CASE n = first  -> <<Constant(1), Constant(0)>>
       [] n = second -> <<Node(first), Constant(0)>>
       [] n = third  -> <<Node(second), Constant(0)>>
       [] n = twice  -> <<Node(first), Node(first)>>
       [] n = over   -> <<Constant(1), Constant(0)>>
       [] n = open   -> <<Node(first), Variable("x")>>]

NoBindings == [x \in {} |-> 0]
Binding(q) == [x \in {"x"} |-> q]

MayBind == {NoBindings, Binding(1)}
OneEnv  == {Binding(1)}
TwoEnvs == {Binding(1), Binding(2)}

(* No expression is nested more than three deep.                              *)
RECURSIVE MeaningTo(_, _, _)
MeaningTo(depth, n, e) ==
  LET argument(a) ==
        CASE a.kind = "node"     -> IF depth = 0 THEN ERROR ELSE MeaningTo(depth - 1, a.node, e)
          [] a.kind = "constant" -> a.value
          [] a.kind = "variable" -> IF a.name \in DOMAIN e THEN e[a.name] ELSE ERROR
      args == [i \in 1 .. Len(MCArgs[n]) |-> argument(MCArgs[n][i])]
  IN  IF \E i \in DOMAIN args : args[i] = ERROR THEN ERROR ELSE MCApply(MCOp[n], args)

MCMeaning == [n \in Nodes |-> [e \in Envs |-> MeaningTo(3, n, e)]]

MCSteady == Nodes \ {open}

MCPipelineOps == <<"+", "-", "/">>

-----------------------------------------------------------------------------
(* bound: nobody binds a variable to ask for an expression without any.     *)
BindsInVain(q) == q # NULL /\ q.node # open /\ q.env # NoBindings /\ NoBindings \in Envs

MCInit == HistoryInit /\ requests = 0 /\ restarts = 0

MCNext ==
  \/ /\ requests < MaxRequests
     /\ Request /\ NothingUsed
     /\ ~BindsInVain(asked')
     /\ requests' = requests + 1
     /\ UNCHANGED restarts
  \/ /\ RecordedWork
     /\ UNCHANGED <<requests, restarts>>
  \/ /\ restarts < MaxRestarts
     /\ Restart /\ NothingUsed
     /\ restarts' = restarts + 1
     /\ UNCHANGED requests
  \/ /\ requests = MaxRequests /\ Idle
     /\ UNCHANGED mcvars

MCSpec == MCInit /\ [][MCNext]_mcvars

MCFairSpec == MCSpec /\ Fairness
=============================================================================
