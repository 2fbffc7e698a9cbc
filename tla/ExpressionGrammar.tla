-------------------------- MODULE ExpressionGrammar --------------------------
(***************************************************************************)
(* What it means to read an infix expression: the trees a sequence of      *)
(* tokens has, given a table of precedence levels.  This is the reference  *)
(* the two hand-written parsers of the repository are checked against, and *)
(* it is stated as a grammar is (a sum is a sum, an operator and a         *)
(* product), never as a parser runs: nothing is read from left to right,   *)
(* and a sequence has the set of all its trees.                            *)
(*                                                                         *)
(* A tree is a constant, a variable, a sign applied to a tree, or an       *)
(* operator or function name followed by the trees of its arguments.  A    *)
(* token stands for a lexeme with the blanks around it.                    *)
(***************************************************************************)
EXTENDS Naturals, Sequences

(* A level of precedence, from the loosest: the side its operators group to. *)
LeftLevel(ops) == [side |-> "left", ops |-> ops]
RightLevel(ops) == [side |-> "right", ops |-> ops]
SignLevel(ops) == [side |-> "sign", ops |-> ops]

(* The three languages.  In C the power is a function, pow. *)
Tier1Levels == <<LeftLevel({"+", "-"}), LeftLevel({"*", "/"}),
                 SignLevel({"+", "-"}), RightLevel({"^"})>>
LispLevels == <<LeftLevel({"+", "-"}), LeftLevel({"*", "/"}),
                LeftLevel({"^"}), SignLevel({"+", "-"})>>
CLevels == <<LeftLevel({"+", "-"}), LeftLevel({"*", "/"}), SignLevel({"+", "-"})>>

Constant(token) == <<"constant", token>>
Variable(token) == <<"variable", token>>

(* A plus sign leaves no trace in a tree. *)
Signed(sign, tree) == IF sign = "-" THEN <<"neg", tree>> ELSE tree

Before(s, k) == SubSeq(s, 1, k - 1)
After(s, k) == SubSeq(s, k + 1, Len(s))

(* The places where s may be cut at an operator of ops, or at a comma. *)
Cuts(s, ops) == {k \in 2 .. Len(s) - 1 : s[k] \in ops}

RECURSIVE Trees(_, _, _), ArgumentTrees(_, _)

(* The trees s has at level n of the language g, a record of its levels, its *)
(* numerals, the tokens it takes as variables, those it takes as functions,  *)
(* and whether a list of arguments may end in a comma.                       *)
Trees(g, n, s) ==
  IF n > Len(g.levels) THEN
       {Constant(t) : t \in {u \in g.numerals : s = <<u>>}}
         \cup {Variable(t) : t \in {u \in g.names : s = <<u>>}}
         \cup (IF Len(s) > 2 /\ s[1] = "(" /\ s[Len(s)] = ")"
                 THEN Trees(g, 1, SubSeq(s, 2, Len(s) - 1)) ELSE {})
         \cup (IF Len(s) > 2 /\ s[1] \in g.functions /\ s[2] = "(" /\ s[Len(s)] = ")"
                 THEN {<<s[1]>> \o args : args \in ArgumentTrees(g, SubSeq(s, 3, Len(s) - 1))}
                 ELSE {})
  ELSE LET level == g.levels[n]
           tighter == Trees(g, n + 1, s)
       IN  CASE level.side = "sign" ->
                  tighter \cup (IF Len(s) > 1 /\ s[1] \in level.ops
                                  THEN {Signed(s[1], t) : t \in Trees(g, n, Tail(s))} ELSE {})
             [] level.side = "left" ->
                  tighter \cup UNION {{<<s[k], l, r>> : l \in Trees(g, n, Before(s, k)),
                                                        r \in Trees(g, n + 1, After(s, k))}
                                        : k \in Cuts(s, level.ops)}
             [] level.side = "right" ->
                  tighter \cup UNION {{<<s[k], l, r>> : l \in Trees(g, n + 1, Before(s, k)),
                                                        r \in Trees(g, n, After(s, k))}
                                        : k \in Cuts(s, level.ops)}

(* The lists of trees of s as the arguments of a call. *)
ArgumentTrees(g, s) ==
  IF s = <<>> THEN {<<>>}
  ELSE {<<t>> : t \in Trees(g, 1, s)}
         \cup UNION {{<<t>> \o rest : t \in Trees(g, 1, Before(s, k)),
                                      rest \in ArgumentTrees(g, After(s, k))}
                       : k \in Cuts(s, {","})}
         \cup (IF g.lastComma /\ s[Len(s)] = ","
                 THEN {<<t>> : t \in Trees(g, 1, Before(s, Len(s)))} ELSE {})
=============================================================================
