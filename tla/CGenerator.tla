------------------------------ MODULE CGenerator ------------------------------
(***************************************************************************)
(* What the source generator makes of a cached expression: a C function of *)
(* its free variables.  The variables are numbered in the order in which   *)
(* they are met; the body is a text of C tokens, a numeral standing for    *)
(* the floating-point literal that is printed for it, with the tokens that *)
(* open and close a comment.                                               *)
(***************************************************************************)
EXTENDS Naturals, Sequences, LispParser

(* The tokens args[0], args[1], ... *)
CONSTANT ArgTokens

RECURSIVE Walk(_, _), WalkAll(_, _)

(* expression-variables: each name once, where it is first met. *)
Walk(tree, seen) ==
  CASE tree[1] = "variable" -> IF \E i \in 1 .. Len(seen) : seen[i] = tree[2] THEN seen
                               ELSE Append(seen, tree[2])
    [] tree[1] = "constant" -> seen
    [] OTHER -> WalkAll(Tail(tree), seen)

WalkAll(trees, seen) ==
  IF trees = <<>> THEN seen ELSE WalkAll(Tail(trees), Walk(Head(trees), seen))

ExpressionVariables(tree) == Walk(tree, <<>>)
ExpressionArity(tree) == Len(ExpressionVariables(tree))
VariableIndex(root, name) == CHOOSE i \in 1 .. ExpressionArity(root) :
                               ExpressionVariables(root)[i] = name

(* A vector has no value in C: its call is left as a comment, before 1.0. *)
One == "1"
CommentedOut(args) ==
  <<"/*", "vec3">> \o InParentheses(Interspersed(args, ",")) \o <<"*/", One>>

RECURSIVE EmitCExpression(_, _)

(* Faulty: variables are numbered within the operand at hand. *)
EmitByOperand(tree, root) ==
  LET args == [i \in 1 .. Len(tree) - 1 |-> EmitCExpression(tree[i + 1], tree[i + 1])]
  IN  CASE tree[1] = "constant" -> <<tree[2]>>
        [] tree[1] = "variable" -> <<ArgTokens[VariableIndex(root, tree[2])]>>
        [] tree[1] = "vec3" -> CommentedOut(args)
        [] tree[1] = "^" /\ Len(args) = 2 -> <<"pow">> \o InParentheses(Interspersed(args, ","))
        [] tree[1] \in {"-", "/"} /\ Len(args) = 1 -> <<"-">> \o InParentheses(args[1])
        [] tree[1] \in {"+", "-", "*", "/"} -> InParentheses(Interspersed(args, tree[1]))
        [] OTHER -> <<tree[1]>> \o InParentheses(Interspersed(args, ","))

(* A division of one argument is printed as its negation. *)
EmitCExpression(tree, root) ==
  LET args == [i \in 1 .. Len(tree) - 1 |-> EmitCExpression(tree[i + 1], root)]
  IN  CASE tree[1] = "constant" -> <<tree[2]>>
        [] tree[1] = "variable" -> <<ArgTokens[VariableIndex(root, tree[2])]>>
        [] tree[1] = "vec3" -> CommentedOut(args)
        [] tree[1] = "^" /\ Len(args) = 2 -> <<"pow">> \o InParentheses(Interspersed(args, ","))
        [] tree[1] \in {"-", "/"} /\ Len(args) = 1 -> <<"-">> \o InParentheses(args[1])
        [] tree[1] \in {"+", "-", "*", "/"} -> InParentheses(Interspersed(args, tree[1]))
        [] OTHER -> <<tree[1]>> \o InParentheses(Interspersed(args, ","))
=============================================================================
