------------------------------ MODULE LispParser ------------------------------
(***************************************************************************)
(* The parser of the Lisp system, from tokens to trees, and the printer    *)
(* that turns a tree back into a text.  One operator per function of the   *)
(* source; each takes the tokens and the state of the parser - how many    *)
(* tokens the stream has given out, and the nodes constructed so far, in   *)
(* order - and returns the new state with the tree, or with the news that  *)
(* an error was signalled.                                                 *)
(*                                                                         *)
(* Every token but a number is a keyword for parse-primary, so that an     *)
(* operator, a comma or a closing parenthesis where an operand should be   *)
(* is a variable of that name.  Tokens left over are ignored.              *)
(***************************************************************************)
EXTENDS Naturals, Sequences

CONSTANTS Numerals,  \* the tokens that are numbers
          Printed    \* the number the printer writes for each

(* The end of the stream is NIL. *)
NIL == "nil"
PeekToken(s, st) == IF st.read < Len(s) THEN s[st.read + 1] ELSE NIL
NextToken(st) == [st EXCEPT !.read = @ + 1]

Fresh == [ok |-> TRUE, read |-> 0, made |-> <<>>, tree |-> <<>>]
Error(st) == [st EXCEPT !.ok = FALSE]

(* A signalled error unwinds everything. *)
Then(st, Continue(_)) == IF st.ok THEN Continue(st) ELSE st

(* A constructor interns its node; that it did is kept in made. *)
Node(st, tree) == [st EXCEPT !.made = Append(@, tree), !.tree = tree]

(* expect-token, which keeps the tree read so far. *)
ExpectToken(s, st, token) ==
  IF PeekToken(s, st) = token THEN NextToken(st) ELSE Error(st)

RECURSIVE Addition(_, _), MoreSums(_, _), Multiplication(_, _), MoreProducts(_, _),
          ParsePower(_, _), MorePowers(_, _), ParseUnary(_, _), Arguments(_, _, _),
          ParsePrimary(_, _)

(* A comma-separated list up to a closing parenthesis, which a comma may     *)
(* precede; args holds the trees read so far.                                *)
Arguments(s, st, args) ==
  IF PeekToken(s, st) = ")" THEN [st EXCEPT !.tree = args]
  ELSE Then(Addition(s, st),
            LAMBDA first :
              LET all == Append(args, first.tree)
              IN  CASE PeekToken(s, first) = "," -> Arguments(s, NextToken(first), all)
                    [] PeekToken(s, first) = ")" -> [first EXCEPT !.tree = all]
                    [] OTHER -> Error(first))

(* A number, an expression in parentheses, a call - any keyword followed by  *)
(* an opening parenthesis - or a variable.                                   *)
ParsePrimary(s, st) ==
  LET token == PeekToken(s, st)
  IN  CASE token = NIL -> Error(st)
        [] token \in Numerals -> Node(NextToken(st), <<"constant", token>>)
        [] token = "(" -> Then(Addition(s, NextToken(st)),
                               LAMBDA inner : ExpectToken(s, inner, ")"))
        [] PeekToken(s, NextToken(st)) = "(" ->
             Then(Then(Arguments(s, NextToken(NextToken(st)), <<>>),
                       LAMBDA args : ExpectToken(s, args, ")")),
                  LAMBDA call : Node(call, <<token>> \o call.tree))
        [] OTHER -> Node(NextToken(st), <<"variable", token>>)

(* Signs: a minus is a subtraction from zero. *)
Zero == <<"constant", "0">>

(* Faulty: what a sign applies to is a power. *)
SignsLooserThanPowers(s, st) ==
  LET token == PeekToken(s, st)
  IN  IF token \notin {"+", "-"} THEN ParsePrimary(s, st)
      ELSE Then(ParsePower(s, IF token = "-" THEN Node(NextToken(st), Zero) ELSE NextToken(st)),
                LAMBDA rest : IF token = "-" THEN Node(rest, <<"-", Zero, rest.tree>>) ELSE rest)

ParseUnary(s, st) ==
  LET token == PeekToken(s, st)
  IN  IF token \notin {"+", "-"} THEN ParsePrimary(s, st)
      ELSE Then(ParseUnary(s, IF token = "-" THEN Node(NextToken(st), Zero) ELSE NextToken(st)),
                LAMBDA rest : IF token = "-" THEN Node(rest, <<"-", Zero, rest.tree>>) ELSE rest)

(* The operator's node, of the operand in st and the one just parsed. *)
Combined(op, st, rest) == Then(rest, LAMBDA right : Node(right, <<op, st.tree, right.tree>>))

(* The three loops; each is entered with the left operand in st.tree. *)
MorePowers(s, st) ==
  IF ~st.ok \/ PeekToken(s, st) # "^" THEN st
  ELSE MorePowers(s, Combined("^", st, ParseUnary(s, NextToken(st))))

ParsePower(s, st) == MorePowers(s, ParseUnary(s, st))

(* Faulty: the right operand of a product is another product. *)
ProductsToTheRight(s, st) ==
  LET op == PeekToken(s, st)
  IN  IF ~st.ok \/ op \notin {"*", "/"} THEN st
      ELSE Combined(op, st, Multiplication(s, NextToken(st)))

MoreProducts(s, st) ==
  LET op == PeekToken(s, st)
  IN  IF ~st.ok \/ op \notin {"*", "/"} THEN st
      ELSE MoreProducts(s, Combined(op, st, ParsePower(s, NextToken(st))))

Multiplication(s, st) == MoreProducts(s, ParsePower(s, st))

MoreSums(s, st) ==
  LET op == PeekToken(s, st)
  IN  IF ~st.ok \/ op \notin {"+", "-"} THEN st
      ELSE MoreSums(s, Combined(op, st, Multiplication(s, NextToken(st))))

Addition(s, st) == MoreSums(s, Multiplication(s, st))

(* A whole text: ok, the tokens read, the nodes made and the tree. *)
ParseTokens(s) == Addition(s, Fresh)

----------------------------------------------------------------------------
(***************************************************************************)
(* The printer.  Integers are printed as they are; any other number is an  *)
(* exact ratio, which ~F rounds to a single float first, and Printed says  *)
(* to which.  An argument that is not there is NIL, which is no node: the  *)
(* error this signals unwinds everything, so that a text with NIL in it    *)
(* stands for the error and is no text.                                    *)
(***************************************************************************)
RECURSIVE Interspersed(_, _), AstToString(_)

Interspersed(texts, separator) ==
  IF Len(texts) < 2 THEN IF texts = <<>> THEN <<>> ELSE Head(texts)
  ELSE Head(texts) \o <<separator>> \o Interspersed(Tail(texts), separator)

InParentheses(text) == <<"(">> \o text \o <<")">>

Argument(args, i) == IF i <= Len(args) THEN args[i] ELSE <<NIL>>
IsPrinted(text) == \A i \in 1 .. Len(text) : text[i] # NIL

(* Three arguments of a vector are printed, however many it has. *)
ThreeOf(args) == Interspersed([i \in 1 .. 3 |-> Argument(args, i)], ",")

(* Faulty: only sums are put in parentheses. *)
AstToStringBare(tree) ==
  LET args == [i \in 1 .. Len(tree) - 1 |-> AstToString(tree[i + 1])]
  IN  CASE tree[1] = "constant" -> <<Printed[tree[2]]>>
        [] tree[1] = "variable" -> <<tree[2]>>
        [] tree[1] = "-" /\ Len(args) = 1 -> <<"-">> \o args[1]
        [] tree[1] = "^" -> Argument(args, 1) \o <<"^">> \o Argument(args, 2)
        [] tree[1] \in {"+", "-"} -> InParentheses(Interspersed(args, tree[1]))
        [] tree[1] \in {"*", "/"} -> Interspersed(args, tree[1])
        [] tree[1] = "vec3" -> <<"vec3">> \o InParentheses(ThreeOf(args))
        [] OTHER -> <<tree[1]>> \o InParentheses(Interspersed(args, ","))

AstToString(tree) ==
  LET args == [i \in 1 .. Len(tree) - 1 |-> AstToString(tree[i + 1])]
  IN  CASE tree[1] = "constant" -> <<Printed[tree[2]]>>
        [] tree[1] = "variable" -> <<tree[2]>>
        [] tree[1] = "-" /\ Len(args) = 1 -> <<"-">> \o args[1]
        [] tree[1] = "^" -> InParentheses(Argument(args, 1) \o <<"^">> \o Argument(args, 2))
        [] tree[1] \in {"+", "-", "*", "/"} -> InParentheses(Interspersed(args, tree[1]))
        [] tree[1] = "vec3" -> <<"vec3">> \o InParentheses(ThreeOf(args))
        [] OTHER -> <<tree[1]>> \o InParentheses(Interspersed(args, ","))
=============================================================================
