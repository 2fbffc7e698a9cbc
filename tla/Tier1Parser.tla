----------------------------- MODULE Tier1Parser -----------------------------
(***************************************************************************)
(* The expression parser of the C runtime: recursive descent that computes *)
(* as it reads.  One operator per function of the C source; each takes the *)
(* text and the position it starts at, and returns the error code, the     *)
(* position it stops at and the number it has written to its out           *)
(* parameter.                                                              *)
(*                                                                         *)
(* A token stands for a lexeme and the blanks the functions skip before    *)
(* it, so that reading a numeral or an identifier is one step.  A double   *)
(* is represented by the tree of operations that computes it; Value gives  *)
(* the number, which the parser asks for at one place only, the division.  *)
(***************************************************************************)
EXTENDS Integers, Sequences

CONSTANTS Numerals,  \* the tokens that are numerals
          NumberOf,  \* the number of each, a fraction
          Letters,   \* the tokens that are identifiers
          Binding    \* the variables of the context and their (whole) values

(* The codes the parser returns. *)
Codes == {"OK", "PARSE", "EVAL"}

Read(at, out) == [rc |-> "OK", at |-> at, out |-> out]
Failed(rc, at) == [rc |-> rc, at |-> at, out |-> <<>>]

(* An error is returned at once. *)
Then(r, Continue(_)) == IF r.rc = "OK" THEN Continue(r) ELSE r

(* The end of the text is no character of it: -1 in the source. *)
AtEnd == "end of text"
Peek(s, at) == IF at <= Len(s) THEN s[at] ELSE AtEnd

(* A fraction, as numerator and denominator: what the trees compute.  Powers *)
(* are of whole exponents, the only ones that texts of this size can form.   *)
RECURSIVE Raised(_, _)
Raised(n, k) == IF k = 0 THEN 1 ELSE n * Raised(n, k - 1)

PowerOf(base, exponent) ==
  LET k == exponent[1] \div exponent[2]
  IN  IF k >= 0 THEN <<Raised(base[1], k), Raised(base[2], k)>>
                ELSE <<Raised(base[2], -k), Raised(base[1], -k)>>

RECURSIVE Value(_)
Value(tree) ==
  CASE tree[1] = "constant" -> NumberOf[tree[2]]
    [] tree[1] = "variable" -> <<Binding[tree[2]], 1>>
    [] tree[1] = "neg" -> LET x == Value(tree[2]) IN <<-x[1], x[2]>>
    [] OTHER ->
         LET x == Value(tree[2])
             y == Value(tree[3])
         IN  CASE tree[1] = "+" -> <<x[1] * y[2] + y[1] * x[2], x[2] * y[2]>>
               [] tree[1] = "-" -> <<x[1] * y[2] - y[1] * x[2], x[2] * y[2]>>
               [] tree[1] = "*" -> <<x[1] * y[1], x[2] * y[2]>>
               [] tree[1] = "/" -> <<x[1] * y[2], x[2] * y[1]>>
               [] tree[1] = "^" -> PowerOf(x, y)

IsZero(tree) == Value(tree)[1] = 0

RECURSIVE Expression(_, _), MoreTerms(_, _), Term(_, _), MoreFactors(_, _),
          Unary(_, _), Power(_, _), Primary(_, _)

(* Numbers, identifiers (an unbound one is an error of evaluation) and       *)
(* expressions in parentheses.                                               *)
Primary(s, at) ==
  LET c == Peek(s, at)
  IN  CASE c = "(" -> Then(Expression(s, at + 1),
                           LAMBDA inner : IF Peek(s, inner.at) = ")" THEN [inner EXCEPT !.at = @ + 1]
                                          ELSE Failed("PARSE", inner.at))
        [] c \in Numerals -> Read(at + 1, <<"constant", c>>)
        [] c \in Letters -> IF c \in DOMAIN Binding THEN Read(at + 1, <<"variable", c>>)
                                                    ELSE Failed("EVAL", at + 1)
        [] OTHER -> Failed("PARSE", at)

Raise(base, exponent) == Read(exponent.at, <<"^", base.out, exponent.out>>)

(* Faulty: the exponent is a primary, so that powers group to the left or are *)
(* cut short.                                                                 *)
PowerOfPrimary(s, at) ==
  Then(Primary(s, at),
       LAMBDA base : IF Peek(s, base.at) # "^" THEN base
                     ELSE Then(Primary(s, base.at + 1), LAMBDA exponent : Raise(base, exponent)))

(* Powers group to the right: the exponent is itself a power. *)
Power(s, at) ==
  Then(Primary(s, at),
       LAMBDA base : IF Peek(s, base.at) # "^" THEN base
                     ELSE Then(Power(s, base.at + 1), LAMBDA exponent : Raise(base, exponent)))

(* Signs bind looser than powers. *)
Unary(s, at) ==
  IF Peek(s, at) \notin {"+", "-"} THEN Power(s, at)
  ELSE Then(Unary(s, at + 1),
            LAMBDA rest : IF Peek(s, at) = "+" THEN rest ELSE Read(rest.at, <<"neg", rest.out>>))

(* The loop of a term, entered with what it has so far, and one round of it. *)
Factor(op, left, rhs) ==
  IF op = "/" /\ IsZero(rhs.out) THEN Failed("EVAL", rhs.at)
  ELSE Read(rhs.at, <<op, left.out, rhs.out>>)

MoreFactors(s, left) ==
  LET op == Peek(s, left.at)
  IN  IF left.rc # "OK" \/ op \notin {"*", "/"} THEN left
      ELSE MoreFactors(s, Then(Unary(s, left.at + 1), LAMBDA rhs : Factor(op, left, rhs)))

Term(s, at) == MoreFactors(s, Unary(s, at))

(* The loop of an expression. *)
MoreTerms(s, left) ==
  LET op == Peek(s, left.at)
  IN  IF left.rc # "OK" \/ op \notin {"+", "-"} THEN left
      ELSE MoreTerms(s, Then(Term(s, left.at + 1),
                             LAMBDA rhs : Read(rhs.at, <<op, left.out, rhs.out>>)))

Expression(s, at) == MoreTerms(s, Term(s, at))

(* Evaluation of a whole text: nothing may follow the expression. *)
EvalDouble(s) ==
  Then(Expression(s, 1), LAMBDA r : IF Peek(s, r.at) = AtEnd THEN r ELSE Failed("PARSE", r.at))
=============================================================================
