-------------------------------- MODULE Syntax --------------------------------
(***************************************************************************)
(* A text and everything that reads it.  Typing builds a text token by     *)
(* token, and every text on the way is looked at by both parsers, by the   *)
(* printer and by the generator of C.  Requests go through the caches of   *)
(* the Lisp system, which clients may clear at any moment.                 *)
(***************************************************************************)
EXTENDS ExpressionGrammar, LispParser, ParseCache, SequencesExt

CONSTANTS NumberOf, Letters, Binding,  \* of the C runtime
          ArgTokens,                   \* of the generator
          Tokens,                      \* what can be typed
          MaxTokens,                   \* how long a text may grow, by what it starts with
          MaxObjects                   \* no request once this many objects are made

ASSUME SyntaxAssumption == /\ NumberOf \in [Numerals -> Nat \X (Nat \ {0})]
                           /\ Printed \in [Numerals -> Numerals]
                           /\ DOMAIN Binding \subseteq Letters
                           /\ Reading = [text \in Requests |-> ParseTokens(text)]

VARIABLE line

vars == <<line, tables>>

Tier1 == INSTANCE Tier1Parser
Generator == INSTANCE CGenerator

Init == line \in DOMAIN MaxTokens /\ TablesInit

(* A text is worth going on with if a parser has read all of it: an error, or *)
(* a token left over, stays what it is whatever follows.                      *)
StillRead(text) ==
  \/ Tier1!Expression(text, 1).at > Len(text)
  \/ ParseTokens(text).read = Len(text)

Type ==
  /\ objects = <<>>
  /\ \E start \in DOMAIN MaxTokens : IsPrefix(start, line) /\ Len(line) < MaxTokens[start]
  /\ StillRead(line)
  /\ \E token \in Tokens : line' = Append(line, token)
  /\ UNCHANGED tables

(* Requests are made of the texts in Requests, whatever has been typed.       *)
Request ==
  /\ line \in Requests \cup DOMAIN MaxTokens
  /\ Len(objects) < MaxObjects
  /\ \E text \in Requests : line' = text /\ Parse(text)

Clear ==
  /\ Len(objects) < MaxObjects
  /\ ClearParseCache \/ ClearAstInternTable
  /\ UNCHANGED line

Next == Type \/ Request \/ Clear

Spec == Init /\ [][Next]_vars

----------------------------------------------------------------------------
(* With what only the starts have. *)
AllTokens == Tokens \cup UNION {ToSet(start) : start \in DOMAIN MaxTokens}

TypeOK == line \in Seq(AllTokens) /\ TablesTypeOK

Tier1Language == [levels |-> Tier1Levels, numerals |-> Numerals, names |-> Letters,
                  functions |-> {}, lastComma |-> FALSE]
LispLanguage == [levels |-> LispLevels, numerals |-> Numerals, names |-> Letters,
                 functions |-> Letters, lastComma |-> TRUE]
(* What the Lisp parser takes, operators in the place of operands included, *)
(* with powers grouped to one side.                                         *)
LooseLispLanguage(side) ==
  LET names == AllTokens \ (Numerals \cup {"(", "+", "-"})
  IN  [LispLanguage EXCEPT !.names = names, !.functions = names, !.levels[3].side = side]
CLanguage == [levels |-> CLevels, numerals |-> Numerals \cup {Generator!One},
              names |-> {ArgTokens[i] : i \in DOMAIN ArgTokens},
              functions |-> Letters \cup {"pow"}, lastComma |-> FALSE]

RECURSIVE AllParts(_), AsLisp(_), AsC(_, _)

(* The tree and all trees in it. *)
AllParts(tree) ==
  IF tree[1] \in {"constant", "variable"} THEN {tree}
  ELSE {tree} \cup UNION {AllParts(tree[i]) : i \in 2 .. Len(tree)}

(* The tree the Lisp system has for a tree of the grammar. *)
AsLisp(tree) ==
  CASE tree[1] \in {"constant", "variable"} -> tree
    [] tree[1] = "neg" -> <<"-", Constant("0"), AsLisp(tree[2])>>
    [] OTHER -> [i \in 1 .. Len(tree) |-> IF i = 1 THEN tree[1] ELSE AsLisp(tree[i])]

(* The tree of the C expression for a tree of the Lisp system; for a vector, *)
(* which C has no value for, the number that is put in its place.            *)
AsC(tree, names) ==
  CASE tree[1] = "constant" -> tree
    [] tree[1] = "variable" ->
         Variable(ArgTokens[CHOOSE i \in 1 .. Len(names) : names[i] = tree[2]])
    [] tree[1] = "vec3" -> Constant(Generator!One)
    [] OTHER -> [i \in 1 .. Len(tree) |->
                   IF i > 1 THEN AsC(tree[i], names) ELSE IF tree[1] = "^" THEN "pow" ELSE tree[1]]

(* Every variable is bound, and nothing is divided by zero. *)
Evaluates(tree) ==
  /\ \A part \in AllParts(tree) : part[1] = "variable" => part[2] \in DOMAIN Binding
  /\ \A part \in AllParts(tree) : part[1] = "/" => ~Tier1!IsZero(part[3])

(* The C runtime answers a text exactly when it is an expression that can be *)
(* evaluated, and then with the value of its one tree, powers to the right   *)
(* and signs looser than powers; an expression that cannot be evaluated is   *)
(* an error of evaluation, and never a parse error.  smc_parse_*.            *)
Tier1ReadsItsGrammar ==
  LET r == Tier1!EvalDouble(line)
      trees == Trees(Tier1Language, 1, line)
  IN  /\ r.rc = "OK" => trees = {r.out} /\ Evaluates(r.out)
      /\ trees # {} => r.rc \in {"OK", "EVAL"}
      /\ (\E tree \in trees : Evaluates(tree)) => r.rc = "OK"

(* The Lisp parser reads every expression to its end, with signs tighter     *)
(* than powers, into its one tree; and whatever else it answers is the one   *)
(* tree of the tokens it has read, a misplaced token taken for a variable or *)
(* a function.  To which side powers group is left open, but all powers of a *)
(* text group to one: the documentation of parse-power says to the right and *)
(* its loop goes to the left.  parse-addition to parse-primary.              *)
LispReadsItsGrammar ==
  LET p == ParseTokens(line)
      read == SubSeq(line, 1, p.read)
  IN  /\ Trees(LispLanguage, 1, line) # {} => p.ok /\ p.read = Len(line)
      /\ p.ok => \E side \in {"left", "right"} :
                  {AsLisp(tree) : tree \in Trees(LooseLispLanguage(side), 1, read)} = {p.tree}

(* A text without powers that the C runtime evaluates is the same expression *)
(* for both tiers.  The two recursive descents.                              *)
TiersAgreeButForPowers ==
  LET r == Tier1!EvalDouble(line)
      p == ParseTokens(line)
  IN  r.rc = "OK" /\ (\A i \in 1 .. Len(line) : line[i] # "^") =>
        p.ok /\ p.read = Len(line) /\ p.tree = AsLisp(r.out)

(* An expression survives being printed - the text is read back as the same  *)
(* expression by the Lisp parser and, if it calls no function, by the C      *)
(* runtime as well, powers included - exactly when its numbers are printed   *)
(* as they are and its vectors have three arguments.  Of a longer vector the *)
(* rest is lost; only a shorter one has no text.  ast-to-string against both *)
(* parsers.                                                                  *)
PrintedTreesReadBack ==
  LET p == ParseTokens(line)
      parts == AllParts(p.tree)
      vectors == {part \in parts : part[1] = "vec3"}
      survives == /\ \A part \in parts : part[1] = "constant" => Printed[part[2]] = part[2]
                  /\ \A vector \in vectors : Len(vector) = 4
      text == AstToString(p.tree)
      back == ParseTokens(text)
      r == Tier1!EvalDouble(text)
  IN  Trees(LispLanguage, 1, line) # {} =>
        /\ survives <=> IsPrinted(text) /\ back.ok /\ back.read = Len(text) /\ back.tree = p.tree
        /\ survives /\ r.rc = "OK" => AsLisp(r.out) = p.tree
        /\ IsPrinted(text) \/ \E vector \in vectors : Len(vector) < 4

(* The variables of a text, in the order in which a reader meets them. *)
MetVariables ==
  LET first(i) == /\ line[i] \in Letters
                  /\ i = Len(line) \/ line[i + 1] # "("
                  /\ \A j \in 1 .. i - 1 : line[j] # line[i] \/ line[j + 1] = "("
      places == SetToSortSeq({i \in 1 .. Len(line) : first(i)}, <)
  IN  [n \in 1 .. Len(places) |-> line[places[n]]]

RECURSIVE WithoutComments(_)

(* What C reads of a text: a comment goes up to the first token that closes *)
(* one, so that comments do not nest.                                       *)
WithoutComments(text) ==
  LET open == SelectInSeq(text, LAMBDA token : token = "/*")
      rest == After(text, open)
      close == SelectInSeq(rest, LAMBDA token : token = "*/")
  IN  IF open = 0 THEN text ELSE Before(text, open) \o WithoutComments(After(rest, close))

(* The C function generated for an expression computes that expression, but  *)
(* for vectors, which count as 1: read by the rules of C its body is the     *)
(* same tree, with the variables, in the order in which the text has them,   *)
(* as its arguments, and its arity is their number.  For a vector within a   *)
(* vector it is no expression of C at all, since the comments would have to  *)
(* nest.  expression-variables, emit-c-expression.                           *)
GeneratedCodeComputesTheTree ==
  LET tree == ParseTokens(line).tree
      nested == \E outer, inner \in AllParts(tree) :
                  outer # inner /\ outer[1] = "vec3" /\ inner[1] = "vec3" /\ inner \in AllParts(outer)
  IN  Trees(LispLanguage, 1, line) # {} =>
        /\ Generator!ExpressionArity(tree) = Len(MetVariables)
        /\ Trees(CLanguage, 1, WithoutComments(Generator!EmitCExpression(tree, tree)))
             = IF nested THEN {} ELSE {AsC(tree, MetVariables)}
=============================================================================
