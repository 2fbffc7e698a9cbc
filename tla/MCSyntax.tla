------------------------------- MODULE MCSyntax -------------------------------
(***************************************************************************)
(* All texts of up to five tokens over two numerals and two variables, one *)
(* of them bound to zero, and longer ones that start with a call, with an  *)
(* operand in parentheses behind an operator of their own, with vectors of *)
(* several lengths, or with a number that a single float cannot hold; four *)
(* requests through a parse cache of two entries.                          *)
(***************************************************************************)
EXTENDS Syntax

MCNumberOf == [n \in {"0", "2", "16777217.5", "16777218"} |->
                 CASE n = "0" -> <<0, 1>>
                   [] n = "2" -> <<2, 1>>
                   [] n = "16777217.5" -> <<33554435, 2>>
                   [] n = "16777218" -> <<16777218, 1>>]
MCPrinted == [n \in DOMAIN MCNumberOf |-> IF n = "16777217.5" THEN "16777218" ELSE n]
MCBinding == [n \in {"x"} |-> 0]
MCArgTokens == <<"args[0]", "args[1]", "args[2]">>
MCMaxTokens == (<<>> :> 5) @@ (<<"x", "(">> :> 6) @@ (<<"-", "(">> :> 6)
                 @@ (<<"2", "^", "(">> :> 7) @@ (<<"2", "/", "(">> :> 7)
                 @@ (<<"vec3", "(">> :> 5) @@ (<<"x", "-", "vec3", "(">> :> 6)
                 @@ (<<"vec3", "(", "vec3", "(">> :> 7)
                 @@ (<<"vec3", "(", "y", ",", "2", ",">> :> 9)
                 @@ (<<"vec3", "(", "y", ",", "2", ",", "x", ",">> :> 10)
                 @@ (<<"16777217.5">> :> 5)

(* Two texts of one expression, one with a part of it, and one that fails    *)
(* after two nodes.                                                          *)
MCRequests == {<<"x", "+", "2">>, <<"(", "x", "+", "2", ")">>, <<"2">>, <<"2", "*", "x", "/">>}
MCReading == [text \in MCRequests |-> ParseTokens(text)]
=============================================================================
