------------------------------ MODULE ParseCache ------------------------------
(***************************************************************************)
(* The two tables between a text and the object that stands for its        *)
(* expression: the parse cache, from texts to trees, which is emptied when *)
(* it is full, and the intern table, from the structure of a node to the   *)
(* one object made for it.  Expressions are keys of the result cache by    *)
(* identity, so that which object a text is answered with matters.         *)
(*                                                                         *)
(* An object is a number, the place of its structure in `objects', the     *)
(* nodes constructed so far.                                               *)
(***************************************************************************)
EXTENDS Naturals, Sequences, FiniteSets

CONSTANTS MaxSize,   \* *parse-cache-max-size*; 0 means unlimited
          Requests,  \* the texts that callers submit
          Reading    \* what the parser makes of them: whether it signals no error,
                     \* the tree, and all nodes made on the way, in order

NodesOf(text) == {Reading[text].made[p] : p \in DOMAIN Reading[text].made}

Nodes == UNION {NodesOf(text) : text \in Requests}

(* Every tree is the work of a constructor.                                  *)
ASSUME ParseCacheAssumption ==
  /\ MaxSize \in Nat
  /\ \A text \in Requests :
       /\ Reading[text].made \in Seq(NodesOf(text))
       /\ Reading[text].ok \in BOOLEAN
       /\ Reading[text].ok => Reading[text].tree \in NodesOf(text)

VARIABLES objects,      \* the structure of every object made, in order
          internTable,  \* from structures to objects: *ast-intern-table*
          parseCache,   \* from texts to objects: *parse-cache*
          answer,       \* of the last call: an object, or 0 for an error
          cleared       \* how many objects there were at the last clear-ast-intern-table

tables == <<objects, internTable, parseCache, answer, cleared>>

NoEntries == [x \in {} |-> 0]

TablesInit ==
  /\ objects = <<>>
  /\ internTable = NoEntries
  /\ parseCache = NoEntries
  /\ answer = 0
  /\ cleared = 0

With(table, key, value) ==
  [k \in DOMAIN table \cup {key} |-> IF k = key THEN value ELSE table[k]]

(* Faulty: every node is a new object, whether or not it has an equal. *)
InternNoneFound(made) == DOMAIN made

(* The nodes for which intern-ast finds no object: no equal one is in the    *)
(* table, and none has been made before it in this parse.                    *)
InternNew(made) ==
  {p \in DOMAIN made : /\ made[p] \notin DOMAIN internTable
                       /\ \A q \in 1 .. p - 1 : made[q] # made[p]}

(* New objects are numbered in the order in which they are made.             *)
Place(new, p) == Cardinality({q \in new : q <= p})

(* What is left of objects and table when all nodes have been constructed.   *)
InternAst(made) ==
  LET new == InternNew(made)
      object(t) == Len(objects) + Place(new, CHOOSE p \in new : made[p] = t)
  IN  [objects |-> objects \o [n \in 1 .. Cardinality(new) |->
                                made[CHOOSE p \in new : Place(new, p) = n]],
       internTable |-> [t \in DOMAIN internTable \cup {made[p] : p \in new} |->
                          IF t \in DOMAIN internTable THEN internTable[t] ELSE object(t)]]

(* Faulty: one entry too many is let in. *)
EvictLate ==
  IF MaxSize > 0 /\ Cardinality(DOMAIN parseCache) > MaxSize THEN NoEntries ELSE parseCache

(* parse-cache-evict-if-needed, before anything is looked up. *)
EvictIfNeeded ==
  IF MaxSize > 0 /\ Cardinality(DOMAIN parseCache) >= MaxSize THEN NoEntries ELSE parseCache

(* Faulty: a failed parse is cached as well. *)
ParseCachingFailures(text) ==
  LET cache == EvictIfNeeded
      parsed == Reading[text]
      heap == InternAst(parsed.made)
  IN  /\ answer' = IF text \in DOMAIN cache THEN cache[text]
                   ELSE IF parsed.ok THEN heap.internTable[parsed.tree] ELSE 0
      /\ parseCache' = With(cache, text, answer')
      /\ objects' = heap.objects
      /\ internTable' = heap.internTable
      /\ UNCHANGED cleared

(* parse: from the cache, or read, interned node by node and cached.  The    *)
(* nodes of a text that turns out to be none stay in the intern table.       *)
Parse(text) ==
  LET cache == EvictIfNeeded
      parsed == Reading[text]
      heap == InternAst(parsed.made)
      object == heap.internTable[parsed.tree]
  IN  /\ IF text \in DOMAIN cache
           THEN /\ answer' = cache[text]
                /\ parseCache' = cache
                /\ UNCHANGED <<objects, internTable>>
           ELSE /\ objects' = heap.objects
                /\ internTable' = heap.internTable
                /\ IF parsed.ok
                     THEN answer' = object /\ parseCache' = With(cache, text, object)
                     ELSE answer' = 0 /\ parseCache' = cache
      /\ UNCHANGED cleared

ClearParseCache ==
  /\ parseCache # NoEntries
  /\ parseCache' = NoEntries
  /\ UNCHANGED <<objects, internTable, answer, cleared>>

ClearAstInternTable ==
  /\ internTable # NoEntries
  /\ internTable' = NoEntries
  /\ cleared' = Len(objects)
  /\ UNCHANGED <<objects, parseCache, answer>>

TablesNext ==
  \/ \E text \in Requests : Parse(text)
  \/ ClearParseCache
  \/ ClearAstInternTable

TablesSpec == TablesInit /\ [][TablesNext]_tables

----------------------------------------------------------------------------
TablesTypeOK ==
  /\ objects \in Seq(Nodes)
  /\ DOMAIN internTable \subseteq Nodes
  /\ internTable \in [DOMAIN internTable -> 1 .. Len(objects)]
  /\ DOMAIN parseCache \subseteq Requests
  /\ parseCache \in [DOMAIN parseCache -> 1 .. Len(objects)]
  /\ answer \in 0 .. Len(objects)
  /\ cleared \in 0 .. Len(objects)

(* The cache never holds more than its maximum, and whatever it holds for a  *)
(* text, and answers to it, is what parsing the text would give: failed      *)
(* parses, evictions and either of the clears never leave a wrong or a       *)
(* partial tree under a text.  parse-cache-evict-if-needed, parse.           *)
ParseCacheIsTransparent ==
  [][ /\ MaxSize > 0 => Cardinality(DOMAIN parseCache') <= MaxSize
      /\ \A text \in Requests :
           LET parsed == Reading[text]
           IN  /\ text \in DOMAIN parseCache' =>
                    parsed.ok /\ objects'[parseCache'[text]] = parsed.tree
               /\ Parse(text) =>
                    IF parsed.ok THEN answer' # 0 /\ objects'[answer'] = parsed.tree
                    ELSE answer' = 0 ]_tables

(* Since the intern table was last cleared, no two objects have been made    *)
(* for equal expressions, by whatever texts and with failed parses between:  *)
(* what makes comparing expressions by identity right.  intern-ast.          *)
EqualExpressionsAreOneObject ==
  \A i, j \in cleared + 1 .. Len(objects) : objects[i] = objects[j] => i = j
=============================================================================
