------------------------- MODULE CalculatorHistory -------------------------
(***************************************************************************)
(* The calculator with a record, which the code does not have, of the      *)
(* order in which the cached expressions were last used.  It follows the   *)
(* steps of Calculator, takes no notice of the stamps the cache keeps      *)
(* (src/core/cache.lisp), and restricts nothing.                           *)
(***************************************************************************)
EXTENDS Calculator

CONSTANT
  CompiledHitsCount   \* whether a hit through the compiled lookup is a use

ASSUME CalculatorHistoryAssumption == CompiledHitsCount \in BOOLEAN

VARIABLE
  usedBefore   \* the pairs of cached expressions, the one used earlier first

historyVars == <<vars, usedBefore>>

HistoryInit == Init /\ usedBefore = {}

(* The pairs of expressions of a set.                                       *)
Among(nodes) == usedBefore \cap (nodes \X nodes)

(* A step that uses nothing, though it may clear the cache.                 *)
NothingUsed == usedBefore' = Among(DOMAIN cache'.table)

(* A step that uses n: no cached expression is used later.                  *)
Used(n) ==
  LET others == DOMAIN cache'.table \ {n} IN
  usedBefore' = Among(others) \cup (others \X ({n} \cap DOMAIN cache'.table))

(* Answering from the cache and storing are uses.                           *)
RecordedWork ==
  \/ HitCompiled /\ IF CompiledHitsCount THEN Used(calling) ELSE NothingUsed
  \/ HitTable /\ Used(calling)
  \/ (Miss \/ TakeAtom \/ Descend) /\ NothingUsed
  \/ ApplyOperator /\ IF cache' = cache THEN NothingUsed ELSE Used(Top.node)
  \/ \E n \in DOMAIN loading : LoadEntry(n) /\ Used(n)

HistoryNext ==
  \/ RecordedWork
  \/ (Request \/ Restart) /\ NothingUsed

HistorySpec == HistoryInit /\ [][HistoryNext]_historyVars

-----------------------------------------------------------------------------
(* docs/KNOWN-ISSUES.md:31: "When the cache is full, the least recently     *)
(* used entry is evicted on the next `cache-set` of a new key."  An entry   *)
(* dropped by a store was used before all the others.  It holds as long as  *)
(* a hit through the compiled lookup does not count as a use.               *)
EvictsLeastRecentlyUsed ==
  [][ \A n \in DOMAIN cache.table \ DOMAIN cache'.table :
        cache'.table # NoEntries =>
          \A m \in DOMAIN cache.table \ {n} : <<n, m>> \in usedBefore ]_historyVars
=============================================================================
