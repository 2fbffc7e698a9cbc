--------------------------- MODULE ParseCacheProofs ---------------------------
(***************************************************************************)
(* Theorems about the two tables in front of the Lisp parser, for any      *)
(* texts, whatever the parser makes of them, and any size of the cache.    *)
(***************************************************************************)
EXTENDS ParseCache, FiniteSetTheorems, SequenceTheorems, TLAPS

(* What stands in the intern table was made since it was last cleared, is   *)
(* there under its structure, and all that was made since then is there.    *)
IsExact(objs, table, since) ==
  /\ \A t \in DOMAIN table : table[t] > since /\ objs[table[t]] = t
  /\ \A i \in since + 1 .. Len(objs) : objs[i] \in DOMAIN table /\ table[objs[i]] = i

InternTableIsExact == IsExact(objects, internTable, cleared)

(* What the parse cache holds for a text is what the parser makes of it.    *)
CacheIsRight ==
  /\ IsFiniteSet(DOMAIN parseCache)
  /\ MaxSize > 0 => Cardinality(DOMAIN parseCache) <= MaxSize
  /\ \A text \in DOMAIN parseCache :
       Reading[text].ok /\ objects[parseCache[text]] = Reading[text].tree

IInv == TablesTypeOK /\ InternTableIsExact /\ CacheIsRight

-----------------------------------------------------------------------------
(* The numbering of new objects.                                            *)

(* Counting up to an element numbers a finite set of numbers without gaps.  *)
LEMMA PlacesAreNumbers ==
  ASSUME NEW new \in SUBSET Nat, IsFiniteSet(new)
  PROVE  /\ Cardinality(new) \in Nat
         /\ \A p \in new : Place(new, p) \in 1 .. Cardinality(new)
         /\ \A p, q \in new : Place(new, p) = Place(new, q) => p = q
         /\ \A n \in 1 .. Cardinality(new) : \E p \in new : Place(new, p) = n
<1> DEFINE upTo(p) == {q \in new : q <= p}
           f == [p \in new |-> Place(new, p)]
<1>1. Cardinality(new) \in Nat
  BY FS_CardinalityType
<1>2. ASSUME NEW p \in new
      PROVE  /\ IsFiniteSet(upTo(p)) /\ Cardinality(upTo(p)) \in Nat
             /\ Cardinality(upTo(p)) <= Cardinality(new)
             /\ Cardinality(upTo(p)) # 0
             /\ Place(new, p) = Cardinality(upTo(p))
  <2>1. upTo(p) \in SUBSET new /\ p \in upTo(p)
    OBVIOUS
  <2>2. IsFiniteSet(upTo(p)) /\ Cardinality(upTo(p)) <= Cardinality(new)
    BY <2>1, FS_Subset
  <2>3. Cardinality(upTo(p)) \in Nat
    BY <2>2, FS_CardinalityType
  <2>4. Cardinality(upTo(p)) # 0
    BY <2>1, <2>2, FS_EmptySet
  <2>5. QED
    BY <2>2, <2>3, <2>4 DEF Place
<1>3. \A p \in new : Place(new, p) \in 1 .. Cardinality(new)
  <2> HIDE DEF upTo
  <2>1. QED
    BY <1>1, <1>2
<1>4. ASSUME NEW p \in new, NEW q \in new, p < q
      PROVE  Place(new, p) # Place(new, q)
  <2>1. \A r \in new : r \in Nat
    OBVIOUS
  <2>2. \A r \in new : r <= p => r <= q
    BY <1>4, <2>1
  <2>3. ~(q <= p) /\ q <= q
    BY <1>4, <2>1
  <2>4. upTo(p) \in SUBSET upTo(q) /\ q \in upTo(q) /\ q \notin upTo(p)
    BY <2>2, <2>3
  <2>5. Cardinality(upTo(q)) # Cardinality(upTo(p))
    BY <1>2, <2>4, FS_Subset
  <2>6. QED
    BY <1>2, <2>5
<1>5. \A p, q \in new : Place(new, p) = Place(new, q) => p = q
  BY <1>4
<1>6. f \in Injection(new, 1 .. Cardinality(new))
  BY <1>3, <1>5 DEF Injection, IsInjective
<1>7. IsFiniteSet(1 .. Cardinality(new)) /\ Cardinality(1 .. Cardinality(new)) = Cardinality(new)
  BY <1>1, FS_Interval
<1>8. f \in Surjection(new, 1 .. Cardinality(new))
  BY <1>6, <1>7, FS_Injection
<1>9. \A n \in 1 .. Cardinality(new) : \E p \in new : Place(new, p) = n
  BY <1>8 DEF Surjection
<1>10. QED
  BY <1>1, <1>3, <1>5, <1>9

(* Every non-empty set of natural numbers has a least element.              *)
LEMMA LeastNatural ==
  ASSUME NEW T \in SUBSET Nat, T # {}
  PROVE  \E x \in T : \A y \in T : x <= y
<1> DEFINE K == {0 .. n - 1 : n \in T}
<1>1. IsWellFoundedOn(StrictSubsetOrdering(Nat), FiniteSubsetsOf(Nat))
  BY FS_StrictSubsetOrderingWellFounded
<1>2. \A n \in T : IsFiniteSet(0 .. n - 1) /\ 0 .. n - 1 \in SUBSET Nat
  BY FS_Interval
<1>3. K \subseteq FiniteSubsetsOf(Nat) /\ K # {}
  BY <1>2 DEF FiniteSubsetsOf
<1> HIDE DEF K
<1>4. PICK k \in K : \A l \in K : ~(<<l, k>> \in StrictSubsetOrdering(Nat))
  BY <1>1, <1>3, WFMin
<1>5. PICK x \in T : k = 0 .. x - 1
  BY DEF K
<1>6. ASSUME NEW y \in T, y < x
      PROVE  FALSE
  <2>1. 0 .. y - 1 \in K /\ ~(<<0 .. y - 1, k>> \in StrictSubsetOrdering(Nat))
    BY <1>4 DEF K
  <2>2. 0 .. y - 1 \in SUBSET Nat /\ k \in SUBSET Nat /\ 0 .. y - 1 \subseteq k
    BY <1>5, <1>6
  <2>3. y \in k /\ y \notin 0 .. y - 1
    BY <1>5, <1>6
  <2>4. QED
    BY <2>1, <2>2, <2>3 DEF StrictSubsetOrdering
<1>7. QED
  BY <1>6

(* Of the nodes made, exactly one of each structure not in the table is new.*)
LEMMA NewNodes ==
  ASSUME NEW text \in Requests
  PROVE  LET made == Reading[text].made
             new  == InternNew(made)
         IN  /\ new \in SUBSET DOMAIN made /\ new \in SUBSET Nat /\ IsFiniteSet(new)
             /\ \A p \in new : made[p] \in Nodes /\ made[p] \notin DOMAIN internTable
             /\ \A p, q \in new : made[p] = made[q] => p = q
             /\ \A p \in DOMAIN made : \/ made[p] \in DOMAIN internTable
                                       \/ \E q \in new : made[q] = made[p]
<1> DEFINE made == Reading[text].made
           new  == InternNew(made)
<1>1. made \in Seq(NodesOf(text)) /\ DOMAIN made = 1 .. Len(made) /\ Len(made) \in Nat
  BY ParseCacheAssumption
<1>2. \A p \in DOMAIN made : made[p] \in Nodes
  BY DEF Nodes, NodesOf
<1> HIDE DEF made
<1>3. new \in SUBSET DOMAIN made /\ new \in SUBSET Nat
  BY <1>1 DEF InternNew
<1>4. IsFiniteSet(new)
  <2>1. IsFiniteSet(1 .. Len(made))
    BY <1>1, FS_Interval
  <2> HIDE DEF new
  <2>2. QED
    BY <1>1, <1>3, <2>1, FS_Subset
<1>5. ASSUME NEW p \in new, NEW q \in new, made[p] = made[q]
      PROVE  p = q
  <2>1. /\ p \in 1 .. Len(made) /\ q \in 1 .. Len(made)
        /\ \A r \in 1 .. p - 1 : made[r] # made[p]
        /\ \A r \in 1 .. q - 1 : made[r] # made[q]
    BY <1>1 DEF InternNew
  <2>2. QED
    BY <1>1, <1>5, <2>1
<1>6. ASSUME NEW p \in DOMAIN made, made[p] \notin DOMAIN internTable
      PROVE  \E q \in new : made[q] = made[p]
  <2> DEFINE T == {q \in DOMAIN made : made[q] = made[p]}
  <2>1. T \in SUBSET Nat /\ T # {}
    BY <1>1
  <2>2. PICK q \in T : \A r \in T : q <= r
    <3> HIDE DEF T
    <3>1. QED
      BY <2>1, LeastNatural
  <2>3. q \in 1 .. Len(made)
    BY <1>1
  <2>4. ASSUME NEW r \in 1 .. q - 1
        PROVE  made[r] # made[q]
    <3>1. r \in DOMAIN made /\ ~(q <= r)
      BY <1>1, <2>3
    <3>2. QED
      BY <2>2, <3>1
  <2>5. q \in new /\ made[q] = made[p]
    BY <1>6, <2>4 DEF InternNew
  <2>6. QED
    BY <2>5
<1>7. \A p \in new : made[p] \in Nodes /\ made[p] \notin DOMAIN internTable
  BY <1>2, <1>3 DEF InternNew
<1> HIDE DEF new
<1>8. QED
  BY <1>3, <1>4, <1>5, <1>6, <1>7 DEF made, new
(* What interning the nodes of a text leaves behind.                        *)
LEMMA InternedNodes ==
  ASSUME TablesTypeOK, InternTableIsExact, NEW text \in Requests
  PROVE  LET heap == InternAst(Reading[text].made)
         IN  /\ heap.objects \in Seq(Nodes)
             /\ Len(heap.objects) >= Len(objects)
             /\ \A i \in 1 .. Len(objects) : heap.objects[i] = objects[i]
             /\ DOMAIN heap.internTable = DOMAIN internTable \cup NodesOf(text)
             /\ heap.internTable \in [DOMAIN heap.internTable -> 1 .. Len(heap.objects)]
             /\ IsExact(heap.objects, heap.internTable, cleared)
<1> DEFINE made == Reading[text].made
           new  == InternNew(made)
           N    == Cardinality(new)
           at(n) == CHOOSE p \in new : Place(new, p) = n
           news == [n \in 1 .. N |-> made[at(n)]]
           the(t) == CHOOSE p \in new : made[p] = t
           objs == objects \o news
           known == DOMAIN internTable
           table == [t \in known \cup {made[p] : p \in new} |->
                       IF t \in known THEN internTable[t]
                       ELSE Len(objects) + Place(new, the(t))]
<1>1. InternAst(made).objects = objs /\ InternAst(made).internTable = table
  BY DEF InternAst
<1>2. /\ new \in SUBSET DOMAIN made /\ new \in SUBSET Nat /\ IsFiniteSet(new)
      /\ \A p \in new : made[p] \in Nodes /\ made[p] \notin known
      /\ \A p, q \in new : made[p] = made[q] => p = q
      /\ \A p \in DOMAIN made : made[p] \in known \/ \E q \in new : made[q] = made[p]
  BY NewNodes
<1>3. NodesOf(text) = {made[p] : p \in DOMAIN made} /\ NodesOf(text) \subseteq Nodes
  BY DEF NodesOf, Nodes
<1>4. /\ objects \in Seq(Nodes) /\ Len(objects) \in Nat
      /\ cleared \in 0 .. Len(objects)
      /\ internTable \in [known -> 1 .. Len(objects)]
      /\ IsExact(objects, internTable, cleared)
  BY DEF TablesTypeOK, InternTableIsExact
<1> HIDE DEF made, new
<1>5. /\ N \in Nat
      /\ \A p \in new : Place(new, p) \in 1 .. N
      /\ \A p, q \in new : Place(new, p) = Place(new, q) => p = q
      /\ \A n \in 1 .. N : \E p \in new : Place(new, p) = n
  BY <1>2, PlacesAreNumbers
<1> HIDE DEF N
<1>6. \A n \in 1 .. N : at(n) \in new /\ Place(new, at(n)) = n
  BY <1>5
<1>7. \A p \in new : at(Place(new, p)) = p
  BY <1>5, <1>6
<1>8. \A p \in new : the(made[p]) = p
  BY <1>2
<1> HIDE DEF at, the
<1>9. news \in Seq(Nodes) /\ Len(news) = N
  <2>1. \A n \in 1 .. N : made[at(n)] \in Nodes
    BY <1>2, <1>6
  <2>2. QED
    BY <1>5, <2>1
<1>10. \A n \in 1 .. N : news[n] = made[at(n)]
  OBVIOUS
<1> HIDE DEF news
<1>11. /\ objs \in Seq(Nodes)
       /\ Len(objs) = Len(objects) + N
       /\ \A i \in 1 .. Len(objects) : objs[i] = objects[i]
       /\ \A n \in 1 .. N : objs[Len(objects) + n] = news[n]
  <2>1. /\ objs \in Seq(Nodes)
        /\ Len(objs) = Len(objects) + N
        /\ \A i \in 1 .. Len(objects) + N :
             objs[i] = IF i <= Len(objects) THEN objects[i] ELSE news[i - Len(objects)]
    BY <1>4, <1>9, ConcatProperties
  <2> HIDE DEF objs
  <2>2. QED
    BY <1>4, <1>5, <2>1
<1> HIDE DEF objs
<1>12. DOMAIN table = known \cup NodesOf(text)
  BY <1>2, <1>3
<1>13. \A t \in known : table[t] = internTable[t]
  OBVIOUS
<1>14. \A p \in new : made[p] \in DOMAIN table /\ table[made[p]] = Len(objects) + Place(new, p)
  BY <1>2, <1>8
<1>15. \A t \in DOMAIN table : t \in known \/ \E p \in new : t = made[p]
  OBVIOUS
<1>16. table = [t \in DOMAIN table |-> table[t]]
  OBVIOUS
<1> HIDE DEF table
<1>17. \A t \in DOMAIN table :
         table[t] \in 1 .. Len(objs) /\ table[t] > cleared /\ objs[table[t]] = t
  <2> TAKE t \in DOMAIN table
  <2>1. CASE t \in known
    <3>1. /\ internTable[t] \in 1 .. Len(objects)
          /\ internTable[t] > cleared /\ objects[internTable[t]] = t
      BY <1>4, <2>1 DEF IsExact
    <3>2. QED
      BY <1>4, <1>5, <1>11, <1>13, <2>1, <3>1
  <2>2. ASSUME NEW p \in new, t = made[p]
        PROVE  table[t] \in 1 .. Len(objs) /\ table[t] > cleared /\ objs[table[t]] = t
    <3>1. Place(new, p) \in 1 .. N /\ table[t] = Len(objects) + Place(new, p)
      BY <1>5, <1>14, <2>2
    <3>2. objs[table[t]] = made[p]
      BY <1>7, <1>10, <1>11, <3>1
    <3>3. QED
      BY <1>4, <1>5, <1>11, <2>2, <3>1, <3>2
  <2>3. QED
    BY <1>15, <2>1, <2>2
<1>18. ASSUME NEW i \in cleared + 1 .. Len(objs)
       PROVE  objs[i] \in DOMAIN table /\ table[objs[i]] = i
  <2>1. CASE i <= Len(objects)
    <3>1. i \in cleared + 1 .. Len(objects) /\ i \in 1 .. Len(objects)
      BY <1>4, <2>1
    <3>2. objects[i] \in known /\ internTable[objects[i]] = i /\ objs[i] = objects[i]
      BY <1>4, <1>11, <3>1 DEF IsExact
    <3>3. QED
      BY <1>12, <1>13, <3>2
  <2>2. CASE i > Len(objects)
    <3>1. PICK n \in 1 .. N : i = Len(objects) + n
      <4>1. i - Len(objects) \in 1 .. N /\ i = Len(objects) + (i - Len(objects))
        BY <1>4, <1>5, <1>11, <2>2
      <4>2. QED
        BY <4>1
    <3>2. objs[i] = made[at(n)] /\ at(n) \in new /\ Place(new, at(n)) = n
      BY <1>6, <1>10, <1>11, <3>1
    <3>3. QED
      BY <1>14, <3>1, <3>2
  <2>3. QED
    BY <1>4, <2>1, <2>2
<1>19. IsExact(objs, table, cleared)
  BY <1>17, <1>18 DEF IsExact
<1>20. table \in [DOMAIN table -> 1 .. Len(objs)]
  <2>1. \A t \in DOMAIN table : table[t] \in 1 .. Len(objs)
    BY <1>17
  <2>2. QED
    BY <1>16, <2>1, Zenon
<1>21. Len(objs) >= Len(objects)
  BY <1>4, <1>5, <1>11
<1>22. QED
  BY <1>1, <1>11, <1>12, <1>19, <1>20, <1>21 DEF made
-----------------------------------------------------------------------------
(* The inductive invariant.                                                 *)

LEMMA EmptyTable == DOMAIN NoEntries = {} /\ NoEntries \in [{} -> 1 .. 0]
BY DEF NoEntries

LEMMA InitInvariant == TablesInit => IInv
<1> SUFFICES ASSUME TablesInit PROVE IInv
  OBVIOUS
<1>1. << >> \in Seq(Nodes) /\ Len(<< >>) = 0
  OBVIOUS
<1>2. TablesTypeOK
  BY <1>1, EmptyTable DEF TablesInit, TablesTypeOK
<1>3. InternTableIsExact
  BY <1>1, EmptyTable DEF TablesInit, InternTableIsExact, IsExact
<1>4. CacheIsRight
  BY EmptyTable, FS_EmptySet, ParseCacheAssumption DEF TablesInit, CacheIsRight
<1>5. QED
  BY <1>2, <1>3, <1>4 DEF IInv

(* After parse-cache-evict-if-needed the cache has room for an entry.       *)
LEMMA EvictionMakesRoom ==
  ASSUME IInv
  PROVE  /\ IsFiniteSet(DOMAIN EvictIfNeeded)
         /\ MaxSize > 0 => Cardinality(DOMAIN EvictIfNeeded) < MaxSize
         /\ DOMAIN EvictIfNeeded \subseteq DOMAIN parseCache
         /\ DOMAIN EvictIfNeeded \subseteq Requests
         /\ EvictIfNeeded \in [DOMAIN EvictIfNeeded -> 1 .. Len(objects)]
         /\ \A text \in DOMAIN EvictIfNeeded : EvictIfNeeded[text] = parseCache[text]
<1>1. /\ IsFiniteSet(DOMAIN parseCache) /\ Cardinality(DOMAIN parseCache) \in Nat
      /\ MaxSize \in Nat
  BY FS_CardinalityType, ParseCacheAssumption DEF IInv, CacheIsRight
<1>2. CASE MaxSize > 0 /\ Cardinality(DOMAIN parseCache) >= MaxSize
  <2>1. EvictIfNeeded = NoEntries
    BY <1>2 DEF EvictIfNeeded
  <2>2. IsFiniteSet({}) /\ Cardinality({}) = 0
    BY FS_EmptySet
  <2>3. NoEntries \in [DOMAIN NoEntries -> 1 .. Len(objects)]
    BY EmptyTable
  <2>4. QED
    BY <1>1, <1>2, <2>1, <2>2, <2>3, EmptyTable
<1>3. CASE ~(MaxSize > 0 /\ Cardinality(DOMAIN parseCache) >= MaxSize)
  <2>1. EvictIfNeeded = parseCache
    BY <1>3 DEF EvictIfNeeded
  <2>2. QED
    BY <1>1, <1>3, <2>1 DEF IInv, TablesTypeOK
<1>4. QED
  BY <1>2, <1>3

LEMMA ParseKeepsInvariant ==
  ASSUME IInv, NEW text \in Requests, Parse(text)
  PROVE  /\ IInv'
         /\ IF Reading[text].ok
              THEN answer' # 0 /\ objects'[answer'] = Reading[text].tree
              ELSE answer' = 0
<1> DEFINE cache == EvictIfNeeded
           parsed == Reading[text]
           heap == InternAst(parsed.made)
           object == heap.internTable[parsed.tree]
<1>1. /\ IsFiniteSet(DOMAIN cache)
      /\ MaxSize > 0 => Cardinality(DOMAIN cache) < MaxSize
      /\ DOMAIN cache \subseteq Requests
      /\ cache \in [DOMAIN cache -> 1 .. Len(objects)]
      /\ \A t \in DOMAIN cache : Reading[t].ok /\ objects[cache[t]] = Reading[t].tree
  BY EvictionMakesRoom DEF IInv, CacheIsRight
<1>2. /\ objects \in Seq(Nodes) /\ Len(objects) \in Nat /\ cleared \in 0 .. Len(objects)
      /\ MaxSize \in Nat /\ Cardinality(DOMAIN cache) \in Nat
  BY <1>1, ParseCacheAssumption, FS_CardinalityType DEF IInv, TablesTypeOK
<1>3. cleared' = cleared
  BY DEF Parse
<1>4. CASE text \in DOMAIN cache
  <2>1. /\ answer' = cache[text] /\ parseCache' = cache
        /\ objects' = objects /\ internTable' = internTable
    BY <1>4 DEF Parse
  <2> HIDE DEF cache
  <2>2. TablesTypeOK'
    BY <1>1, <1>2, <1>3, <1>4, <2>1 DEF IInv, TablesTypeOK
  <2>3. InternTableIsExact'
    BY <1>3, <2>1 DEF IInv, InternTableIsExact
  <2>4. CacheIsRight'
    BY <1>1, <1>2, <2>1 DEF CacheIsRight
  <2>5. answer' # 0 /\ objects'[answer'] = parsed.tree /\ parsed.ok
    BY <1>1, <1>2, <1>4, <2>1
  <2>6. QED
    BY <2>2, <2>3, <2>4, <2>5 DEF IInv
<1>5. CASE text \notin DOMAIN cache
  <2>1. /\ objects' = heap.objects /\ internTable' = heap.internTable
        /\ parsed.ok => answer' = object /\ parseCache' = With(cache, text, object)
        /\ ~parsed.ok => answer' = 0 /\ parseCache' = cache
    BY <1>5 DEF Parse
  <2>2. /\ heap.objects \in Seq(Nodes)
        /\ Len(heap.objects) >= Len(objects)
        /\ \A i \in 1 .. Len(objects) : heap.objects[i] = objects[i]
        /\ DOMAIN heap.internTable = DOMAIN internTable \cup NodesOf(text)
        /\ heap.internTable \in [DOMAIN heap.internTable -> 1 .. Len(heap.objects)]
        /\ IsExact(heap.objects, heap.internTable, cleared)
    BY InternedNodes DEF IInv
  <2>3. Len(objects') \in Nat /\ Len(objects') >= Len(objects)
    BY <2>1, <2>2
  <2>4. parsed.ok => /\ parsed.tree \in DOMAIN heap.internTable
                     /\ object \in 1 .. Len(objects')
                     /\ objects'[object] = parsed.tree
    BY <2>1, <2>2, ParseCacheAssumption DEF IsExact
  <2>5. /\ objects' \in Seq(Nodes)
        /\ DOMAIN internTable' \subseteq Nodes
        /\ internTable' \in [DOMAIN internTable' -> 1 .. Len(objects')]
        /\ cleared' \in 0 .. Len(objects')
        /\ IsExact(objects', internTable', cleared')
    BY <1>2, <1>3, <2>1, <2>2, <2>3 DEF IInv, TablesTypeOK, Nodes
  <2>6. /\ cache \in [DOMAIN cache -> 1 .. Len(objects')]
        /\ \A t \in DOMAIN cache : Reading[t].ok /\ objects'[cache[t]] = Reading[t].tree
    BY <1>1, <1>2, <2>1, <2>2, <2>3
  <2> HIDE DEF cache, heap, object
  <2>7. CASE parsed.ok
    <3>1. /\ parseCache' = With(cache, text, object) /\ answer' = object
          /\ object \in 1 .. Len(objects') /\ objects'[object] = parsed.tree
      BY <2>1, <2>4, <2>7
    <3>2. /\ DOMAIN parseCache' = DOMAIN cache \cup {text}
          /\ \A t \in DOMAIN parseCache' :
               parseCache'[t] = IF t = text THEN object ELSE cache[t]
          /\ parseCache' = [t \in DOMAIN parseCache' |-> parseCache'[t]]
      BY <3>1 DEF With
    <3>3. \A t \in DOMAIN parseCache' :
            /\ parseCache'[t] \in 1 .. Len(objects')
            /\ Reading[t].ok /\ objects'[parseCache'[t]] = Reading[t].tree
      BY <2>6, <2>7, <3>1, <3>2
    <3>4. parseCache' \in [DOMAIN parseCache' -> 1 .. Len(objects')]
      <4>1. \A t \in DOMAIN parseCache' : parseCache'[t] \in 1 .. Len(objects')
        BY <3>3
      <4>2. QED
        BY <3>2, <4>1, Zenon
    <3>5. /\ IsFiniteSet(DOMAIN parseCache')
          /\ MaxSize > 0 => Cardinality(DOMAIN parseCache') <= MaxSize
      <4>1. /\ IsFiniteSet(DOMAIN cache \cup {text})
            /\ Cardinality(DOMAIN cache \cup {text}) = Cardinality(DOMAIN cache) + 1
        BY <1>1, <1>5, FS_AddElement
      <4>2. QED
        BY <1>1, <1>2, <3>2, <4>1
    <3>6. DOMAIN parseCache' \subseteq Requests
      BY <1>1, <3>2
    <3>7. TablesTypeOK'
      BY <2>3, <2>5, <3>1, <3>4, <3>6 DEF TablesTypeOK
    <3>8. CacheIsRight' /\ InternTableIsExact'
      BY <2>5, <3>3, <3>5 DEF CacheIsRight, InternTableIsExact
    <3>9. answer' # 0
      BY <2>3, <3>1
    <3>10. QED
      BY <2>7, <3>1, <3>7, <3>8, <3>9 DEF IInv
  <2>8. CASE ~parsed.ok
    <3>1. parseCache' = cache /\ answer' = 0
      BY <2>1, <2>8
    <3>2. TablesTypeOK'
      BY <1>1, <2>3, <2>5, <2>6, <3>1 DEF TablesTypeOK
    <3>3. CacheIsRight'
      BY <1>1, <1>2, <2>6, <3>1 DEF CacheIsRight
    <3>4. InternTableIsExact'
      BY <2>5 DEF InternTableIsExact
    <3>5. QED
      BY <2>8, <3>1, <3>2, <3>3, <3>4 DEF IInv
  <2>9. QED
    BY <2>7, <2>8
<1>6. QED
  BY <1>4, <1>5

LEMMA ClearParseCacheKeepsInvariant ==
  ASSUME IInv, ClearParseCache
  PROVE  IInv'
<1>1. TablesTypeOK'
  BY EmptyTable DEF IInv, TablesTypeOK, ClearParseCache
<1>2. InternTableIsExact'
  BY DEF IInv, InternTableIsExact, ClearParseCache
<1>3. CacheIsRight'
  BY EmptyTable, FS_EmptySet, ParseCacheAssumption DEF CacheIsRight, ClearParseCache
<1>4. QED
  BY <1>1, <1>2, <1>3 DEF IInv

LEMMA ClearAstInternTableKeepsInvariant ==
  ASSUME IInv, ClearAstInternTable
  PROVE  IInv'
<1>1. Len(objects) \in Nat
  BY DEF IInv, TablesTypeOK
<1>2. TablesTypeOK'
  BY <1>1, EmptyTable DEF IInv, TablesTypeOK, ClearAstInternTable
<1>3. InternTableIsExact'
  BY <1>1, EmptyTable DEF InternTableIsExact, IsExact, ClearAstInternTable
<1>4. CacheIsRight'
  BY DEF IInv, CacheIsRight, ClearAstInternTable
<1>5. QED
  BY <1>2, <1>3, <1>4 DEF IInv

LEMMA StepKeepsInvariant == IInv /\ [TablesNext]_tables => IInv'
<1> SUFFICES ASSUME IInv, [TablesNext]_tables PROVE IInv'
  OBVIOUS
<1>1. CASE \E text \in Requests : Parse(text)
  BY <1>1, ParseKeepsInvariant
<1>2. CASE ClearParseCache
  BY <1>2, ClearParseCacheKeepsInvariant
<1>3. CASE ClearAstInternTable
  BY <1>3, ClearAstInternTableKeepsInvariant
<1>4. CASE UNCHANGED tables
  BY <1>4 DEF tables, IInv, TablesTypeOK, InternTableIsExact, CacheIsRight
<1>5. QED
  BY <1>1, <1>2, <1>3, <1>4 DEF TablesNext

(* The intern table holds exactly what was made since it was last cleared,  *)
(* and the parse cache, never too full, exactly what the parser would give. *)
THEOREM InductiveInvariant == TablesSpec => []IInv
BY InitInvariant, StepKeepsInvariant, PTL DEF TablesSpec

(* However requests, failed parses, evictions and both clears follow each   *)
(* other, equal expressions made since the intern table was last cleared    *)
(* are one object: comparing keys of the result cache by identity is        *)
(* comparing expressions.                                                   *)
THEOREM EqualExpressionsStayOneObject == TablesSpec => []EqualExpressionsAreOneObject
<1>1. IInv => EqualExpressionsAreOneObject
  BY DEF IInv, InternTableIsExact, IsExact, EqualExpressionsAreOneObject
<1>2. QED
  BY <1>1, InductiveInvariant, PTL

Transparent ==
  /\ MaxSize > 0 => Cardinality(DOMAIN parseCache') <= MaxSize
  /\ \A text \in Requests :
       LET parsed == Reading[text]
       IN  /\ text \in DOMAIN parseCache' =>
                parsed.ok /\ objects'[parseCache'[text]] = parsed.tree
           /\ Parse(text) =>
                IF parsed.ok THEN answer' # 0 /\ objects'[answer'] = parsed.tree
                ELSE answer' = 0

(* The parse cache never grows beyond its bound, and with it or without it, *)
(* a text is answered with what parsing it gives.                           *)
THEOREM CachingParsesIsInvisible == TablesSpec => ParseCacheIsTransparent
<1>1. IInv /\ IInv' => [Transparent]_tables
  <2> SUFFICES ASSUME IInv, IInv' PROVE Transparent
    OBVIOUS
  <2>1. MaxSize > 0 => Cardinality(DOMAIN parseCache') <= MaxSize
    BY DEF IInv, CacheIsRight
  <2>2. \A text \in DOMAIN parseCache' :
          Reading[text].ok /\ objects'[parseCache'[text]] = Reading[text].tree
    BY DEF IInv, CacheIsRight
  <2>3. QED
    BY <2>1, <2>2, ParseKeepsInvariant DEF Transparent
<1>2. QED
  BY <1>1, InductiveInvariant, PTL DEF ParseCacheIsTransparent, Transparent
===============================================================================
