-------------------------- MODULE CalculatorProofs --------------------------
(***************************************************************************)
(* Proofs about Calculator, for any expressions, operators and bounds: its *)
(* types, that a bounded cache stays bounded and evicts what was used      *)
(* longest ago, that steady expressions are answered right as long as      *)
(* numbers that are = are the same, and that every call takes finitely     *)
(* many steps and never lacks one.                                         *)
(***************************************************************************)
EXTENDS CalculatorHistory, FiniteSetTheorems, SequenceTheorems, WellFoundedInduction, TLAPS

-----------------------------------------------------------------------------
(* Tables and caches.                                                       *)

LEMMA NoEntriesType == \A K, V : Table(NoEntries, K, V)
BY DEF Table, NoEntries

LEMMA WithType ==
  ASSUME NEW K, NEW V, NEW t, Table(t, K, V), NEW n \in K, NEW v \in V
  PROVE  /\ Table(With(t, n, v), K, V)
         /\ DOMAIN With(t, n, v) = DOMAIN t \cup {n}
BY DEF Table, With

LEMMA WithoutType ==
  ASSUME NEW K, NEW V, NEW t, Table(t, K, V), NEW n
  PROVE  /\ Table(Without(t, n), K, V)
         /\ DOMAIN Without(t, n) = DOMAIN t \ {n}
BY DEF Table, Without

CacheFields == {"table", "access", "clock", "hits", "misses",
                "compiled", "compiledSize", "dirty", "givenUp"}

LEMMA EmptyCacheType == CacheType(EmptyCache, Values)
<1>1. /\ Table(NoEntries, Nodes, Values)
      /\ Table(NoEntries, Nodes, Nat)
  BY NoEntriesType
<1>. QED  BY <1>1 DEF CacheType, EmptyCache

LEMMA CacheDomain == DOMAIN EmptyCache = CacheFields
BY DEF EmptyCache, CacheFields

(* A use of an entry, and a hit.                                            *)
LEMMA TouchType ==
  ASSUME NEW c, CacheType(c, Values), NEW n \in Nodes
  PROVE  /\ CacheType(Touch(c, n), Values)
         /\ Touch(c, n).table = c.table /\ Touch(c, n).compiled = c.compiled
<1>. DEFINE access == With(c.access, n, c.clock + 1)
            d == [c EXCEPT !.clock = c.clock + 1, !.access = access]
<1>1. c.clock + 1 \in Nat
  BY DEF CacheType
<1>2. Table(access, Nodes, Nat)
  BY <1>1, WithType DEF CacheType
<1>. HIDE DEF access
<1>3. /\ DOMAIN d = CacheFields /\ d.clock = c.clock + 1 /\ d.access = access
      /\ d.table = c.table /\ d.compiled = c.compiled /\ d.compiledSize = c.compiledSize
      /\ d.hits = c.hits /\ d.misses = c.misses
      /\ d.dirty = c.dirty /\ d.givenUp = c.givenUp
  BY CacheDomain DEF CacheType, CacheFields
<1>. HIDE DEF d
<1>4. CacheType(d, Values)
  BY <1>1, <1>2, <1>3, CacheDomain DEF CacheType
<1>5. Touch(c, n) = IF MaxSize = 0 THEN c ELSE d
  BY DEF Touch, d, access
<1>. QED  BY <1>3, <1>4, <1>5

LEMMA CountedHitType ==
  ASSUME NEW c, CacheType(c, Values)
  PROVE  /\ CacheType([c EXCEPT !.hits = @ + 1], Values)
         /\ [c EXCEPT !.hits = @ + 1].table = c.table
         /\ [c EXCEPT !.hits = @ + 1].compiled = c.compiled
<1>. DEFINE d == [c EXCEPT !.hits = c.hits + 1]
<1>1. /\ DOMAIN d = CacheFields /\ d.clock = c.clock /\ d.access = c.access
      /\ d.table = c.table /\ d.compiled = c.compiled /\ d.compiledSize = c.compiledSize
      /\ d.hits = c.hits + 1 /\ d.misses = c.misses
      /\ d.dirty = c.dirty /\ d.givenUp = c.givenUp
  BY CacheDomain DEF CacheType, CacheFields
<1>. HIDE DEF d
<1>2. CacheType(d, Values)
  BY <1>1, CacheDomain DEF CacheType
<1>. QED  BY <1>1, <1>2 DEF d

LEMMA CountedMissType ==
  ASSUME NEW c, CacheType(c, Values)
  PROVE  /\ CacheType([c EXCEPT !.misses = @ + 1], Values)
         /\ [c EXCEPT !.misses = @ + 1].table = c.table
         /\ [c EXCEPT !.misses = @ + 1].compiled = c.compiled
<1>. DEFINE d == [c EXCEPT !.misses = c.misses + 1]
<1>1. /\ DOMAIN d = CacheFields /\ d.clock = c.clock /\ d.access = c.access
      /\ d.table = c.table /\ d.compiled = c.compiled /\ d.compiledSize = c.compiledSize
      /\ d.hits = c.hits /\ d.misses = c.misses + 1
      /\ d.dirty = c.dirty /\ d.givenUp = c.givenUp
  BY CacheDomain DEF CacheType, CacheFields
<1>. HIDE DEF d
<1>2. CacheType(d, Values)
  BY <1>1, CacheDomain DEF CacheType
<1>. QED  BY <1>1, <1>2 DEF d

LEMMA HitType ==
  ASSUME NEW c, CacheType(c, Values), NEW n \in Nodes
  PROVE  /\ CacheType(Hit(c, n), Values)
         /\ Hit(c, n).table = c.table /\ Hit(c, n).compiled = c.compiled
BY TouchType, CountedHitType DEF Hit

LEMMA EvictType ==
  ASSUME NEW c, CacheType(c, Values), NEW n
  PROVE  /\ CacheType(Evict(c, n), Values)
         /\ Evict(c, n).table = Without(c.table, n)
         /\ Evict(c, n).compiled = c.compiled
<1>. DEFINE table == Without(c.table, n)
            access == Without(c.access, n)
            d == [c EXCEPT !.table = table, !.access = access, !.dirty = TRUE]
<1>1. Table(table, Nodes, Values) /\ Table(access, Nodes, Nat)
  BY WithoutType DEF CacheType
<1>2. Evict(c, n) = d
  BY DEF Evict
<1>. HIDE DEF table, access
<1>3. /\ DOMAIN d = CacheFields /\ d.clock = c.clock /\ d.access = access
      /\ d.table = table /\ d.compiled = c.compiled /\ d.compiledSize = c.compiledSize
      /\ d.hits = c.hits /\ d.misses = c.misses
      /\ d.dirty = TRUE /\ d.givenUp = c.givenUp
  BY CacheDomain DEF CacheType, CacheFields
<1>. HIDE DEF d
<1>4. CacheType(d, Values)
  BY <1>1, <1>3, CacheDomain DEF CacheType
<1>. QED  BY <1>2, <1>3, <1>4 DEF table

LEMMA InsertType ==
  ASSUME NEW c, CacheType(c, Values), NEW n \in Nodes, NEW v \in Values
  PROVE  /\ CacheType(Insert(c, n, v), Values)
         /\ Insert(c, n, v).table = With(c.table, n, v)
         /\ Insert(c, n, v).compiled = c.compiled
<1>. DEFINE b == Touch(c, n)
            table == With(c.table, n, v)
            d == [b EXCEPT !.table = table, !.dirty = TRUE]
<1>1. CacheType(b, Values) /\ b.table = c.table /\ b.compiled = c.compiled
  BY TouchType
<1>2. Table(table, Nodes, Values)
  BY WithType DEF CacheType
<1>3. Insert(c, n, v) = d
  BY <1>1 DEF Insert
<1>. HIDE DEF table, b
<1>4. /\ DOMAIN d = CacheFields /\ d.clock = b.clock /\ d.access = b.access
      /\ d.table = table /\ d.compiled = b.compiled /\ d.compiledSize = b.compiledSize
      /\ d.hits = b.hits /\ d.misses = b.misses
      /\ d.dirty = TRUE /\ d.givenUp = b.givenUp
  BY <1>1, CacheDomain DEF CacheType, CacheFields
<1>. HIDE DEF d
<1>5. CacheType(d, Values)
  BY <1>1, <1>2, <1>4, CacheDomain DEF CacheType
<1>. QED  BY <1>1, <1>3, <1>4, <1>5 DEF table

(* What storing a result may leave in the table: the result, and some of    *)
(* what was there.                                                          *)
LEMMA StoredType ==
  ASSUME NEW c, CacheType(c, Values), NEW n \in Nodes, NEW v \in Values,
         NEW d \in Stored(c, n, v)
  PROVE  /\ CacheType(d, Values)
         /\ d.compiled = c.compiled
         /\ \/ d.table = With(c.table, n, v) /\ (~Full(c) \/ n \in DOMAIN c.table)
            \/ \E m \in DOMAIN c.table : d.table = With(Without(c.table, m), n, v)
<1>1. CASE ~Full(c)
  BY <1>1, InsertType DEF Stored
<1>2. CASE Full(c) /\ n \in DOMAIN c.table
  BY <1>2, InsertType, TouchType DEF Stored
<1>3. CASE Full(c) /\ n \notin DOMAIN c.table
  <2>1. PICK m \in Oldest(c) : d = Insert(Evict(c, m), n, v)
    BY <1>3 DEF Stored
  <2>2. m \in DOMAIN c.table
    BY DEF Oldest
  <2>. QED  BY <2>1, <2>2, EvictType, InsertType
<1>. QED  BY <1>1, <1>2, <1>3

LEMMA ClearedType ==
  ASSUME NEW c, CacheType(c, Values)
  PROVE  /\ CacheType(Cleared(c), Values)
         /\ Cleared(c).table = NoEntries /\ Cleared(c).compiled = c.compiled
<1>. DEFINE d == Cleared(c)
<1>1. /\ Table(NoEntries, Nodes, Values)
      /\ Table(NoEntries, Nodes, Nat)
  BY NoEntriesType
<1>2. /\ DOMAIN d = CacheFields /\ d.clock = 0 /\ d.access = NoEntries
      /\ d.table = NoEntries /\ d.compiled = c.compiled /\ d.compiledSize = c.compiledSize
      /\ d.hits = 0 /\ d.misses = 0
      /\ d.dirty = TRUE /\ d.givenUp = c.givenUp
  BY CacheDomain DEF Cleared, CacheType, CacheFields
<1>3. Cleared(c) = d
  OBVIOUS
<1>. HIDE DEF d
<1>4. CacheType(d, Values)
  <2>1. Table(d.table, Nodes, Values) /\ Table(d.access, Nodes, Nat)
    BY <1>1, <1>2
  <2>2. Table(d.compiled, Nodes, Values) /\ d.compiledSize \in Nat /\ d.givenUp \in BOOLEAN
    BY <1>2 DEF CacheType
  <2>3. d.clock \in Nat /\ d.hits \in Nat /\ d.misses \in Nat
    BY <1>2
  <2>4. d.dirty \in BOOLEAN
    BY <1>2
  <2>. QED  BY <1>2, <2>1, <2>2, <2>3, <2>4, CacheDomain DEF CacheType
<1>. QED  BY <1>2, <1>3, <1>4

(* Compiling leaves the table alone, and takes a lookup from it or none.    *)
LEMMA LookupType ==
  ASSUME NEW c, CacheType(c, Values), IsFiniteSet(DOMAIN c.table)
  PROVE  /\ CacheType(WithLookup(c), Values)
         /\ WithLookup(c).table = c.table
         /\ WithLookup(c).compiled \in {c.compiled, c.table, NoEntries}
<1>. DEFINE lookup == IF Size(c) <= MaxClauses THEN c.table ELSE NoEntries
            big == Size(c) > MaxClauses
            size == Size(c)
            d == [c EXCEPT !.compiled = lookup, !.compiledSize = size,
                           !.dirty = FALSE, !.givenUp = big]
<1>1. size \in Nat
  BY FS_CardinalityType DEF Size
<1>2. Table(lookup, Nodes, Values) /\ lookup \in {c.table, NoEntries} /\ big \in BOOLEAN
  BY NoEntriesType DEF CacheType
<1>3. WithLookup(c) = IF ~NeedsRecompile(c) THEN c ELSE d
  BY DEF WithLookup
<1>. HIDE DEF lookup, big, size
<1>4. /\ DOMAIN d = CacheFields /\ d.clock = c.clock /\ d.access = c.access
      /\ d.table = c.table /\ d.compiled = lookup /\ d.compiledSize = size
      /\ d.hits = c.hits /\ d.misses = c.misses
      /\ d.dirty = FALSE /\ d.givenUp = big
  BY CacheDomain DEF CacheType, CacheFields
<1>. HIDE DEF d
<1>5. CacheType(d, Values)
  BY <1>1, <1>2, <1>4, CacheDomain DEF CacheType
<1>. QED  BY <1>2, <1>3, <1>4, <1>5

LEMMA FiniteTables ==
  ASSUME NEW t, IsFiniteSet(DOMAIN t), NEW n, NEW v
  PROVE  /\ IsFiniteSet(DOMAIN With(t, n, v)) /\ IsFiniteSet(DOMAIN Without(t, n))
         /\ n \in DOMAIN t => Cardinality(DOMAIN Without(t, n)) = Cardinality(DOMAIN t) - 1
         /\ Cardinality(DOMAIN With(t, n, v)) <= Cardinality(DOMAIN t) + 1
         /\ n \in DOMAIN t => Cardinality(DOMAIN With(t, n, v)) = Cardinality(DOMAIN t)
         /\ Cardinality(DOMAIN t) \in Nat
<1>. DEFINE D == DOMAIN t
<1>1. DOMAIN With(t, n, v) = D \cup {n} /\ DOMAIN Without(t, n) = D \ {n}
  BY DEF With, Without
<1>2. IsFiniteSet(D) /\ Cardinality(D) \in Nat
  BY FS_CardinalityType
<1>3. /\ IsFiniteSet(D \cup {n})
      /\ Cardinality(D \cup {n}) = IF n \in D THEN Cardinality(D) ELSE Cardinality(D) + 1
  BY <1>2, FS_AddElement
<1>4. /\ IsFiniteSet(D \ {n})
      /\ Cardinality(D \ {n}) = IF n \in D THEN Cardinality(D) - 1 ELSE Cardinality(D)
  BY <1>2, FS_RemoveElement
<1>. QED  BY <1>1, <1>2, <1>3, <1>4

(* The table stays finite, and within its bound.                            *)
Bounded(c) == MaxSize > 0 => Size(c) <= MaxSize

LEMMA StoredBounded ==
  ASSUME NEW c, CacheType(c, Values), IsFiniteSet(DOMAIN c.table),
         NEW n \in Nodes, NEW v \in Values, NEW d \in Stored(c, n, v)
  PROVE  IsFiniteSet(DOMAIN d.table) /\ (Bounded(c) => Bounded(d))
<1>. USE CacheAssumption
<1>1. CASE d.table = With(c.table, n, v) /\ (~Full(c) \/ n \in DOMAIN c.table)
  <2>1. /\ IsFiniteSet(DOMAIN d.table)
        /\ Size(d) <= Size(c) + 1 /\ (n \in DOMAIN c.table => Size(d) = Size(c))
        /\ Size(c) \in Nat /\ Size(d) \in Nat
    BY <1>1, FiniteTables, FS_CardinalityType DEF Size
  <2>. QED  BY <1>1, <2>1 DEF Bounded, Full
<1>2. CASE \E m \in DOMAIN c.table : d.table = With(Without(c.table, m), n, v)
  <2>1. PICK m \in DOMAIN c.table : d.table = With(Without(c.table, m), n, v)
    BY <1>2
  <2>. DEFINE t == Without(c.table, m)
  <2>2. /\ IsFiniteSet(DOMAIN t) /\ Cardinality(DOMAIN t) = Size(c) - 1 /\ Size(c) \in Nat
    BY FiniteTables DEF Size
  <2>. HIDE DEF t
  <2>3. /\ IsFiniteSet(DOMAIN With(t, n, v)) /\ Cardinality(DOMAIN With(t, n, v)) \in Nat
        /\ Cardinality(DOMAIN With(t, n, v)) <= Cardinality(DOMAIN t) + 1
    BY <2>2, FiniteTables, FS_CardinalityType
  <2>4. d.table = With(t, n, v)
    BY <2>1 DEF t
  <2>5. IsFiniteSet(DOMAIN d.table) /\ Size(d) \in Nat /\ Size(d) <= Size(c)
    BY <2>2, <2>3, <2>4 DEF Size
  <2>. QED  BY <2>2, <2>5 DEF Bounded
<1>. QED  BY <1>1, <1>2, StoredType

-----------------------------------------------------------------------------
(* The registry.                                                            *)

(* Functions of an operator that know of no results but what it computes.   *)
RightFunctions ==
  [op \in Operators |-> {f \in Functions : \A c \in f.clauses : c[2] = Apply(op, c[1])}]

(* A tuple has been counted only for a call that has an outcome, and what a *)
(* specialized function knows beforehand is what its operator computes.     *)
RegistryOK(r) ==
  /\ RegistryType(r)
  /\ \A call \in DOMAIN r.counts : Apply(call[1], call[2]) \in Values \cup {ERROR}
  /\ \A op \in Operators : r.installed[op] \in RightFunctions[op]

RegistryFields == {"installed", "counts"}

LEMMA PlainFunctions ==
  /\ BaseFunction \in Functions /\ Wrapper \in Functions
  /\ \A op \in Operators : BaseFunction \in RightFunctions[op] /\ Wrapper \in RightFunctions[op]
<1>1. BaseFunction \in Functions /\ BaseFunction.clauses = {}
  BY DEF BaseFunction, Functions
<1>2. Wrapper \in Functions /\ Wrapper.clauses = {}
  BY DEF Wrapper, Functions
<1>. QED  BY <1>1, <1>2 DEF RightFunctions

LEMMA BaseRegistryOK == RegistryOK(BaseRegistry)
BY PlainFunctions DEF RegistryOK, RegistryType, BaseRegistry

LEMMA ForgottenType ==
  ASSUME NEW counts, DOMAIN counts \subseteq Calls, counts \in [DOMAIN counts -> Nat], NEW ops
  PROVE  /\ DOMAIN Forgotten(counts, ops) \subseteq DOMAIN counts
         /\ Forgotten(counts, ops) \in [DOMAIN Forgotten(counts, ops) -> Nat]
BY DEF Forgotten

LEMMA WrappedOK ==
  ASSUME NEW r, RegistryOK(r), NEW ops
  PROVE  RegistryOK(Wrapped(r, ops))
<1>. DEFINE w == Wrapped(r, ops)
            counts == Forgotten(r.counts, ops)
            installed == [op \in Operators |-> IF op \in ops THEN Wrapper ELSE r.installed[op]]
<1>1. /\ DOMAIN counts \subseteq DOMAIN r.counts
      /\ counts \in [DOMAIN counts -> Nat]
  BY ForgottenType DEF RegistryOK, RegistryType
<1>2. /\ installed \in [Operators -> Functions]
      /\ \A op \in Operators : installed[op] \in RightFunctions[op]
  BY PlainFunctions DEF RegistryOK, RegistryType
<1>3. w = [r EXCEPT !.installed = installed, !.counts = counts]
  BY DEF Wrapped
<1>. HIDE DEF counts, installed
<1>4. DOMAIN w = RegistryFields /\ w.installed = installed /\ w.counts = counts
  BY <1>3 DEF RegistryOK, RegistryType, RegistryFields
<1>. HIDE DEF w
<1>. QED  BY <1>1, <1>2, <1>4 DEF RegistryOK, RegistryType, RegistryFields, w

LEMMA CountedOK ==
  ASSUME NEW r, RegistryOK(r), NEW op \in Operators, NEW args \in Seq(Values),
         Apply(op, args) \in Values \cup {ERROR}
  PROVE  RegistryOK(Counted(r, op, args))
<1>. DEFINE w == Counted(r, op, args)
            call == <<op, args>>
            n == Recorded(r, op, args) + 1
            counts == [c \in DOMAIN r.counts \cup {call} |-> IF c = call THEN n ELSE r.counts[c]]
<1>1. call \in Calls /\ call[1] = op /\ call[2] = args
  BY DEF Calls
<1>2. n \in Nat
  BY DEF Recorded, RegistryOK, RegistryType
<1>3. w = [r EXCEPT !.counts = counts]
  BY DEF Counted
<1>. HIDE DEF n, call
<1>4. DOMAIN counts = DOMAIN r.counts \cup {call} /\ counts \in [DOMAIN counts -> Nat]
  BY <1>2 DEF RegistryOK, RegistryType
<1>. HIDE DEF counts
<1>5. /\ DOMAIN w = RegistryFields
      /\ w.installed = r.installed /\ w.counts = counts
  BY <1>3 DEF RegistryOK, RegistryType, RegistryFields
<1>. HIDE DEF w
<1>6. RegistryType(w)
  BY <1>1, <1>4, <1>5 DEF RegistryOK, RegistryType, RegistryFields
<1>7. \A c \in DOMAIN w.counts : Apply(c[1], c[2]) \in Values \cup {ERROR}
  BY <1>1, <1>4, <1>5 DEF RegistryOK
<1>. QED  BY <1>5, <1>6, <1>7 DEF RegistryOK, w

LEMMA SpecializedFunctionRight ==
  ASSUME NEW r, RegistryOK(r), NEW op \in Operators, ~Unspecializable(r, op)
  PROVE  SpecializedFunction(r, op) \in RightFunctions[op]
<1>. DEFINE clauses == {<<p, Apply(op, p)>> : p \in HotPatterns(r, op)}
<1>1. ASSUME NEW p \in HotPatterns(r, op)
      PROVE  p \in Seq(Values) /\ Apply(op, p) \in Values
  <2>1. PICK c \in DOMAIN r.counts : c[1] = op /\ c[2] = p
    BY DEF HotPatterns
  <2>2. c \in Calls /\ Apply(op, p) \in Values \cup {ERROR}
    BY <2>1 DEF RegistryOK, RegistryType
  <2>3. Apply(op, p) # ERROR
    BY DEF Unspecializable
  <2>. QED  BY <2>1, <2>2, <2>3 DEF Calls
<1>2. clauses \subseteq Clauses /\ \A c \in clauses : c[2] = Apply(op, c[1])
  BY <1>1 DEF Clauses
<1>3. SpecializedFunction(r, op) = [kind |-> "specialized", clauses |-> clauses]
  BY DEF SpecializedFunction
<1>. HIDE DEF clauses
<1>. QED  BY <1>2, <1>3 DEF RightFunctions, Functions

LEMMA SpecializedOK ==
  ASSUME NEW r, RegistryOK(r), NEW ops, \A op \in ops : ~Unspecializable(r, op)
  PROVE  RegistryOK(Specialized(r, ops))
<1>. DEFINE w == Specialized(r, ops)
<1>1. /\ DOMAIN w = RegistryFields
      /\ w.installed = [op \in Operators |->
                          IF op \in Hot(r, ops) THEN SpecializedFunction(r, op)
                          ELSE r.installed[op]]
      /\ w.counts = Forgotten(r.counts, Hot(r, ops))
  BY DEF Specialized, RegistryFields
<1>2. /\ DOMAIN w.counts \subseteq DOMAIN r.counts
      /\ w.counts \in [DOMAIN w.counts -> Nat]
  BY <1>1, ForgottenType DEF RegistryOK, RegistryType
<1>3. ASSUME NEW op \in Operators
      PROVE  w.installed[op] \in RightFunctions[op]
  <2>1. CASE op \notin Hot(r, ops)
    BY <1>1, <2>1 DEF RegistryOK
  <2>2. CASE op \in Hot(r, ops)
    BY <1>1, <2>2, SpecializedFunctionRight DEF Hot
  <2>. QED  BY <2>1, <2>2
<1>4. w.installed \in [Operators -> Functions]
  <2>1. \A op \in Operators : RightFunctions[op] \subseteq Functions
    BY DEF RightFunctions
  <2>2. DOMAIN w.installed = Operators /\ w.installed = [op \in Operators |-> w.installed[op]]
    BY <1>1
  <2>. HIDE DEF w
  <2>. QED  BY <1>3, <2>1, <2>2
<1>. HIDE DEF w
<1>5. RegistryType(w)
  BY <1>1, <1>2, <1>4 DEF RegistryOK, RegistryType, RegistryFields
<1>6. \A c \in DOMAIN w.counts : Apply(c[1], c[2]) \in Values \cup {ERROR}
  BY <1>2 DEF RegistryOK
<1>. QED  BY <1>3, <1>5, <1>6 DEF RegistryOK, w

(* A call of whatever function is fetched for it.                           *)
LEMMA CallOK ==
  ASSUME NEW r, RegistryOK(r), NEW f \in Functions, NEW op \in Operators,
         NEW args \in Seq(Values), Apply(op, args) \in Values \cup {ERROR}
  PROVE  /\ RegistryOK(AfterCall(r, f, op, args))
         /\ Outcomes(r, f, op, args) \subseteq Values \cup {ERROR}
<1>1. RegistryOK(Counted(r, op, args))
  BY CountedOK
<1>2. CallSpecializes(r, f, op, args) /\ ~CallFails(r, f, op, args)
        => RegistryOK(Specialized(Counted(r, op, args), {op}))
  BY <1>1, SpecializedOK DEF CallFails
<1>3. RegistryOK(AfterCall(r, f, op, args))
  BY <1>1, <1>2 DEF AfterCall
<1>4. \A c \in Matching(f, args) : c[2] \in Values
  BY DEF Matching, Functions, Clauses
<1>. QED  BY <1>3, <1>4 DEF Outcomes

(* Only operators that can be specialized are reached.                      *)
LEMMA ReachedOK ==
  ASSUME NEW r, NEW op \in Reached(r)
  PROVE  ~Unspecializable(r, op)
<1>1. PICK i \in DOMAIN PipelineOps : /\ op = PipelineOps[i]
                                      /\ \A j \in Failing(r) : i < j
  BY DEF Reached
<1>2. i \in Nat
  BY CalculatorAssumption
<1>. QED  BY <1>1, <1>2 DEF Failing

-----------------------------------------------------------------------------
(* The stack.                                                               *)

(* A frame waits for the value of a node.                                   *)
Expects(frame, n) ==
  /\ Len(frame.args) < Len(Args[frame.node])
  /\ IsNode(Args[frame.node][Len(frame.args) + 1])
  /\ Args[frame.node][Len(frame.args) + 1].node = n

(* Every frame but the last waits for the node of the next one.             *)
Chained(frames) ==
  /\ \A i \in 1 .. Len(frames) : Len(frames[i].args) <= Len(Args[frames[i].node])
  /\ \A i \in 1 .. Len(frames) - 1 : Expects(frames[i], frames[i + 1].node)

Last(frames) == frames[Len(frames)]

Extended(frames, v) == [frames EXCEPT ![Len(frames)].args = Append(@, v)]

LEMMA ExtendedType ==
  ASSUME NEW frames \in Seq(Frames), frames # << >>, NEW v \in Values
  PROVE  /\ Extended(frames, v) \in Seq(Frames)
         /\ Len(Extended(frames, v)) = Len(frames)
         /\ \A i \in 1 .. Len(frames) :
              /\ Extended(frames, v)[i].node = frames[i].node
              /\ Extended(frames, v)[i].function = frames[i].function
         /\ \A i \in 1 .. Len(frames) - 1 : Extended(frames, v)[i] = frames[i]
         /\ Extended(frames, v)[Len(frames)].args = Append(frames[Len(frames)].args, v)
<1>. DEFINE last == Last(frames)
            f == [last EXCEPT !.args = Append(last.args, v)]
            new == [frames EXCEPT ![Len(frames)] = f]
<1>1. /\ Len(frames) \in 1 .. Len(frames)
      /\ last \in Frames /\ last = frames[Len(frames)]
  BY DEF Last
<1>2. Extended(frames, v) = new
  BY <1>1 DEF Extended, Last
<1>. HIDE DEF last
<1>3. /\ f \in Frames /\ f.node = last.node /\ f.function = last.function
      /\ f.args = Append(last.args, v)
  <2>1. PICK n \in Nodes, g \in Functions, s \in Seq(Values) :
          last = [node |-> n, function |-> g, args |-> s]
    BY <1>1 DEF Frames
  <2>2. Append(s, v) \in Seq(Values)
    OBVIOUS
  <2>3. f = [node |-> n, function |-> g, args |-> Append(s, v)]
    <3>. DEFINE longer == Append(s, v)
    <3>1. f = [[node |-> n, function |-> g, args |-> s] EXCEPT !.args = longer]
      BY <2>1
    <3>. HIDE DEF longer
    <3>2. [[node |-> n, function |-> g, args |-> s] EXCEPT !.args = longer]
            = [node |-> n, function |-> g, args |-> longer]
      OBVIOUS
    <3>. QED  BY <3>1, <3>2 DEF longer
  <2>. QED  BY <2>1, <2>2, <2>3 DEF Frames
<1>. HIDE DEF f
<1>4. new \in Seq(Frames) /\ Len(new) = Len(frames)
  BY <1>1, <1>3
<1>5. /\ new[Len(frames)] = f
      /\ \A i \in 1 .. Len(frames) - 1 : new[i] = frames[i]
  BY <1>1
<1>. HIDE DEF new
<1>6. ASSUME NEW i \in 1 .. Len(frames)
      PROVE  new[i].node = frames[i].node /\ new[i].function = frames[i].function
  <2>1. i = Len(frames) \/ i \in 1 .. Len(frames) - 1
    BY <1>1
  <2>. QED  BY <1>1, <1>3, <1>5, <2>1
<1>7. new[Len(frames)].args = Append(frames[Len(frames)].args, v)
  BY <1>1, <1>3, <1>5
<1>. QED  BY <1>2, <1>4, <1>5, <1>6, <1>7

LEMMA ExtendedChained ==
  ASSUME NEW frames \in Seq(Frames), frames # << >>, NEW v \in Values,
         Chained(frames), Len(Last(frames).args) < Len(Args[Last(frames).node])
  PROVE  Chained(Extended(frames, v))
<1>. DEFINE new == Extended(frames, v)
            N == Len(frames)
<1>1. /\ new \in Seq(Frames) /\ Len(new) = N
      /\ \A i \in 1 .. N : new[i].node = frames[i].node
      /\ \A i \in 1 .. N - 1 : new[i] = frames[i]
      /\ new[N].args = Append(Last(frames).args, v)
  BY ExtendedType DEF Last
<1>2. N \in Nat \ {0} /\ Last(frames) \in Frames /\ Last(frames) = frames[N]
  BY DEF Last
<1>3. Len(new[N].args) = Len(Last(frames).args) + 1 /\ Len(Last(frames).args) \in Nat
  BY <1>1, <1>2 DEF Frames
<1>4. Last(frames).node \in Nodes /\ Len(Args[Last(frames).node]) \in Nat
  BY <1>2, CalculatorAssumption DEF Frames
<1>. HIDE DEF new, N
<1>5. ASSUME NEW i \in 1 .. N
      PROVE  Len(new[i].args) <= Len(Args[new[i].node])
  <2>1. CASE i = N
    BY <2>1, <1>1, <1>2, <1>3, <1>4
  <2>2. CASE i # N
    BY <2>2, <1>1, <1>2 DEF Chained, N
  <2>. QED  BY <2>1, <2>2
<1>6. ASSUME NEW i \in 1 .. N - 1
      PROVE  Expects(new[i], new[i + 1].node)
  <2>1. i \in 1 .. N /\ i + 1 \in 1 .. N
    BY <1>2
  <2>2. new[i] = frames[i] /\ new[i + 1].node = frames[i + 1].node
    BY <1>1, <2>1
  <2>. QED  BY <2>2 DEF Chained, N
<1>. QED  BY <1>1, <1>5, <1>6 DEF Chained, new

(* Pushing a frame for a node the last one waits for.                       *)
Fresh(n, g) == [node |-> n, function |-> g, args |-> << >>]

LEMMA FreshType ==
  ASSUME NEW n \in Nodes, NEW g \in Functions
  PROVE  /\ Fresh(n, g) \in Frames /\ Fresh(n, g).node = n /\ Fresh(n, g).function = g
         /\ Len(Fresh(n, g).args) = 0
<1>1. << >> \in Seq(Values) /\ Len(<< >>) = 0
  OBVIOUS
<1>. QED  BY <1>1 DEF Frames, Fresh

LEMMA PushedChained ==
  ASSUME NEW frames \in Seq(Frames), Chained(frames), NEW n \in Nodes,
         NEW g \in Functions, frames # << >> => Expects(Last(frames), n)
  PROVE  /\ Append(frames, Fresh(n, g)) \in Seq(Frames)
         /\ Chained(Append(frames, Fresh(n, g)))
<1>. DEFINE f == Fresh(n, g)
            new == Append(frames, f)
            N == Len(frames)
<1>1. << >> \in Seq(Values)
  OBVIOUS
<1>2. f \in Frames /\ f.node = n /\ Len(f.args) = 0
  BY <1>1 DEF Frames, Fresh
<1>. HIDE DEF f
<1>3. /\ new \in Seq(Frames) /\ Len(new) = N + 1 /\ N \in Nat
      /\ new[N + 1] = f /\ \A i \in 1 .. N : new[i] = frames[i]
  BY <1>2
<1>4. Len(Args[n]) \in Nat
  BY CalculatorAssumption
<1>. HIDE DEF new
<1>5. ASSUME NEW i \in 1 .. N + 1
      PROVE  Len(new[i].args) <= Len(Args[new[i].node])
  <2>1. CASE i = N + 1
    BY <2>1, <1>2, <1>3, <1>4
  <2>2. CASE i # N + 1
    <3>1. i \in 1 .. N
      BY <2>2, <1>3
    <3>2. new[i] = frames[i] /\ Len(frames[i].args) <= Len(Args[frames[i].node])
      BY <1>3, <3>1 DEF Chained
    <3>. QED  BY <3>2
  <2>. QED  BY <2>1, <2>2
<1>6. ASSUME NEW i \in 1 .. N
      PROVE  Expects(new[i], new[i + 1].node)
  <2>1. CASE i = N
    <3>1. frames # << >> /\ Last(frames) = frames[N]
      BY <2>1, <1>3 DEF Last
    <3>. QED  BY <2>1, <3>1, <1>2, <1>3
  <2>2. CASE i # N
    <3>1. i \in 1 .. N - 1 /\ i + 1 \in 1 .. N
      BY <2>2, <1>3
    <3>. QED  BY <3>1, <1>3 DEF Chained
  <2>. QED  BY <2>1, <2>2
<1>7. Chained(new)
  BY <1>3, <1>5, <1>6 DEF Chained
<1>. QED  BY <1>3, <1>7 DEF new, f

(* Popping the last frame: the one before waits for its node.               *)
Popped(frames) == SubSeq(frames, 1, Len(frames) - 1)

LEMMA PoppedChained ==
  ASSUME NEW frames \in Seq(Frames), frames # << >>, Chained(frames)
  PROVE  /\ Popped(frames) \in Seq(Frames)
         /\ Len(Popped(frames)) = Len(frames) - 1
         /\ \A i \in 1 .. Len(frames) - 1 : Popped(frames)[i] = frames[i]
         /\ Chained(Popped(frames))
         /\ Popped(frames) # << >> => /\ Popped(frames)[1] = frames[1]
                                      /\ Expects(Last(Popped(frames)), Last(frames).node)
         /\ Popped(frames) = << >> => frames[1] = Last(frames)
<1>. DEFINE new == Popped(frames)
            N == Len(frames)
<1>1. N \in Nat /\ N # 0
  OBVIOUS
<1>2. /\ new \in Seq(Frames) /\ Len(new) = N - 1
      /\ \A i \in 1 .. N - 1 : new[i] = frames[i]
  <2>1. \A i \in 1 .. N - 1 : frames[i] \in Frames
    BY <1>1
  <2>2. new = SubSeq(frames, 1, N - 1)
    BY DEF Popped
  <2>. HIDE DEF new, N
  <2>3. /\ new \in Seq(Frames)
        /\ Len(new) = IF 1 <= N - 1 THEN N - 1 - 1 + 1 ELSE 0
        /\ \A i \in 1 .. N - 1 - 1 + 1 : new[i] = frames[1 + i - 1]
    BY <1>1, <2>1, <2>2, SubSeqProperties
  <2>4. \A i \in 1 .. N - 1 : i \in 1 .. N - 1 - 1 + 1 /\ 1 + i - 1 = i
    BY <1>1
  <2>. QED  BY <1>1, <2>3, <2>4
<1>. HIDE DEF new
<1>3. Chained(new)
  <2>1. ASSUME NEW i \in 1 .. N - 2
        PROVE  Expects(new[i], new[i + 1].node)
    <3>1. i \in 1 .. N - 1 /\ i + 1 \in 1 .. N - 1
      BY <1>1
    <3>. QED  BY <3>1, <1>2 DEF Chained
  <2>2. ASSUME NEW i \in 1 .. N - 1
        PROVE  Len(new[i].args) <= Len(Args[new[i].node])
    <3>1. i \in 1 .. N
      BY <1>1
    <3>. QED  BY <3>1, <1>2 DEF Chained
  <2>. QED  BY <1>1, <1>2, <2>1, <2>2 DEF Chained
<1>4. ASSUME new # << >>
      PROVE  new[1] = frames[1] /\ Expects(Last(new), Last(frames).node)
  <2>1. N - 1 \in 1 .. N - 1 /\ 1 \in 1 .. N - 1
    BY <1>1, <1>2, <1>4
  <2>2. Last(new) = frames[N - 1] /\ Last(frames) = frames[N]
    BY <2>1, <1>2 DEF Last
  <2>3. Expects(frames[N - 1], frames[N].node)
    BY <2>1, <1>1 DEF Chained
  <2>. QED  BY <2>1, <2>2, <2>3, <1>2
<1>5. ASSUME new = << >>
      PROVE  frames[1] = Last(frames)
  <2>1. N = 1
    BY <1>1, <1>2, <1>5
  <2>. QED  BY <2>1 DEF Last
<1>. QED  BY <1>2, <1>3, <1>4, <1>5 DEF new

-----------------------------------------------------------------------------
(* The inductive invariant: what is stored, ...                             *)
StoreOK ==
  /\ CacheType(cache, Values) /\ IsFiniteSet(DOMAIN cache.table)
  /\ RegistryOK(registry)
  /\ level \in 1 .. 3
  /\ sets \in Nat
  /\ Table(cacheFile, Nodes, Values)
  /\ Table(sourceFile, Nodes, Values)
  /\ Table(loading, Nodes, Values)

(* ... and the evaluation in progress: its frames lead from the expression  *)
(* asked to the node called.                                                *)
ControlOK ==
  /\ asked \in Asked \cup {NULL}
  /\ calling \in Nodes \cup {NULL}
  /\ stack \in Seq(Frames)
  /\ answer \in [asked : Asked, value : Values \cup {ERROR}] \cup {NULL}
  /\ asked = NULL => calling = NULL /\ stack = << >>
  /\ Chained(stack)
  /\ stack # << >> => stack[1].node = asked.node
  /\ calling # NULL => IF stack = << >> THEN calling = asked.node ELSE Expects(Top, calling)

IInv == StoreOK /\ ControlOK

LEMMA EmptyStack == << >> \in Seq(Frames) /\ Chained(<< >>)
<1>1. << >> \in Seq(Frames) /\ Len(<< >>) = 0
  OBVIOUS
<1>. QED  BY <1>1 DEF Chained

LEMMA InitOK == Init => IInv
<1>. SUFFICES ASSUME Init PROVE IInv
  OBVIOUS
<1>1. /\ CacheType(cache, Values) /\ IsFiniteSet(DOMAIN cache.table)
      /\ RegistryOK(registry) /\ Table(NoEntries, Nodes, Values)
  <2>1. DOMAIN EmptyCache.table = {}
    BY DEF EmptyCache, NoEntries
  <2>. QED  BY <2>1, EmptyCacheType, BaseRegistryOK, NoEntriesType, FS_EmptySet DEF Init
<1>2. StoreOK
  BY <1>1 DEF StoreOK, Init
<1>3. ControlOK
  BY EmptyStack DEF ControlOK, Init
<1>. QED  BY <1>2, <1>3 DEF IInv

(* Storing a result.                                                        *)
LEMMA CacheSetOK ==
  ASSUME StoreOK, NEW n \in Nodes, NEW v \in Values, NEW r, RegistryOK(r), CacheSet(n, v, r)
  PROVE  /\ CacheType(cache', Values) /\ IsFiniteSet(DOMAIN cache'.table)
         /\ RegistryOK(registry')
         /\ level' = level /\ cacheFile' = cacheFile
         /\ sets' \in Nat /\ Table(sourceFile', Nodes, Values)
<1>1. cache' \in Stored(cache, n, v)
  BY DEF CacheSet
<1>2. CacheType(cache', Values) /\ IsFiniteSet(DOMAIN cache'.table)
  BY <1>1, StoredType, StoredBounded DEF StoreOK
<1>3. RegistryOK(Specialized(r, Reached(r)))
  BY SpecializedOK, ReachedOK
<1>4. RegistryOK(registry')
  BY <1>3 DEF CacheSet
<1>5. CountSet(cache') => sets' \in Nat /\ Table(sourceFile', Nodes, Values)
  BY <1>2 DEF CountSet, StoreOK, CacheType
<1>6. CountSet(cache') \/ UNCHANGED <<sets, sourceFile>>
  BY DEF CacheSet
<1>. QED  BY <1>2, <1>4, <1>5, <1>6 DEF CacheSet, StoreOK

(* The function fetched for a node.                                         *)
LEMMA FetchedFunction ==
  ASSUME IInv, NEW n \in Nodes
  PROVE  /\ Op[n] \in Operators
         /\ registry.installed[Op[n]] \in Functions
         /\ registry.installed[Op[n]] \in RightFunctions[Op[n]]
<1>1. Op[n] \in Operators
  BY CalculatorAssumption
<1>. QED  BY <1>1 DEF IInv, StoreOK, RegistryOK, RegistryType

(* The application of a complete frame.                                     *)
LEMMA CompleteFrame ==
  ASSUME IInv, Evaluating, ~Incomplete
  PROVE  /\ Top = Last(stack) /\ Top \in Frames /\ stack # << >>
         /\ Len(Top.args) = Len(Args[Top.node])
         /\ Op[Top.node] \in Operators
         /\ Top.args \in [1 .. Len(Args[Top.node]) -> Values]
         /\ Apply(Op[Top.node], Top.args) \in Values \cup {ERROR}
<1>1. stack \in Seq(Frames) /\ stack # << >> /\ Chained(stack)
  BY DEF IInv, ControlOK, Evaluating
<1>2. Len(stack) \in 1 .. Len(stack)
  BY <1>1
<1>3. Top = Last(stack) /\ Top \in Frames
  BY <1>1, <1>2 DEF Top, Last
<1>4. Len(Top.args) <= Len(Args[Top.node])
  BY <1>2 DEF Top, Chained, IInv, ControlOK
<1>5. /\ Top.node \in Nodes /\ Top.args \in Seq(Values) /\ Len(Top.args) \in Nat
      /\ Len(Args[Top.node]) \in Nat
  BY <1>3, CalculatorAssumption DEF Frames
<1>6. Len(Top.args) = Len(Args[Top.node])
  BY <1>4, <1>5 DEF Incomplete
<1>7. Top.args \in [1 .. Len(Args[Top.node]) -> Values]
  BY <1>5, <1>6
<1>8. Apply(Op[Top.node], Top.args) \in Values \cup {ERROR} /\ Op[Top.node] \in Operators
  BY <1>5, <1>7, CalculatorAssumption
<1>. QED  BY <1>1, <1>3, <1>6, <1>7, <1>8

(* Every step keeps what is stored well formed.                             *)
LEMMA StoreStep == IInv /\ [Next]_vars => StoreOK'
<1>. SUFFICES ASSUME IInv, [Next]_vars PROVE StoreOK'
  OBVIOUS
<1>. DEFINE c == WithLookup(cache)
<1>1. CacheType(c, Values) /\ c.table = cache.table /\ IsFiniteSet(DOMAIN c.table)
  BY LookupType DEF IInv, StoreOK
<1>. HIDE DEF c
<1>2. ASSUME NEW n \in Nodes, NEW e \in Envs, Evaluate(n, e) PROVE StoreOK'
  BY <1>2 DEF Evaluate, files, IInv, StoreOK
<1>3. ASSUME ClearCache PROVE StoreOK'
  <2>1. CacheType(cache', Values) /\ cache'.table = NoEntries
    BY <1>3, ClearedType DEF ClearCache, IInv, StoreOK
  <2>2. IsFiniteSet(DOMAIN cache'.table)
    BY <2>1, FS_EmptySet DEF NoEntries
  <2>. QED  BY <1>3, <2>1, <2>2 DEF ClearCache, files, IInv, StoreOK
<1>4. ASSUME NEW l \in Levels, Configure(l) PROVE StoreOK'
  <2>1. RegistryOK(registry')
    BY <1>4, WrappedOK DEF Configure, IInv, StoreOK
  <2>2. level' \in 1 .. 3
    BY <1>4, CalculatorAssumption DEF Configure
  <2>. QED  BY <1>4, <2>1, <2>2 DEF Configure, files, IInv, StoreOK
<1>5. ASSUME SaveCache PROVE StoreOK'
  BY <1>5 DEF SaveCache, IInv, StoreOK, CacheType
<1>6. ASSUME LoadFile PROVE StoreOK'
  BY <1>6 DEF LoadFile, files, IInv, StoreOK
<1>7. ASSUME HitCompiled PROVE StoreOK'
  <2>1. cache' = [c EXCEPT !.hits = @ + 1]
    BY <1>7 DEF HitCompiled, c
  <2>2. CacheType(cache', Values) /\ IsFiniteSet(DOMAIN cache'.table)
    BY <1>1, <2>1, CountedHitType
  <2>. QED  BY <1>7, <2>2 DEF HitCompiled, files, IInv, StoreOK
<1>8. ASSUME HitTable PROVE StoreOK'
  <2>1. cache' = Hit(c, calling) /\ calling \in Nodes
    BY <1>7, <1>8 DEF HitTable, c, IInv, ControlOK
  <2>2. CacheType(cache', Values) /\ IsFiniteSet(DOMAIN cache'.table)
    BY <1>1, <2>1, HitType
  <2>. QED  BY <1>8, <2>2 DEF HitTable, files, IInv, StoreOK
<1>9. ASSUME Miss PROVE StoreOK'
  <2>1. cache' = [c EXCEPT !.misses = @ + 1]
    BY <1>9 DEF Miss, c
  <2>2. CacheType(cache', Values) /\ IsFiniteSet(DOMAIN cache'.table)
    BY <1>1, <2>1, CountedMissType
  <2>. QED  BY <1>9, <2>2 DEF Miss, files, IInv, StoreOK
<1>10. ASSUME TakeAtom PROVE StoreOK'
  BY <1>10 DEF TakeAtom, files, IInv, StoreOK
<1>11. ASSUME Descend PROVE StoreOK'
  BY <1>11 DEF Descend, files, IInv, StoreOK
<1>12. ASSUME ApplyOperator PROVE StoreOK'
  <2>. DEFINE op == Op[Top.node]
              r == AfterCall(registry, Top.function, op, Top.args)
  <2>1. /\ Top \in Frames
        /\ op \in Operators /\ Top.function \in Functions /\ Top.args \in Seq(Values)
        /\ Apply(op, Top.args) \in Values \cup {ERROR}
    BY <1>12, CompleteFrame DEF ApplyOperator, Frames
  <2>2. /\ RegistryOK(r)
        /\ Outcomes(registry, Top.function, op, Top.args) \subseteq Values \cup {ERROR}
    BY <2>1, CallOK DEF IInv, StoreOK
  <2>3. PICK v \in Outcomes(registry, Top.function, op, Top.args) :
          IF v = ERROR
            THEN registry' = r /\ UNCHANGED <<cache, level, sets, files>>
            ELSE CacheSet(Top.node, v, r)
    BY <1>12 DEF ApplyOperator
  <2>4. loading' = loading
    BY <1>12 DEF ApplyOperator
  <2>. HIDE DEF op, r
  <2>5. CASE v = ERROR
    BY <2>2, <2>3, <2>4, <2>5 DEF files, IInv, StoreOK
  <2>6. CASE v # ERROR
    <3>1. v \in Values /\ Top.node \in Nodes /\ CacheSet(Top.node, v, r)
      BY <2>1, <2>2, <2>3, <2>6 DEF Frames
    <3>2. /\ CacheType(cache', Values) /\ IsFiniteSet(DOMAIN cache'.table)
          /\ RegistryOK(registry')
          /\ level' = level /\ cacheFile' = cacheFile
          /\ sets' \in Nat /\ Table(sourceFile', Nodes, Values)
      BY <2>2, <3>1, CacheSetOK DEF IInv
    <3>. QED  BY <2>4, <3>2 DEF IInv, StoreOK
  <2>. QED  BY <2>5, <2>6
<1>13. ASSUME NEW n \in DOMAIN loading, LoadEntry(n) PROVE StoreOK'
  <2>1. /\ CacheSet(n, loading[n], registry)
        /\ loading' = IF HookFails(registry) THEN NoEntries ELSE Without(loading, n)
    BY <1>13 DEF LoadEntry
  <2>2. n \in Nodes /\ loading[n] \in Values
    BY DEF IInv, StoreOK, Table
  <2>3. Table(loading', Nodes, Values)
    BY <2>1, NoEntriesType, WithoutType DEF IInv, StoreOK
  <2>4. /\ CacheType(cache', Values) /\ IsFiniteSet(DOMAIN cache'.table)
        /\ RegistryOK(registry')
        /\ level' = level /\ cacheFile' = cacheFile
        /\ sets' \in Nat /\ Table(sourceFile', Nodes, Values)
    BY <2>1, <2>2, CacheSetOK DEF IInv, StoreOK
  <2>. QED  BY <2>3, <2>4 DEF IInv, StoreOK
<1>14. ASSUME Restart PROVE StoreOK'
  <2>1. DOMAIN EmptyCache.table = {}
    BY DEF EmptyCache, NoEntries
  <2>2. CacheType(cache', Values) /\ IsFiniteSet(DOMAIN cache'.table) /\ RegistryOK(registry')
    BY <1>14, <2>1, EmptyCacheType, BaseRegistryOK, FS_EmptySet DEF Restart
  <2>3. Table(loading', Nodes, Values)
    BY <1>14, NoEntriesType DEF Restart
  <2>. QED  BY <1>14, <2>2, <2>3 DEF Restart, files, IInv, StoreOK
<1>15. ASSUME UNCHANGED vars PROVE StoreOK'
  BY <1>15 DEF vars, files, IInv, StoreOK
<1>. QED  BY <1>2, <1>3, <1>4, <1>5, <1>6, <1>7, <1>8, <1>9, <1>10, <1>11, <1>12, <1>13,
             <1>14, <1>15 DEF Next, Request, Work

(* Handing a value on.                                                      *)
LEMMA DeliverOK ==
  ASSUME ControlOK, asked # NULL, NEW v \in Values,
         NEW frames \in Seq(Frames), Chained(frames), Deliver(v, frames),
         frames # << >> => /\ frames[1].node = asked.node
                           /\ Len(Last(frames).args) < Len(Args[Last(frames).node])
  PROVE  ControlOK'
<1>1. calling' = NULL
  BY DEF Deliver
<1>2. CASE frames = << >>
  <2>1. asked' = NULL /\ stack' = << >> /\ answer' = [asked |-> asked, value |-> v]
    BY <1>2 DEF Deliver
  <2>2. answer' \in [asked : Asked, value : Values \cup {ERROR}]
    BY <2>1 DEF ControlOK
  <2>. QED  BY <1>1, <2>1, <2>2, EmptyStack DEF ControlOK
<1>3. CASE frames # << >>
  <2>1. stack' = Extended(frames, v) /\ UNCHANGED <<asked, answer>>
    BY <1>3 DEF Deliver, Extended
  <2>2. stack' \in Seq(Frames) /\ Chained(stack') /\ Len(stack') = Len(frames)
    BY <1>3, <2>1, ExtendedType, ExtendedChained
  <2>3. stack'[1].node = frames[1].node
    <3>1. 1 \in 1 .. Len(frames)
      BY <1>3
    <3>. QED  BY <1>3, <2>1, <3>1, ExtendedType
  <2>. QED  BY <1>1, <1>3, <2>1, <2>2, <2>3 DEF ControlOK
<1>. QED  BY <1>2, <1>3

LEMMA SignalOK == ControlOK /\ asked # NULL /\ Signal => ControlOK'
<1>. SUFFICES ASSUME ControlOK, asked # NULL, Signal PROVE ControlOK'
  OBVIOUS
<1>1. calling' = NULL /\ asked' = NULL /\ stack' = << >>
  BY DEF Signal
<1>2. answer' \in [asked : Asked, value : Values \cup {ERROR}]
  BY DEF Signal, ControlOK
<1>. QED  BY <1>1, <1>2, EmptyStack DEF ControlOK

(* The value of a constant or of a bound variable is a number.              *)
LEMMA AtomType ==
  ASSUME NEW n \in Nodes, NEW i \in 1 .. Len(Args[n]), ~IsNode(Args[n][i]), NEW e \in Envs
  PROVE  AtomValue(Args[n][i], e) \in Values \cup {ERROR}
BY CalculatorAssumption DEF AtomValue, IsNode, IsConstant

(* The innermost frame, while an argument is missing.                       *)
LEMMA IncompleteFrame ==
  ASSUME IInv, Incomplete
  PROVE  /\ stack # << >> /\ asked \in Asked /\ asked # NULL
         /\ Top = Last(stack) /\ Top \in Frames
         /\ Len(Top.args) + 1 \in 1 .. Len(Args[Top.node])
         /\ stack[1].node = asked.node
<1>1. stack \in Seq(Frames) /\ stack # << >> /\ asked \in Asked /\ asked # NULL
  BY DEF IInv, ControlOK, Incomplete, Evaluating
<1>2. Top = Last(stack) /\ Top \in Frames
  BY <1>1 DEF Top, Last
<1>3. Len(Top.args) \in Nat /\ Len(Args[Top.node]) \in Nat
  BY <1>2, CalculatorAssumption DEF Frames
<1>. QED  BY <1>1, <1>2, <1>3 DEF Incomplete, IInv, ControlOK

(* Every step keeps the frames in order.                                    *)
LEMMA ControlStep == IInv /\ [Next]_vars => ControlOK'
<1>. SUFFICES ASSUME IInv, [Next]_vars PROVE ControlOK'
  OBVIOUS
<1>. DEFINE c == WithLookup(cache)
<1>1. /\ Table(c.table, Nodes, Values) /\ Table(c.compiled, Nodes, Values)
  BY LookupType DEF IInv, StoreOK, CacheType
<1>. HIDE DEF c
<1>2. ASSUME calling # NULL
      PROVE  /\ calling \in Nodes /\ asked # NULL /\ stack \in Seq(Frames) /\ Chained(stack)
             /\ stack # << >> => /\ stack[1].node = asked.node
                                 /\ Top = Last(stack) /\ Expects(Last(stack), calling)
                                 /\ Len(Last(stack).args) < Len(Args[Last(stack).node])
  BY <1>2 DEF IInv, ControlOK, Expects, Top, Last
<1>3. ASSUME NEW n \in Nodes, NEW e \in Envs, Evaluate(n, e) PROVE ControlOK'
  <2>1. /\ asked' \in Asked /\ asked'.node = n /\ calling' = n /\ n # NULL
        /\ answer' = NULL /\ stack' = stack /\ stack = << >>
    BY <1>3, CalculatorAssumption DEF Evaluate, Idle, Asked, IInv, ControlOK
  <2>2. asked' # NULL
    BY <2>1, CalculatorAssumption
  <2>. QED  BY <2>1, <2>2, EmptyStack DEF ControlOK
<1>4. ASSUME UNCHANGED control PROVE ControlOK'
  BY <1>4 DEF control, IInv, ControlOK, Top
<1>5. ASSUME HitCompiled PROVE ControlOK'
  <2>1. calling # NULL /\ calling \in DOMAIN c.compiled /\ Deliver(c.compiled[calling], stack)
    BY <1>5 DEF HitCompiled, c
  <2>2. c.compiled[calling] \in Values
    BY <1>1, <2>1 DEF Table
  <2>. QED  BY <1>2, <2>1, <2>2, DeliverOK DEF IInv
<1>6. ASSUME HitTable PROVE ControlOK'
  <2>1. calling # NULL /\ calling \in DOMAIN c.table /\ Deliver(c.table[calling], stack)
    BY <1>6 DEF HitTable, c
  <2>2. c.table[calling] \in Values
    BY <1>1, <2>1 DEF Table
  <2>. QED  BY <1>2, <2>1, <2>2, DeliverOK DEF IInv
<1>7. ASSUME Miss PROVE ControlOK'
  <2>. DEFINE f == Fresh(calling, registry.installed[Op[calling]])
  <2>1. /\ calling # NULL /\ calling' = NULL /\ asked' = asked /\ answer' = answer
        /\ stack' = Append(stack, f)
    BY <1>7 DEF Miss, Fresh
  <2>2. stack' \in Seq(Frames) /\ Chained(stack')
    BY <1>2, <2>1, FetchedFunction, PushedChained
  <2>3. stack'[1].node = asked.node
    <3>1. f.node = calling
      BY DEF Fresh
    <3>. HIDE DEF f
    <3>2. CASE stack = << >>
      <4>1. stack'[1] = f
        BY <2>1, <3>2
      <4>. QED  BY <3>1, <3>2, <4>1, <2>1 DEF IInv, ControlOK
    <3>3. CASE stack # << >>
      <4>1. stack'[1] = stack[1]
        BY <1>2, <2>1, <3>3
      <4>. QED  BY <1>2, <2>1, <3>3, <4>1
    <3>. QED  BY <3>2, <3>3
  <2>. QED  BY <1>2, <2>1, <2>2, <2>3 DEF IInv, ControlOK
<1>8. ASSUME TakeAtom PROVE ControlOK'
  <2>1. /\ Incomplete /\ ~IsNode(NextArg)
        /\ IF AtomValue(NextArg, asked.env) = ERROR
             THEN Signal ELSE Deliver(AtomValue(NextArg, asked.env), stack)
    BY <1>8 DEF TakeAtom
  <2>2. /\ stack # << >> /\ asked \in Asked /\ asked # NULL
        /\ Top = Last(stack) /\ Top \in Frames
        /\ Len(Top.args) + 1 \in 1 .. Len(Args[Top.node])
        /\ stack[1].node = asked.node
    BY <2>1, IncompleteFrame
  <2>3. Top.node \in Nodes /\ asked.env \in Envs /\ Len(Top.args) \in Nat
    BY <2>2 DEF Frames, Asked
  <2>4. AtomValue(NextArg, asked.env) \in Values \cup {ERROR}
    BY <2>1, <2>2, <2>3, AtomType DEF NextArg
  <2>5. Len(Last(stack).args) < Len(Args[Last(stack).node])
    BY <2>1, <2>2 DEF Incomplete
  <2>6. stack \in Seq(Frames) /\ Chained(stack)
    BY DEF IInv, ControlOK
  <2>7. CASE AtomValue(NextArg, asked.env) = ERROR
    BY <2>1, <2>2, <2>7, SignalOK DEF IInv
  <2>8. CASE AtomValue(NextArg, asked.env) # ERROR
    <3>1. /\ AtomValue(NextArg, asked.env) \in Values
          /\ Deliver(AtomValue(NextArg, asked.env), stack)
      BY <2>1, <2>4, <2>8
    <3>. QED  BY <2>2, <2>5, <2>6, <3>1, DeliverOK DEF IInv
  <2>. QED  BY <2>7, <2>8
<1>9. ASSUME Descend PROVE ControlOK'
  <2>1. /\ Incomplete /\ IsNode(NextArg) /\ calling' = NextArg.node
        /\ UNCHANGED <<asked, stack, answer>>
    BY <1>9 DEF Descend
  <2>2. /\ stack # << >> /\ asked # NULL /\ Top \in Frames
        /\ Len(Top.args) + 1 \in 1 .. Len(Args[Top.node])
    BY <2>1, IncompleteFrame
  <2>3. NextArg.node \in Nodes
    BY <2>1, <2>2, CalculatorAssumption DEF NextArg, IsNode, IsConstant, Frames
  <2>4. Expects(Top, NextArg.node)
    BY <2>1 DEF Expects, NextArg, Incomplete
  <2>. QED  BY <2>1, <2>2, <2>3, <2>4 DEF IInv, ControlOK, Top
<1>10. ASSUME ApplyOperator PROVE ControlOK'
  <2>. DEFINE op == Op[Top.node]
  <2>1. /\ Top = Last(stack) /\ Top \in Frames /\ stack # << >>
        /\ op \in Operators /\ Top.function \in Functions /\ Top.args \in Seq(Values)
        /\ Apply(op, Top.args) \in Values \cup {ERROR}
    BY <1>10, CompleteFrame DEF ApplyOperator, Frames
  <2>2. Outcomes(registry, Top.function, op, Top.args) \subseteq Values \cup {ERROR}
    BY <2>1, CallOK DEF IInv, StoreOK
  <2>3. PICK v \in Outcomes(registry, Top.function, op, Top.args) :
          Signal \/ (v # ERROR /\ Deliver(v, Popped(stack)))
    BY <1>10 DEF ApplyOperator, Popped
  <2>4. asked # NULL /\ stack \in Seq(Frames) /\ Chained(stack) /\ stack[1].node = asked.node
    BY <2>1 DEF IInv, ControlOK
  <2>5. CASE Signal
    BY <2>4, <2>5, SignalOK DEF IInv
  <2>6. CASE v # ERROR /\ Deliver(v, Popped(stack))
    <3>1. v \in Values
      BY <2>2, <2>6
    <3>2. /\ Popped(stack) \in Seq(Frames) /\ Chained(Popped(stack))
          /\ Popped(stack) # << >> => /\ Popped(stack)[1] = stack[1]
                                      /\ Expects(Last(Popped(stack)), Last(stack).node)
      BY <2>1, <2>4, PoppedChained
    <3>3. Popped(stack) # << >> =>
             Len(Last(Popped(stack)).args) < Len(Args[Last(Popped(stack)).node])
      BY <3>2 DEF Expects
    <3>. QED  BY <2>4, <2>6, <3>1, <3>2, <3>3, DeliverOK DEF IInv
  <2>. QED  BY <2>3, <2>5, <2>6
<1>11. ASSUME Restart PROVE ControlOK'
  BY <1>11, EmptyStack DEF Restart, ControlOK
<1>. QED
  <2>1. ASSUME Request PROVE ControlOK'
    BY <1>3, <1>4, <2>1 DEF Request, ClearCache, Configure, SaveCache, LoadFile
  <2>2. ASSUME Work PROVE ControlOK'
    BY <1>4, <1>5, <1>6, <1>7, <1>8, <1>9, <1>10, <2>2 DEF Work, LoadEntry
  <2>3. ASSUME UNCHANGED vars PROVE ControlOK'
    BY <1>4, <2>3 DEF vars
  <2>. QED  BY <1>11, <2>1, <2>2, <2>3 DEF Next

(* Evaluations, loads, failing hooks and restarts, in whatever order, keep  *)
(* every table, file, registry, frame and answer of its type.               *)
THEOREM TypeCorrect == Spec => []TypeOK
<1>1. IInv /\ [Next]_vars => IInv'
  BY StoreStep, ControlStep DEF IInv
<1>2. IInv => TypeOK
  BY DEF IInv, StoreOK, ControlOK, RegistryOK, TypeOK
<1>. QED  BY InitOK, <1>1, <1>2, PTL DEF Spec

LEMMA Invariance == Spec => []IInv
<1>1. IInv /\ [Next]_vars => IInv'
  BY StoreStep, ControlStep DEF IInv
<1>. QED  BY InitOK, <1>1, PTL DEF Spec

(* How a step leaves the stack: it pushes a node with the function fetched  *)
(* for it, hands a value to the innermost frame or to the one below, or     *)
(* unwinds everything.                                                      *)
Pushed == /\ calling \in Nodes
          /\ stack' = Append(stack, Fresh(calling, registry.installed[Op[calling]]))

HandedTo(frames) == frames # << >> /\ \E v \in Values : stack' = Extended(frames, v)

LEMMA StackSteps ==
  ASSUME IInv, [Next]_vars
  PROVE  \/ stack' = stack \/ stack' = << >> \/ Pushed
         \/ HandedTo(stack) \/ (stack # << >> /\ HandedTo(Popped(stack)))
<1>. DEFINE Goal == \/ stack' = stack \/ stack' = << >> \/ Pushed
                    \/ HandedTo(stack) \/ (stack # << >> /\ HandedTo(Popped(stack)))
            c == WithLookup(cache)
<1>1. Table(c.table, Nodes, Values) /\ Table(c.compiled, Nodes, Values)
  BY LookupType DEF IInv, StoreOK, CacheType
<1>. HIDE DEF c
<1>2. ASSUME NEW v \in Values, NEW frames, Deliver(v, frames)
      PROVE  stack' = << >> \/ HandedTo(frames)
  BY <1>2 DEF Deliver, Extended, HandedTo
<1>3. Signal => stack' = << >>
  BY DEF Signal
<1>4. ASSUME HitCompiled PROVE Goal
  <2>1. calling \in DOMAIN c.compiled /\ Deliver(c.compiled[calling], stack)
    BY <1>4 DEF HitCompiled, c
  <2>2. c.compiled[calling] \in Values
    BY <1>1, <2>1 DEF Table
  <2>. QED  BY <1>2, <2>1, <2>2
<1>5. ASSUME HitTable PROVE Goal
  <2>1. calling \in DOMAIN c.table /\ Deliver(c.table[calling], stack)
    BY <1>5 DEF HitTable, c
  <2>2. c.table[calling] \in Values
    BY <1>1, <2>1 DEF Table
  <2>. QED  BY <1>2, <2>1, <2>2
<1>6. ASSUME Miss PROVE Pushed
  BY <1>6 DEF Miss, Fresh, Pushed, IInv, ControlOK
<1>7. ASSUME TakeAtom PROVE Goal
  <2>1. /\ Incomplete /\ ~IsNode(NextArg)
        /\ IF AtomValue(NextArg, asked.env) = ERROR
             THEN Signal ELSE Deliver(AtomValue(NextArg, asked.env), stack)
    BY <1>7 DEF TakeAtom
  <2>2. AtomValue(NextArg, asked.env) \in Values \cup {ERROR}
    BY <2>1, IncompleteFrame, AtomType DEF NextArg, Frames, Asked
  <2>3. CASE AtomValue(NextArg, asked.env) = ERROR
    BY <1>3, <2>1, <2>3
  <2>4. CASE AtomValue(NextArg, asked.env) # ERROR
    <3>1. /\ AtomValue(NextArg, asked.env) \in Values
          /\ Deliver(AtomValue(NextArg, asked.env), stack)
      BY <2>1, <2>2, <2>4
    <3>. QED  BY <1>2, <3>1
  <2>. QED  BY <2>3, <2>4
<1>8. ASSUME ApplyOperator PROVE Goal
  <2>. DEFINE op == Op[Top.node]
  <2>1. /\ Top \in Frames /\ stack # << >>
        /\ op \in Operators /\ Top.function \in Functions /\ Top.args \in Seq(Values)
        /\ Apply(op, Top.args) \in Values \cup {ERROR}
    BY <1>8, CompleteFrame DEF ApplyOperator, Frames
  <2>2. Outcomes(registry, Top.function, op, Top.args) \subseteq Values \cup {ERROR}
    BY <2>1, CallOK DEF IInv, StoreOK
  <2>3. PICK v \in Outcomes(registry, Top.function, op, Top.args) :
          Signal \/ (v # ERROR /\ Deliver(v, Popped(stack)))
    BY <1>8 DEF ApplyOperator, Popped
  <2>4. CASE Signal
    BY <1>3, <2>4
  <2>5. CASE v # ERROR /\ Deliver(v, Popped(stack))
    <3>1. v \in Values
      BY <2>2, <2>5
    <3>. QED  BY <1>2, <2>1, <2>5, <3>1
  <2>. QED  BY <2>3, <2>4, <2>5
<1>9. ASSUME Request PROVE stack' = stack
  BY <1>9 DEF Request, Evaluate, ClearCache, Configure, SaveCache, LoadFile, control
<1>10. ASSUME Restart PROVE stack' = << >>
  BY <1>10 DEF Restart
<1>11. ASSUME Work PROVE Goal
  <2>1. Descend \/ (\E n \in DOMAIN loading : LoadEntry(n)) => stack' = stack
    BY DEF Descend, LoadEntry, control
  <2>. HIDE DEF Goal
  <2>2. stack' = stack \/ Pushed => Goal
    BY DEF Goal
  <2>. QED  BY <1>4, <1>5, <1>6, <1>7, <1>8, <1>11, <2>1, <2>2 DEF Work
<1>. QED  BY <1>9, <1>10, <1>11 DEF Next, vars, control

(* The function of every frame is among those allowed for its operator.     *)
Keep(frames, allowed) ==
  \A i \in 1 .. Len(frames) : frames[i].function \in allowed[Op[frames[i].node]]

(* Whatever was installed when a call began is what it keeps: if only       *)
(* allowed functions are ever installed, all frames have allowed ones.      *)
LEMMA FramesKeepFunctions ==
  ASSUME IInv, [Next]_vars, NEW allowed, Keep(stack, allowed),
         \A op \in Operators : registry.installed[op] \in allowed[op]
  PROVE  Keep(stack', allowed)
<1>1. stack \in Seq(Frames) /\ Chained(stack)
  BY DEF IInv, ControlOK
<1>2. CASE stack' = stack
  BY <1>2
<1>3. CASE stack' = << >>
  <2>1. Len(<< >>) = 0
    OBVIOUS
  <2>. QED  BY <1>3, <2>1 DEF Keep
<1>4. CASE Pushed
  <2>. DEFINE f == Fresh(calling, registry.installed[Op[calling]])
  <2>1. /\ f \in Frames /\ f.function = registry.installed[Op[f.node]]
        /\ Op[f.node] \in Operators /\ stack' = Append(stack, f)
    BY <1>4, FetchedFunction, FreshType DEF Pushed
  <2>. HIDE DEF f
  <2>2. /\ Len(stack') = Len(stack) + 1 /\ Len(stack) \in Nat
        /\ stack'[Len(stack) + 1] = f
        /\ \A i \in 1 .. Len(stack) : stack'[i] = stack[i]
    BY <1>1, <2>1
  <2>3. f.function \in allowed[Op[f.node]]
    BY <2>1
  <2>4. ASSUME NEW i \in 1 .. Len(stack')
        PROVE  stack'[i].function \in allowed[Op[stack'[i].node]]
    <3>1. i \in 1 .. Len(stack) \/ i = Len(stack) + 1
      BY <2>2
    <3>. QED  BY <2>2, <2>3, <3>1 DEF Keep
  <2>. QED  BY <2>4 DEF Keep
<1>5. ASSUME NEW frames \in Seq(Frames), Keep(frames, allowed), HandedTo(frames)
      PROVE  Keep(stack', allowed)
  <2>1. PICK v \in Values : stack' = Extended(frames, v)
    BY <1>5 DEF HandedTo
  <2>2. /\ Len(stack') = Len(frames)
        /\ \A i \in 1 .. Len(frames) : /\ stack'[i].node = frames[i].node
                                       /\ stack'[i].function = frames[i].function
    BY <1>5, <2>1, ExtendedType DEF HandedTo
  <2>. QED  BY <1>5, <2>2 DEF Keep
<1>6. CASE stack # << >> /\ HandedTo(Popped(stack))
  <2>1. /\ Popped(stack) \in Seq(Frames) /\ Len(Popped(stack)) = Len(stack) - 1
        /\ \A i \in 1 .. Len(stack) - 1 : Popped(stack)[i] = stack[i]
    BY <1>1, <1>6, PoppedChained
  <2>2. 1 .. Len(stack) - 1 \subseteq 1 .. Len(stack)
    BY <1>1
  <2>3. Keep(Popped(stack), allowed)
    BY <2>1, <2>2 DEF Keep
  <2>. QED  BY <1>5, <1>6, <2>1, <2>3
<1>. QED  BY <1>1, <1>2, <1>3, <1>4, <1>5, <1>6, StackSteps

(* No call in progress knows of results but what its operator computes,     *)
(* even if its function has been replaced since.                            *)
FunctionsRight == Keep(stack, RightFunctions)

LEMMA FunctionsRightStep == IInv /\ FunctionsRight /\ [Next]_vars => FunctionsRight'
BY FramesKeepFunctions DEF FunctionsRight, Keep, IInv, StoreOK, RegistryOK

LEMMA TopFunctionRight ==
  ASSUME IInv, FunctionsRight, Evaluating
  PROVE  Top.function \in RightFunctions[Op[Top.node]]
<1>1. stack \in Seq(Frames) /\ stack # << >>
  BY DEF IInv, ControlOK, Evaluating
<1>2. Len(stack) \in 1 .. Len(stack)
  BY <1>1
<1>. QED  BY <1>2 DEF FunctionsRight, Keep, Top

(* A bounded cache never outgrows its bound, however stores by evaluations  *)
(* and by loads, evictions, clears and restarts follow each other.          *)
THEOREM CacheNeverOutgrows == Spec => []CacheStaysBounded
<1>. USE CacheAssumption
<1>. DEFINE Inv == Bounded(cache)
<1>1. Init => Inv
  <2>1. Cardinality({}) = 0
    BY FS_EmptySet
  <2>2. DOMAIN EmptyCache.table = {}
    BY DEF EmptyCache, NoEntries
  <2>3. Init => DOMAIN cache.table = {}
    BY <2>2 DEF Init
  <2>. QED  BY <2>1, <2>3 DEF Bounded, Size
<1>2. IInv /\ Inv /\ [Next]_vars => Inv'
  <2>. SUFFICES ASSUME IInv, Inv, [Next]_vars PROVE Inv'
    OBVIOUS
  <2>. DEFINE c == WithLookup(cache)
  <2>1. CacheType(c, Values) /\ c.table = cache.table
    BY LookupType DEF IInv, StoreOK
  <2>. HIDE DEF c
  <2>2. ASSUME cache'.table = cache.table PROVE Inv'
    BY <2>2 DEF Bounded, Size
  <2>3. ASSUME NEW n \in Nodes, NEW v \in Values, cache' \in Stored(cache, n, v) PROVE Inv'
    BY <2>3, StoredBounded DEF IInv, StoreOK
  <2>4. ASSUME cache'.table = NoEntries PROVE Inv'
    <3>1. Cardinality({}) = 0
      BY FS_EmptySet
    <3>. QED  BY <2>4, <3>1 DEF Bounded, Size, NoEntries
  <2>5. ASSUME HitCompiled \/ HitTable \/ Miss PROVE cache'.table = cache.table
    <3>1. ASSUME HitCompiled PROVE cache'.table = cache.table
      <4>1. cache' = [c EXCEPT !.hits = @ + 1]
        BY <3>1 DEF HitCompiled, c
      <4>. QED  BY <2>1, <4>1, CountedHitType
    <3>2. ASSUME HitTable PROVE cache'.table = cache.table
      <4>1. cache' = Hit(c, calling) /\ calling \in Nodes
        BY <3>2 DEF HitTable, c, IInv, ControlOK
      <4>. QED  BY <2>1, <4>1, HitType
    <3>3. ASSUME Miss PROVE cache'.table = cache.table
      <4>1. cache' = [c EXCEPT !.misses = @ + 1]
        BY <3>3 DEF Miss, c
      <4>. QED  BY <2>1, <4>1, CountedMissType
    <3>. QED  BY <2>5, <3>1, <3>2, <3>3
  <2>6. ASSUME ApplyOperator PROVE Inv'
    <3>. DEFINE op == Op[Top.node]
    <3>1. /\ Top \in Frames
          /\ op \in Operators /\ Top.function \in Functions /\ Top.args \in Seq(Values)
          /\ Apply(op, Top.args) \in Values \cup {ERROR}
      BY <2>6, CompleteFrame DEF ApplyOperator, Frames
    <3>2. Outcomes(registry, Top.function, op, Top.args) \subseteq Values \cup {ERROR}
      BY <3>1, CallOK DEF IInv, StoreOK
    <3>3. PICK v \in Outcomes(registry, Top.function, op, Top.args) :
             \/ cache' = cache
             \/ v # ERROR /\ cache' \in Stored(cache, Top.node, v)
      BY <2>6 DEF ApplyOperator, CacheSet
    <3>. QED  BY <2>2, <2>3, <3>1, <3>2, <3>3 DEF Frames
  <2>7. ASSUME NEW n \in DOMAIN loading, LoadEntry(n) PROVE Inv'
    <3>1. cache' \in Stored(cache, n, loading[n])
      BY <2>7 DEF LoadEntry, CacheSet
    <3>2. n \in Nodes /\ loading[n] \in Values
      BY DEF IInv, StoreOK, Table
    <3>. QED  BY <2>3, <3>1, <3>2
  <2>8. ASSUME ClearCache \/ Restart PROVE cache'.table = NoEntries
    <3>1. EmptyCache.table = NoEntries
      BY DEF EmptyCache
    <3>. QED  BY <2>8, <3>1, ClearedType DEF ClearCache, Restart, IInv, StoreOK
  <2>. HIDE DEF Inv
  <2>9. ASSUME Request PROVE Inv'
    BY <2>2, <2>4, <2>8, <2>9 DEF Request, Evaluate, Configure, SaveCache, LoadFile
  <2>10. ASSUME Work PROVE Inv'
    BY <2>2, <2>5, <2>6, <2>7, <2>10 DEF Work, TakeAtom, Descend
  <2>. QED  BY <2>2, <2>4, <2>8, <2>9, <2>10 DEF Next, vars
<1>3. Inv => CacheStaysBounded
  BY DEF Bounded, CacheStaysBounded
<1>. QED  BY Invariance, <1>1, <1>2, <1>3, PTL DEF Spec

-----------------------------------------------------------------------------
(* Right answers to steady expressions, the cache telling no bindings       *)
(* apart.  They need one thing more that the code does not see to: that     *)
(* numbers that are = are the same number.                                  *)
SameNumbersAreEqual == \A a, b \in Values : Same(a, b) => a = b

(* A table, or a file, of meanings as far as they are steady.               *)
Faithful(t) ==
  \A n \in DOMAIN t : n \in Steady => \A e \in Envs : t[n] = Meaning[n][e]

(* The arguments evaluated so far for a steady expression are the meanings  *)
(* of its first arguments.                                                  *)
Right(frames, e) ==
  \A i \in 1 .. Len(frames) : frames[i].node \in Steady =>
    \A j \in 1 .. Len(frames[i].args) :
      frames[i].args[j] = ArgMeaning(Args[frames[i].node][j], e)

(* A value answered to a steady expression is its meaning.                  *)
SteadyAnswersAreRight ==
  answer # NULL /\ answer.value # ERROR /\ answer.asked.node \in Steady =>
    answer.value = Meaning[answer.asked.node][answer.asked.env]

StoreRight ==
  /\ Faithful(cache.table) /\ Faithful(cache.compiled)
  /\ Faithful(cacheFile) /\ Faithful(sourceFile) /\ Faithful(loading)

ControlRight == Right(stack, asked.env) /\ SteadyAnswersAreRight

(* The parts of a steady expression are steady.                             *)
LEMMA SteadyParts ==
  ASSUME NEW frame, frame.node \in Steady, NEW n, Len(frame.args) \in Nat, Expects(frame, n)
  PROVE  n \in Steady
<1>1. Len(frame.args) + 1 \in 1 .. Len(Args[frame.node])
  BY CalculatorAssumption DEF Expects
<1>. QED  BY <1>1, CalculatorAssumption DEF Expects

LEMMA NoEntriesFaithful == Faithful(NoEntries)
BY DEF Faithful, NoEntries

LEMMA StoredFaithful ==
  ASSUME NEW c, CacheType(c, Values), Faithful(c.table), NEW n \in Nodes, NEW v \in Values,
         n \in Steady => \A e \in Envs : v = Meaning[n][e], NEW d \in Stored(c, n, v)
  PROVE  Faithful(d.table) /\ d.compiled = c.compiled
<1>1. ASSUME NEW t, Faithful(t) PROVE Faithful(With(t, n, v))
  BY <1>1 DEF Faithful, With
<1>2. ASSUME NEW m PROVE Faithful(Without(c.table, m))
  BY DEF Faithful, Without
<1>. QED  BY <1>1, <1>2, StoredType

LEMMA CacheSetFaithful ==
  ASSUME StoreOK, StoreRight, NEW n \in Nodes, NEW v \in Values,
         n \in Steady => \A e \in Envs : v = Meaning[n][e], NEW r, CacheSet(n, v, r)
  PROVE  /\ Faithful(cache'.table) /\ Faithful(cache'.compiled)
         /\ Faithful(cacheFile') /\ Faithful(sourceFile')
<1>1. cache' \in Stored(cache, n, v)
  BY DEF CacheSet
<1>2. Faithful(cache'.table) /\ Faithful(cache'.compiled)
  BY <1>1, StoredFaithful DEF StoreOK, StoreRight
<1>3. sourceFile' \in {sourceFile, cache'.table} /\ cacheFile' = cacheFile
  BY DEF CacheSet, CountSet
<1>. QED  BY <1>2, <1>3 DEF StoreRight

(* A call computes what its operator does, or signals an error.             *)
LEMMA OutcomesRight ==
  ASSUME SameNumbersAreEqual, NEW r, NEW op \in Operators, NEW f \in RightFunctions[op],
         NEW args \in Seq(Values), NEW v \in Outcomes(r, f, op, args)
  PROVE  v \in {Apply(op, args), ERROR}
<1>1. ASSUME NEW c \in Matching(f, args) PROVE c[2] = Apply(op, args)
  <2>1. f \in Functions /\ \A d \in f.clauses : d[2] = Apply(op, d[1])
    BY DEF RightFunctions
  <2>2. /\ c \in f.clauses /\ c[1] \in Seq(Values) /\ Len(c[1]) = Len(args)
        /\ \A i \in 1 .. Len(args) : Same(args[i], c[1][i])
    BY <2>1 DEF Matching, Functions, Clauses
  <2>3. \A i \in 1 .. Len(args) : args[i] \in Values /\ c[1][i] \in Values
    BY <2>2
  <2>4. \A i \in 1 .. Len(args) : args[i] = c[1][i]
    BY <2>2, <2>3 DEF SameNumbersAreEqual
  <2>5. c[1] = args
    BY <2>2, <2>4
  <2>. QED  BY <2>1, <2>2, <2>5
<1>. QED  BY <1>1 DEF Outcomes

(* The meaning of a steady node whose arguments have all been evaluated.    *)
LEMMA CompleteMeaning ==
  ASSUME IInv, ControlRight, Evaluating, ~Incomplete, Top.node \in Steady
  PROVE  /\ asked \in Asked
         /\ Meaning[Top.node][asked.env] = Apply(Op[Top.node], Top.args)
<1>. DEFINE n == Top.node
            e == asked.env
<1>1. /\ Top = Last(stack) /\ Top \in Frames /\ stack # << >>
      /\ Len(Top.args) = Len(Args[n])
      /\ Top.args \in [1 .. Len(Args[n]) -> Values]
  BY CompleteFrame
<1>2. asked \in Asked /\ stack \in Seq(Frames)
  BY <1>1 DEF IInv, ControlOK
<1>3. n \in Nodes /\ e \in Envs
  BY <1>1, <1>2 DEF Frames, Asked
<1>4. Len(stack) \in 1 .. Len(stack) /\ Top = stack[Len(stack)]
  BY <1>1, <1>2 DEF Last
<1>5. \A j \in 1 .. Len(Args[n]) : Top.args[j] = ArgMeaning(Args[n][j], e)
  BY <1>1, <1>4 DEF ControlRight, Right
<1>6. Top.args = ArgMeanings(n, e)
  BY <1>1, <1>5 DEF ArgMeanings
<1>7. ~ \E i \in 1 .. Len(Args[n]) : ArgMeanings(n, e)[i] = ERROR
  BY <1>1, <1>6, OperatorAssumption
<1>8. Meaning[n][e] = Apply(Op[n], ArgMeanings(n, e))
  BY <1>3, <1>7, CalculatorAssumption
<1>. QED  BY <1>2, <1>6, <1>8

(* What is stored is right, whatever happens.                               *)
LEMMA StoreRightStep ==
  ASSUME SameNumbersAreEqual, IInv, FunctionsRight, StoreRight, ControlRight, [Next]_vars
  PROVE  StoreRight'
<1>. DEFINE c == WithLookup(cache)
<1>1. /\ CacheType(c, Values) /\ c.table = cache.table
      /\ c.compiled \in {cache.compiled, cache.table, NoEntries}
  BY LookupType DEF IInv, StoreOK
<1>2. Faithful(c.table) /\ Faithful(c.compiled)
  BY <1>1, NoEntriesFaithful DEF StoreRight
<1>. HIDE DEF c
<1>3. ASSUME cache'.table = c.table, cache'.compiled = c.compiled, UNCHANGED <<files, loading>>
      PROVE  StoreRight'
  BY <1>2, <1>3 DEF StoreRight, files
<1>4. ASSUME HitCompiled \/ HitTable \/ Miss
      PROVE  cache'.table = c.table /\ cache'.compiled = c.compiled /\ UNCHANGED <<files, loading>>
  <2>1. HitCompiled => cache' = [c EXCEPT !.hits = @ + 1] /\ UNCHANGED <<files, loading>>
    BY DEF HitCompiled, c
  <2>2. HitTable => cache' = Hit(c, calling) /\ calling \in Nodes /\ UNCHANGED <<files, loading>>
    BY DEF HitTable, c, IInv, ControlOK
  <2>3. Miss => cache' = [c EXCEPT !.misses = @ + 1] /\ UNCHANGED <<files, loading>>
    BY DEF Miss, c
  <2>4. CASE HitCompiled
    BY <1>1, <2>1, <2>4, CountedHitType
  <2>5. CASE HitTable
    BY <1>1, <2>2, <2>5, HitType
  <2>6. CASE Miss
    BY <1>1, <2>3, <2>6, CountedMissType
  <2>. QED  BY <1>4, <2>4, <2>5, <2>6
<1>5. ASSUME UNCHANGED <<cache, files, loading>> PROVE StoreRight'
  BY <1>5 DEF StoreRight, files
<1>6. ASSUME ClearCache PROVE StoreRight'
  <2>1. cache'.table = NoEntries /\ cache'.compiled = cache.compiled
    BY <1>6, ClearedType DEF ClearCache, IInv, StoreOK
  <2>. QED  BY <1>6, <2>1, NoEntriesFaithful DEF ClearCache, files, StoreRight
<1>7. ASSUME SaveCache PROVE StoreRight'
  BY <1>7 DEF SaveCache, StoreRight
<1>8. ASSUME LoadFile PROVE StoreRight'
  BY <1>8 DEF LoadFile, files, StoreRight
<1>9. ASSUME ApplyOperator PROVE StoreRight'
  <2>. DEFINE op == Op[Top.node]
  <2>1. /\ Top \in Frames
        /\ op \in Operators /\ Top.function \in Functions /\ Top.args \in Seq(Values)
        /\ Apply(op, Top.args) \in Values \cup {ERROR}
    BY <1>9, CompleteFrame DEF ApplyOperator, Frames
  <2>2. Top.node \in Steady =>
          asked \in Asked /\ Meaning[Top.node][asked.env] = Apply(op, Top.args)
    BY <1>9, CompleteMeaning DEF ApplyOperator
  <2>3. PICK v \in Outcomes(registry, Top.function, op, Top.args) :
          \/ UNCHANGED <<cache, files>>
          \/ v # ERROR /\ CacheSet(Top.node, v, AfterCall(registry, Top.function, op, Top.args))
    BY <1>9 DEF ApplyOperator
  <2>4. v \in {Apply(op, Top.args), ERROR}
    BY <1>9, <2>1, <2>3, TopFunctionRight, OutcomesRight DEF ApplyOperator
  <2>5. loading' = loading
    BY <1>9 DEF ApplyOperator
  <2>6. CASE UNCHANGED <<cache, files>>
    BY <1>5, <2>5, <2>6
  <2>7. CASE v # ERROR /\ CacheSet(Top.node, v, AfterCall(registry, Top.function, op, Top.args))
    <3>1. Top.node \in Nodes /\ v \in Values /\ v = Apply(op, Top.args)
      BY <2>1, <2>4, <2>7 DEF Frames
    <3>2. Top.node \in Steady => \A e \in Envs : v = Meaning[Top.node][e]
      BY <2>2, <3>1, CalculatorAssumption DEF Asked
    <3>3. /\ Faithful(cache'.table) /\ Faithful(cache'.compiled)
          /\ Faithful(cacheFile') /\ Faithful(sourceFile')
      BY <2>7, <3>1, <3>2, CacheSetFaithful DEF IInv
    <3>. QED  BY <2>5, <3>3 DEF StoreRight
  <2>. QED  BY <2>3, <2>6, <2>7
<1>10. ASSUME NEW n \in DOMAIN loading, LoadEntry(n) PROVE StoreRight'
  <2>1. /\ CacheSet(n, loading[n], registry)
        /\ loading' = IF HookFails(registry) THEN NoEntries ELSE Without(loading, n)
    BY <1>10 DEF LoadEntry
  <2>2. n \in Nodes /\ loading[n] \in Values
    BY DEF IInv, StoreOK, Table
  <2>3. n \in Steady => \A e \in Envs : loading[n] = Meaning[n][e]
    BY DEF StoreRight, Faithful
  <2>4. Faithful(loading')
    <3>1. Faithful(Without(loading, n))
      BY DEF StoreRight, Faithful, Without
    <3>. QED  BY <2>1, <3>1, NoEntriesFaithful
  <2>5. /\ Faithful(cache'.table) /\ Faithful(cache'.compiled)
        /\ Faithful(cacheFile') /\ Faithful(sourceFile')
    BY <2>1, <2>2, <2>3, CacheSetFaithful DEF IInv
  <2>. QED  BY <2>4, <2>5 DEF StoreRight
<1>11. ASSUME Restart PROVE StoreRight'
  <2>1. EmptyCache.table = NoEntries /\ EmptyCache.compiled = NoEntries
    BY DEF EmptyCache
  <2>. QED  BY <1>11, <2>1, NoEntriesFaithful DEF Restart, files, StoreRight
<1>12. ASSUME Request PROVE StoreRight'
  BY <1>5, <1>6, <1>7, <1>8, <1>12 DEF Request, Evaluate, Configure
<1>13. ASSUME Work PROVE StoreRight'
  BY <1>3, <1>4, <1>5, <1>9, <1>10, <1>13 DEF Work, TakeAtom, Descend
<1>. QED  BY <1>5, <1>11, <1>12, <1>13 DEF Next, vars

(* One more argument, if it is right.                                       *)
LEMMA ExtendedRight ==
  ASSUME NEW frames \in Seq(Frames), frames # << >>, NEW v \in Values, NEW e,
         Right(frames, e),
         Last(frames).node \in Steady =>
           v = ArgMeaning(Args[Last(frames).node][Len(Last(frames).args) + 1], e)
  PROVE  Right(Extended(frames, v), e)
<1>. DEFINE new == Extended(frames, v)
            N == Len(frames)
            last == frames[N]
<1>1. /\ Len(new) = N
      /\ \A i \in 1 .. N : new[i].node = frames[i].node
      /\ \A i \in 1 .. N - 1 : new[i] = frames[i]
      /\ new[N].args = Append(last.args, v)
  BY ExtendedType
<1>2. N \in Nat \ {0} /\ last \in Frames /\ last = frames[N]
  OBVIOUS
<1>3. last.node \in Steady => v = ArgMeaning(Args[last.node][Len(last.args) + 1], e)
  BY DEF Last
<1>4. \A i \in 1 .. N : frames[i].node \in Steady =>
         \A j \in 1 .. Len(frames[i].args) :
           frames[i].args[j] = ArgMeaning(Args[frames[i].node][j], e)
  BY DEF Right
<1>. HIDE DEF new, N, last
<1>5. last.args \in Seq(Values)
  BY <1>2 DEF Frames
<1>6. ASSUME NEW i \in 1 .. N, new[i].node \in Steady, NEW j \in 1 .. Len(new[i].args)
      PROVE  new[i].args[j] = ArgMeaning(Args[new[i].node][j], e)
  <2>1. CASE i \in 1 .. N - 1
    BY <1>1, <1>4, <1>6, <2>1
  <2>2. CASE i = N
    <3>1. new[i].node = last.node /\ new[i].args = Append(last.args, v)
      BY <1>1, <1>2, <2>2
    <3>2. /\ j \in 1 .. Len(last.args) + 1
          /\ Append(last.args, v)[j] = IF j = Len(last.args) + 1 THEN v ELSE last.args[j]
      BY <1>5, <3>1
    <3>3. j = Len(last.args) + 1 \/ j \in 1 .. Len(last.args)
      BY <1>5, <3>2
    <3>. QED  BY <1>2, <1>3, <1>4, <1>5, <1>6, <2>2, <3>1, <3>2, <3>3
  <2>. QED  BY <1>2, <2>1, <2>2
<1>7. Right(new, e)
  BY <1>1, <1>6 DEF Right
<1>. QED  BY <1>7 DEF new

(* Handing a right value on is an answer of the abstract evaluator or none. *)
Handed == ControlRight' /\ (Abstract!Answer \/ UNCHANGED <<asked, answer>>)

LEMMA DeliverRight ==
  ASSUME ControlRight, asked # NULL, NEW v \in Values, NEW frames \in Seq(Frames),
         Right(frames, asked.env),
         IF frames = << >> THEN asked.node \in Steady => v = Meaning[asked.node][asked.env]
         ELSE Last(frames).node \in Steady =>
                v = ArgMeaning(Args[Last(frames).node][Len(Last(frames).args) + 1], asked.env),
         Deliver(v, frames)
  PROVE  Handed
<1>1. CASE frames = << >>
  <2>1. asked' = NULL /\ stack' = << >> /\ answer' = [asked |-> asked, value |-> v]
    BY <1>1 DEF Deliver
  <2>2. asked.node \in Steady => v = Meaning[asked.node][asked.env]
    BY <1>1
  <2>3. Right(stack', asked'.env)
    <3>1. Len(<< >>) = 0
      OBVIOUS
    <3>. QED  BY <2>1, <3>1 DEF Right
  <2>4. SteadyAnswersAreRight'
    BY <2>1, <2>2 DEF SteadyAnswersAreRight
  <2>5. v \in Abstract!Promised(asked.node, asked.env)
    BY <2>2 DEF Abstract!Promised
  <2>6. Abstract!Answer
    BY <2>1, <2>5 DEF Abstract!Answer
  <2>. QED  BY <2>3, <2>4, <2>6 DEF Handed, ControlRight
<1>2. CASE frames # << >>
  <2>1. stack' = Extended(frames, v) /\ UNCHANGED <<asked, answer>>
    BY <1>2 DEF Deliver, Extended
  <2>2. Right(Extended(frames, v), asked.env)
    BY <1>2, ExtendedRight
  <2>3. SteadyAnswersAreRight'
    BY <2>1 DEF ControlRight, SteadyAnswersAreRight
  <2>. QED  BY <2>1, <2>2, <2>3 DEF Handed, ControlRight
<1>. QED  BY <1>1, <1>2

LEMMA SignalRight == asked # NULL /\ Signal => Handed
<1>. SUFFICES ASSUME asked # NULL, Signal PROVE Handed
  OBVIOUS
<1>1. asked' = NULL /\ stack' = << >> /\ answer' = [asked |-> asked, value |-> ERROR]
  BY DEF Signal
<1>2. Right(stack', asked'.env)
  <2>1. Len(<< >>) = 0
    OBVIOUS
  <2>. QED  BY <1>1, <2>1 DEF Right
<1>3. SteadyAnswersAreRight'
  BY <1>1 DEF SteadyAnswersAreRight
<1>4. Abstract!Answer
  BY <1>1 DEF Abstract!Answer, Abstract!Promised
<1>. QED  BY <1>2, <1>3, <1>4 DEF Handed, ControlRight

(* A step keeps the arguments and the answer right, and is a step of the    *)
(* abstract evaluator or none.                                              *)
LEMMA ControlRightStep ==
  ASSUME SameNumbersAreEqual, IInv, FunctionsRight, StoreRight, ControlRight, [Next]_vars
  PROVE  ControlRight' /\ [Abstract!Next]_(Abstract!evars)
<1>. DEFINE Goal == ControlRight' /\ [Abstract!Next]_(Abstract!evars)
            c == WithLookup(cache)
<1>1. /\ CacheType(c, Values) /\ c.table = cache.table
      /\ c.compiled \in {cache.compiled, cache.table, NoEntries}
  BY LookupType DEF IInv, StoreOK
<1>2. /\ Faithful(c.table) /\ Faithful(c.compiled)
      /\ Table(c.table, Nodes, Values) /\ Table(c.compiled, Nodes, Values)
  BY <1>1, NoEntriesFaithful DEF StoreRight, CacheType
<1>. HIDE DEF c
<1>3. Handed => Goal
  BY DEF Handed, Abstract!Next, Abstract!evars
<1>4. /\ stack \in Seq(Frames) /\ Right(stack, asked.env) /\ asked \in Asked \cup {NULL}
      /\ asked = NULL => calling = NULL /\ stack = << >>
  BY DEF IInv, ControlOK, ControlRight
<1>5. ASSUME NEW t, Faithful(t), Table(t, Nodes, Values),
             calling # NULL, calling \in DOMAIN t, Deliver(t[calling], stack)
      PROVE  Goal
  <2>1. asked \in Asked /\ asked.env \in Envs /\ asked # NULL
    BY <1>4, <1>5 DEF Asked
  <2>2. /\ t[calling] \in Values
        /\ calling \in Steady => t[calling] = Meaning[calling][asked.env]
    BY <1>5, <2>1 DEF Table, Faithful
  <2>3. stack = << >> /\ asked.node \in Steady => t[calling] = Meaning[asked.node][asked.env]
    <3>1. stack = << >> => calling = asked.node
      BY <1>5 DEF IInv, ControlOK
    <3>. QED  BY <2>2, <3>1
  <2>4. stack # << >> /\ Last(stack).node \in Steady =>
          t[calling] = ArgMeaning(Args[Last(stack).node][Len(Last(stack).args) + 1], asked.env)
    <3>. SUFFICES ASSUME stack # << >>, Last(stack).node \in Steady
                  PROVE  t[calling] = ArgMeaning(Args[Last(stack).node][Len(Last(stack).args) + 1],
                                                 asked.env)
      OBVIOUS
    <3>1. Expects(Last(stack), calling)
      BY <1>5 DEF IInv, ControlOK, Top, Last
    <3>2. Len(Last(stack).args) \in Nat
      BY <1>4 DEF Last, Frames
    <3>3. calling \in Steady
      BY <3>1, <3>2, SteadyParts
    <3>. QED  BY <2>2, <3>1, <3>3 DEF Expects, ArgMeaning
  <2>. QED  BY <1>3, <1>4, <1>5, <2>1, <2>2, <2>3, <2>4, DeliverRight
<1>6. ASSUME UNCHANGED control PROVE Goal
  BY <1>6 DEF control, ControlRight, SteadyAnswersAreRight, Abstract!evars
<1>7. ASSUME NEW n \in Nodes, NEW e \in Envs, Evaluate(n, e) PROVE Goal
  <2>1. /\ asked = NULL /\ asked' = [node |-> n, env |-> e] /\ answer' = NULL
        /\ stack' = stack
    BY <1>7 DEF Evaluate, Idle
  <2>2. Right(stack', asked'.env)
    <3>1. Len(<< >>) = 0
      OBVIOUS
    <3>. QED  BY <1>4, <2>1, <3>1 DEF Right
  <2>3. Abstract!Ask(n, e)
    BY <2>1 DEF Abstract!Ask
  <2>. QED  BY <2>1, <2>2, <2>3 DEF ControlRight, SteadyAnswersAreRight, Abstract!Next
<1>8. ASSUME HitCompiled PROVE Goal
  BY <1>2, <1>5, <1>8 DEF HitCompiled, c
<1>9. ASSUME HitTable PROVE Goal
  BY <1>2, <1>5, <1>9 DEF HitTable, c
<1>10. ASSUME Miss PROVE Goal
  <2>. DEFINE f == Fresh(calling, registry.installed[Op[calling]])
  <2>1. stack' = Append(stack, f) /\ asked' = asked /\ answer' = answer /\ calling \in Nodes
    BY <1>10 DEF Miss, Fresh, IInv, ControlOK
  <2>2. f \in Frames /\ Len(f.args) = 0
    BY <2>1, FetchedFunction, FreshType
  <2>. HIDE DEF f
  <2>3. /\ Len(stack') = Len(stack) + 1 /\ Len(stack) \in Nat
        /\ stack'[Len(stack) + 1] = f
        /\ \A i \in 1 .. Len(stack) : stack'[i] = stack[i]
    BY <1>4, <2>1, <2>2
  <2>4. Right(stack', asked.env)
    BY <1>4, <2>2, <2>3 DEF Right
  <2>5. SteadyAnswersAreRight'
    BY <2>1 DEF ControlRight, SteadyAnswersAreRight
  <2>. QED  BY <2>1, <2>4, <2>5 DEF ControlRight, Abstract!evars
<1>11. ASSUME TakeAtom PROVE Goal
  <2>1. /\ Incomplete /\ ~IsNode(NextArg)
        /\ IF AtomValue(NextArg, asked.env) = ERROR
             THEN Signal ELSE Deliver(AtomValue(NextArg, asked.env), stack)
    BY <1>11 DEF TakeAtom
  <2>2. /\ stack # << >> /\ asked \in Asked /\ asked # NULL
        /\ Top = Last(stack) /\ Top \in Frames
        /\ Len(Top.args) + 1 \in 1 .. Len(Args[Top.node])
    BY <2>1, IncompleteFrame
  <2>3. AtomValue(NextArg, asked.env) \in Values \cup {ERROR}
    BY <2>1, <2>2, AtomType DEF NextArg, Frames, Asked
  <2>4. AtomValue(NextArg, asked.env)
          = ArgMeaning(Args[Last(stack).node][Len(Last(stack).args) + 1], asked.env)
    BY <2>1, <2>2 DEF NextArg, ArgMeaning
  <2>5. CASE AtomValue(NextArg, asked.env) = ERROR
    BY <1>3, <2>1, <2>2, <2>5, SignalRight
  <2>6. CASE AtomValue(NextArg, asked.env) # ERROR
    <3>1. /\ AtomValue(NextArg, asked.env) \in Values
          /\ Deliver(AtomValue(NextArg, asked.env), stack)
      BY <2>1, <2>3, <2>6
    <3>. QED  BY <1>3, <1>4, <2>2, <2>4, <3>1, DeliverRight
  <2>. QED  BY <2>5, <2>6
<1>12. ASSUME Descend PROVE Goal
  BY <1>12 DEF Descend, ControlRight, SteadyAnswersAreRight, Abstract!evars
<1>13. ASSUME ApplyOperator PROVE Goal
  <2>. DEFINE op == Op[Top.node]
  <2>1. /\ Top = Last(stack) /\ Top \in Frames /\ stack # << >>
        /\ op \in Operators /\ Top.function \in Functions /\ Top.args \in Seq(Values)
        /\ Apply(op, Top.args) \in Values \cup {ERROR}
    BY <1>13, CompleteFrame DEF ApplyOperator, Frames
  <2>2. /\ asked \in Asked /\ asked # NULL
        /\ Top.node \in Steady => Meaning[Top.node][asked.env] = Apply(op, Top.args)
        /\ stack[1].node = asked.node /\ Chained(stack)
    BY <1>4, <1>13, <2>1, CompleteMeaning DEF ApplyOperator, IInv, ControlOK
  <2>3. PICK v \in Outcomes(registry, Top.function, op, Top.args) :
          Signal \/ (v # ERROR /\ Deliver(v, Popped(stack)))
    BY <1>13 DEF ApplyOperator, Popped
  <2>4. v \in {Apply(op, Top.args), ERROR}
    BY <1>13, <2>1, <2>3, TopFunctionRight, OutcomesRight DEF ApplyOperator
  <2>5. CASE Signal
    BY <1>3, <2>2, <2>5, SignalRight
  <2>6. CASE v # ERROR /\ Deliver(v, Popped(stack))
    <3>. DEFINE frames == Popped(stack)
    <3>1. /\ frames \in Seq(Frames) /\ Len(frames) = Len(stack) - 1
          /\ \A i \in 1 .. Len(stack) - 1 : frames[i] = stack[i]
          /\ frames # << >> => Expects(Last(frames), Last(stack).node)
          /\ frames = << >> => stack[1] = Last(stack)
      BY <1>4, <2>1, <2>2, PoppedChained
    <3>. HIDE DEF frames
    <3>2. /\ v \in Values
          /\ Last(stack).node \in Steady => v = Meaning[Last(stack).node][asked.env]
      BY <2>1, <2>2, <2>4, <2>6
    <3>3. Right(frames, asked.env)
      <4>1. ASSUME NEW i \in 1 .. Len(frames), frames[i].node \in Steady,
                   NEW j \in 1 .. Len(frames[i].args)
            PROVE  frames[i].args[j] = ArgMeaning(Args[frames[i].node][j], asked.env)
        <5>1. i \in 1 .. Len(stack) /\ frames[i] = stack[i]
          BY <1>4, <3>1
        <5>. QED  BY <1>4, <4>1, <5>1 DEF Right
      <4>. QED  BY <4>1 DEF Right
    <3>4. frames = << >> /\ asked.node \in Steady => v = Meaning[asked.node][asked.env]
      BY <2>2, <3>1, <3>2
    <3>5. frames # << >> /\ Last(frames).node \in Steady =>
            v = ArgMeaning(Args[Last(frames).node][Len(Last(frames).args) + 1], asked.env)
      <4>. SUFFICES ASSUME frames # << >>, Last(frames).node \in Steady
                    PROVE  v = ArgMeaning(Args[Last(frames).node][Len(Last(frames).args) + 1],
                                          asked.env)
        OBVIOUS
      <4>1. Len(Last(frames).args) \in Nat
        BY <3>1 DEF Last, Frames
      <4>2. Expects(Last(frames), Last(stack).node) /\ Last(stack).node \in Steady
        BY <3>1, <4>1, SteadyParts
      <4>. QED  BY <3>2, <4>2 DEF Expects, ArgMeaning
    <3>6. Deliver(v, frames)
      BY <2>6 DEF frames
    <3>. QED  BY <1>3, <2>2, <3>1, <3>2, <3>3, <3>4, <3>5, <3>6, DeliverRight
  <2>. QED  BY <2>3, <2>5, <2>6
<1>14. ASSUME Restart PROVE Goal
  <2>1. asked' = NULL /\ answer' = NULL /\ stack' = << >> /\ Len(<< >>) = 0
    BY <1>14 DEF Restart
  <2>2. Abstract!Reset
    BY <2>1 DEF Abstract!Reset
  <2>. QED  BY <2>1, <2>2 DEF ControlRight, Right, SteadyAnswersAreRight, Abstract!Next
<1>. QED
  <2>. HIDE DEF Goal
  <2>1. ASSUME Request PROVE Goal
    BY <1>6, <1>7, <2>1 DEF Request, ClearCache, Configure, SaveCache, LoadFile
  <2>2. ASSUME Work PROVE Goal
    BY <1>6, <1>8, <1>9, <1>10, <1>11, <1>12, <1>13, <2>2 DEF Work, LoadEntry
  <2>3. ASSUME UNCHANGED vars PROVE Goal
    BY <1>6, <2>3 DEF vars
  <2>4. Goal
    BY <1>14, <2>1, <2>2, <2>3 DEF Next
  <2>. QED  BY <2>4 DEF Goal

LEMMA InitRight == Init => FunctionsRight /\ StoreRight /\ ControlRight /\ Abstract!Init
<1>. SUFFICES ASSUME Init PROVE FunctionsRight /\ StoreRight /\ ControlRight /\ Abstract!Init
  OBVIOUS
<1>1. EmptyCache.table = NoEntries /\ EmptyCache.compiled = NoEntries /\ Len(<< >>) = 0
  BY DEF EmptyCache
<1>2. StoreRight
  BY <1>1, NoEntriesFaithful DEF Init, StoreRight
<1>3. ControlRight
  BY <1>1 DEF Init, ControlRight, Right, SteadyAnswersAreRight
<1>4. FunctionsRight
  BY <1>1 DEF Init, FunctionsRight, Keep
<1>. QED  BY <1>2, <1>3, <1>4 DEF Init, Abstract!Init

(* A value answered to a steady expression is its meaning, whatever else is *)
(* asked under whatever bindings, as long as numbers that are = are the     *)
(* same.  Of other expressions this is false: cached values are answered    *)
(* for the wrong bindings, as the instance with two bindings shows.         *)
THEOREM SteadyAnswers ==
  ASSUME SameNumbersAreEqual
  PROVE  Spec => []SteadyAnswersAreRight
<1>1. IInv /\ FunctionsRight /\ StoreRight /\ ControlRight /\ [Next]_vars
        => (FunctionsRight /\ StoreRight /\ ControlRight)'
  BY FunctionsRightStep, StoreRightStep, ControlRightStep
<1>2. ControlRight => SteadyAnswersAreRight
  BY DEF ControlRight
<1>. QED  BY Invariance, InitRight, <1>1, <1>2, PTL DEF Spec

(* In particular all answers are right where everything is steady: no       *)
(* expression has a variable, or only one binding is ever used.             *)
THEOREM RightAnswers ==
  ASSUME SameNumbersAreEqual, Steady = Nodes
  PROVE  Spec => []AnswersAreRight
<1>1. IInv /\ SteadyAnswersAreRight => AnswersAreRight
  BY DEF IInv, ControlOK, Asked, SteadyAnswersAreRight, AnswersAreRight
<1>. QED  BY SteadyAnswers, Invariance, <1>1, PTL

(* Caching, compiling, specializing, evicting, clearing, saving, loading    *)
(* and restarting are invisible in the answers to steady expressions: the   *)
(* calculator implements the evaluator that computes every answer from      *)
(* scratch, and promises nothing of the others.                             *)
THEOREM ImplementsMemolessEvaluator ==
  ASSUME SameNumbersAreEqual
  PROVE  Spec => AnswersAsIfComputed
<1>1. IInv /\ FunctionsRight /\ StoreRight /\ ControlRight /\ [Next]_vars
        => /\ (FunctionsRight /\ StoreRight /\ ControlRight)'
           /\ [Abstract!Next]_(Abstract!evars)
  BY FunctionsRightStep, StoreRightStep, ControlRightStep
<1>. QED  BY Invariance, InitRight, <1>1, PTL DEF Spec, AnswersAsIfComputed, Abstract!Spec

-----------------------------------------------------------------------------
(* Errors.  What makes the calculator answer with errors that the           *)
(* expression does not have is specializing operators that may fail; it     *)
(* never does at level 1, nor if the operators of the pipeline never fail.  *)
PipelineNeverFails ==
  \A i \in DOMAIN PipelineOps : \A args \in Seq(Values) : Apply(PipelineOps[i], args) # ERROR

SpecializesNothingThatFails == Levels \subseteq {1} \/ PipelineNeverFails

InPipeline(op) == \E i \in DOMAIN PipelineOps : op = PipelineOps[i]

(* Only operators of the pipeline are replaced, and only if none can fail.  *)
HarmlessFunctions ==
  [op \in Operators |-> {f \in Functions : f.kind # "base" => PipelineNeverFails /\ InPipeline(op)}]

Harmless(r) == \A op \in Operators : r.installed[op] \in HarmlessFunctions[op]

HarmlessStore == Harmless(registry) /\ (level # 1 => PipelineNeverFails)

HarmlessCalls == Keep(stack, HarmlessFunctions)

LEMMA HarmlessCallsStep ==
  IInv /\ HarmlessStore /\ HarmlessCalls /\ [Next]_vars => HarmlessCalls'
BY FramesKeepFunctions DEF HarmlessCalls, HarmlessStore, Harmless, Keep

LEMMA TopFunctionHarmless ==
  ASSUME IInv, HarmlessCalls, Evaluating
  PROVE  Top.function \in HarmlessFunctions[Op[Top.node]]
<1>1. stack \in Seq(Frames) /\ stack # << >>
  BY DEF IInv, ControlOK, Evaluating
<1>2. Len(stack) \in 1 .. Len(stack)
  BY <1>1
<1>. QED  BY <1>2 DEF HarmlessCalls, Keep, Top

LEMMA NothingFails ==
  ASSUME PipelineNeverFails, NEW r, RegistryOK(r), NEW op, InPipeline(op)
  PROVE  ~Unspecializable(r, op)
<1>1. HotPatterns(r, op) \subseteq Seq(Values)
  BY DEF HotPatterns, RegistryOK, RegistryType, Calls
<1>. QED  BY <1>1 DEF Unspecializable, PipelineNeverFails, InPipeline

LEMMA HookNeverFails ==
  ASSUME HarmlessStore, level \in 1 .. 3, NEW r, RegistryOK(r)
  PROVE  ~HookFails(r)
<1>1. level >= 2 => PipelineNeverFails
  BY DEF HarmlessStore
<1>2. PipelineNeverFails => Failing(r) = {}
  BY NothingFails DEF Failing, InPipeline
<1>. QED  BY <1>1, <1>2 DEF HookFails

LEMMA CallNeverFails ==
  ASSUME NEW r, RegistryOK(r), NEW op \in Operators, NEW f \in HarmlessFunctions[op],
         NEW args \in Seq(Values), Apply(op, args) \in Values \cup {ERROR}
  PROVE  ~CallFails(r, f, op, args)
<1>1. CallSpecializes(r, f, op, args) => PipelineNeverFails /\ InPipeline(op)
  BY DEF CallSpecializes, HarmlessFunctions
<1>. QED  BY <1>1, CountedOK, NothingFails DEF CallFails

LEMMA SpecializedHarmless ==
  ASSUME NEW r, RegistryOK(r), Harmless(r), NEW ops,
         \A op \in ops : PipelineNeverFails /\ InPipeline(op)
  PROVE  Harmless(Specialized(r, ops))
<1>1. Specialized(r, ops).installed
        = [op \in Operators |-> IF op \in Hot(r, ops) THEN SpecializedFunction(r, op)
                                ELSE r.installed[op]]
  BY DEF Specialized
<1>2. ASSUME NEW op \in Operators, op \in Hot(r, ops)
      PROVE  SpecializedFunction(r, op) \in HarmlessFunctions[op]
  <2>1. PipelineNeverFails /\ InPipeline(op)
    BY <1>2 DEF Hot
  <2>2. SpecializedFunction(r, op) \in Functions
    BY <2>1, NothingFails, SpecializedFunctionRight DEF RightFunctions
  <2>. QED  BY <2>1, <2>2 DEF HarmlessFunctions
<1>. QED  BY <1>1, <1>2 DEF Harmless

LEMMA CallHarmless ==
  ASSUME NEW r, RegistryOK(r), Harmless(r), NEW op \in Operators,
         NEW f \in HarmlessFunctions[op], NEW args \in Seq(Values),
         Apply(op, args) \in Values \cup {ERROR}
  PROVE  Harmless(AfterCall(r, f, op, args))
<1>. DEFINE c == Counted(r, op, args)
<1>1. c.installed = r.installed /\ RegistryOK(c)
  BY CountedOK DEF Counted, RegistryOK, RegistryType
<1>. HIDE DEF c
<1>2. Harmless(c)
  BY <1>1 DEF Harmless
<1>3. f.kind = "wrapper" => Harmless(Specialized(c, {op}))
  BY <1>1, <1>2, SpecializedHarmless DEF HarmlessFunctions
<1>. QED  BY <1>2, <1>3 DEF AfterCall, c

LEMMA CacheSetHarmless ==
  ASSUME level \in 1 .. 3, HarmlessStore, NEW n, NEW v,
         NEW r, RegistryOK(r), Harmless(r), CacheSet(n, v, r)
  PROVE  HarmlessStore'
<1>1. level >= 2 => PipelineNeverFails
  BY DEF HarmlessStore
<1>2. level >= 2 => Harmless(Specialized(r, Reached(r)))
  BY <1>1, SpecializedHarmless DEF Reached, InPipeline
<1>. QED  BY <1>2 DEF CacheSet, HarmlessStore

LEMMA BaseHarmless == Harmless(BaseRegistry)
<1>1. \A op \in Operators : BaseFunction \in HarmlessFunctions[op]
  BY PlainFunctions DEF BaseFunction, HarmlessFunctions
<1>. QED  BY <1>1 DEF Harmless, BaseRegistry

LEMMA HarmlessStep ==
  ASSUME SpecializesNothingThatFails, IInv, HarmlessStore, HarmlessCalls, [Next]_vars
  PROVE  HarmlessStore'
<1>1. ASSUME UNCHANGED <<registry, level>> PROVE HarmlessStore'
  BY <1>1 DEF HarmlessStore
<1>2. level \in 1 .. 3 /\ RegistryOK(registry) /\ Harmless(registry)
  BY DEF IInv, StoreOK, HarmlessStore
<1>3. ASSUME NEW l \in Levels, Configure(l) PROVE HarmlessStore'
  <2>1. CASE l >= 2
    <3>. DEFINE ops == {PipelineOps[i] : i \in DOMAIN PipelineOps}
    <3>1. PipelineNeverFails
      BY <2>1 DEF SpecializesNothingThatFails
    <3>2. Wrapped(registry, ops).installed
            = [op \in Operators |-> IF op \in ops THEN Wrapper ELSE registry.installed[op]]
      BY <1>2 DEF Wrapped, RegistryOK, RegistryType
    <3>3. \A op \in ops : InPipeline(op)
      BY DEF InPipeline
    <3>4. registry' = Wrapped(registry, ops)
      BY <1>3, <2>1 DEF Configure
    <3>. HIDE DEF ops
    <3>5. Harmless(registry')
      <4>1. \A op \in Operators : op \in ops => Wrapper \in HarmlessFunctions[op]
        BY <3>1, <3>3, PlainFunctions DEF HarmlessFunctions
      <4>. QED  BY <1>2, <3>2, <3>4, <4>1 DEF Harmless
    <3>. QED  BY <3>1, <3>5 DEF HarmlessStore
  <2>2. CASE ~(l >= 2)
    <3>1. l = 1
      BY <2>2, CalculatorAssumption
    <3>. QED  BY <1>2, <1>3, <3>1 DEF Configure, HarmlessStore
  <2>. QED  BY <2>1, <2>2
<1>4. ASSUME ApplyOperator PROVE HarmlessStore'
  <2>. DEFINE op == Op[Top.node]
              r == AfterCall(registry, Top.function, op, Top.args)
  <2>1. /\ op \in Operators /\ Top.function \in Functions /\ Top.args \in Seq(Values)
        /\ Top.function \in HarmlessFunctions[op]
        /\ Apply(op, Top.args) \in Values \cup {ERROR}
    BY <1>4, CompleteFrame, TopFunctionHarmless DEF ApplyOperator, Frames
  <2>2. RegistryOK(r) /\ Harmless(r)
    BY <1>2, <2>1, CallOK, CallHarmless
  <2>3. \/ registry' = r /\ level' = level
        \/ \E v \in Outcomes(registry, Top.function, op, Top.args) : CacheSet(Top.node, v, r)
    BY <1>4 DEF ApplyOperator
  <2>. HIDE DEF op, r
  <2>4. registry' = r /\ level' = level => HarmlessStore'
    BY <2>2 DEF HarmlessStore
  <2>. QED  BY <1>2, <2>2, <2>3, <2>4, CacheSetHarmless
<1>5. ASSUME NEW n \in DOMAIN loading, LoadEntry(n) PROVE HarmlessStore'
  BY <1>2, <1>5, CacheSetHarmless DEF LoadEntry
<1>6. ASSUME Restart PROVE HarmlessStore'
  BY <1>6, BaseHarmless DEF Restart, HarmlessStore
<1>7. ASSUME Request PROVE HarmlessStore'
  BY <1>1, <1>3, <1>7 DEF Request, Evaluate, ClearCache, SaveCache, LoadFile
<1>8. ASSUME Work PROVE HarmlessStore'
  BY <1>1, <1>4, <1>5, <1>8 DEF Work, HitCompiled, HitTable, Miss, TakeAtom, Descend
<1>. QED  BY <1>1, <1>6, <1>7, <1>8 DEF Next, vars

(* The error of an argument is the error of its expression.                 *)
LEMMA ArgumentFails ==
  ASSUME NEW n \in Nodes, NEW e \in Envs, NEW i \in 1 .. Len(Args[n]),
         ArgMeaning(Args[n][i], e) = ERROR
  PROVE  Meaning[n][e] = ERROR
<1>1. ArgMeanings(n, e)[i] = ERROR
  BY DEF ArgMeanings
<1>. QED  BY <1>1, CalculatorAssumption

(* A steady expression is answered with an error only if that is what it    *)
(* means.                                                                   *)
SteadyErrorsAreDeserved ==
  answer # NULL /\ answer.value = ERROR /\ answer.asked.node \in Steady =>
    Meaning[answer.asked.node][answer.asked.env] = ERROR

(* An expression in progress for a steady one is steady too, and its error  *)
(* is the error of the one asked.                                           *)
Involves(n) ==
  asked.node \in Steady =>
    /\ n \in Steady
    /\ Meaning[n][asked.env] = ERROR => Meaning[asked.node][asked.env] = ERROR

ErrorsOK ==
  /\ \A i \in 1 .. Len(stack) : Involves(stack[i].node)
  /\ calling # NULL => Involves(calling)
  /\ SteadyErrorsAreDeserved

LEMMA DeliverErrors ==
  ASSUME ErrorsOK, asked # NULL, NEW v \in Values, NEW frames \in Seq(Frames),
         \A i \in 1 .. Len(frames) : Involves(frames[i].node), Deliver(v, frames)
  PROVE  ErrorsOK'
<1>1. calling' = NULL
  BY DEF Deliver
<1>2. CASE frames = << >>
  <2>1. stack' = << >> /\ answer' = [asked |-> asked, value |-> v] /\ Len(<< >>) = 0
    BY <1>2 DEF Deliver
  <2>2. v # ERROR
    BY OperatorAssumption
  <2>. QED  BY <1>1, <2>1, <2>2 DEF ErrorsOK, SteadyErrorsAreDeserved
<1>3. CASE frames # << >>
  <2>1. stack' = Extended(frames, v) /\ UNCHANGED <<asked, answer>>
    BY <1>3 DEF Deliver, Extended
  <2>2. /\ Len(stack') = Len(frames)
        /\ \A i \in 1 .. Len(frames) : stack'[i].node = frames[i].node
    BY <1>3, <2>1, ExtendedType
  <2>. QED  BY <1>1, <2>1, <2>2 DEF ErrorsOK, SteadyErrorsAreDeserved, Involves
<1>. QED  BY <1>2, <1>3

LEMMA SignalErrors ==
  ASSUME asked # NULL, asked.node \in Steady => Meaning[asked.node][asked.env] = ERROR, Signal
  PROVE  ErrorsOK'
<1>1. /\ calling' = NULL /\ stack' = << >> /\ Len(<< >>) = 0
      /\ answer' = [asked |-> asked, value |-> ERROR]
  BY DEF Signal
<1>. QED  BY <1>1 DEF ErrorsOK, SteadyErrorsAreDeserved

(* The innermost frame, while an argument is missing.                       *)
LEMMA NextArgument ==
  ASSUME IInv, ErrorsOK, Incomplete
  PROVE  /\ asked # NULL /\ Involves(Top.node)
         /\ ArgMeaning(NextArg, asked.env) = ERROR => Meaning[Top.node][asked.env] = ERROR
         /\ IsNode(NextArg) /\ Top.node \in Steady => NextArg.node \in Steady
<1>1. /\ stack # << >> /\ asked \in Asked /\ asked # NULL
      /\ Top = Last(stack) /\ Top \in Frames
      /\ Len(Top.args) + 1 \in 1 .. Len(Args[Top.node])
      /\ stack \in Seq(Frames)
  BY IncompleteFrame DEF IInv, ControlOK
<1>2. Top.node \in Nodes /\ asked.env \in Envs
  BY <1>1 DEF Frames, Asked
<1>3. Len(stack) \in 1 .. Len(stack)
  BY <1>1
<1>4. IsNode(NextArg) /\ Top.node \in Steady => NextArg.node \in Steady
  BY <1>1, CalculatorAssumption DEF NextArg
<1>. QED  BY <1>1, <1>2, <1>3, <1>4, ArgumentFails DEF NextArg, Top, ErrorsOK

LEMMA ErrorsStep ==
  ASSUME IInv, StoreRight, ControlRight, HarmlessStore, HarmlessCalls, ErrorsOK, [Next]_vars
  PROVE  ErrorsOK'
<1>. DEFINE c == WithLookup(cache)
<1>1. Table(c.table, Nodes, Values) /\ Table(c.compiled, Nodes, Values)
  BY LookupType DEF IInv, StoreOK, CacheType
<1>. HIDE DEF c
<1>2. /\ stack \in Seq(Frames) /\ (calling # NULL => asked # NULL)
      /\ stack # << >> => asked # NULL
      /\ asked = NULL => stack = << >>
      /\ \A i \in 1 .. Len(stack) : Involves(stack[i].node)
  BY DEF IInv, ControlOK, ErrorsOK
<1>3. ASSUME UNCHANGED control PROVE ErrorsOK'
  BY <1>3 DEF control, ErrorsOK, SteadyErrorsAreDeserved, Involves
<1>4. ASSUME NEW n \in Nodes, NEW e \in Envs, Evaluate(n, e) PROVE ErrorsOK'
  <2>1. /\ asked' = [node |-> n, env |-> e] /\ calling' = n /\ answer' = NULL
        /\ stack' = << >> /\ Len(<< >>) = 0
    BY <1>2, <1>4 DEF Evaluate, Idle
  <2>. QED  BY <2>1 DEF ErrorsOK, SteadyErrorsAreDeserved, Involves
<1>5. ASSUME HitCompiled PROVE ErrorsOK'
  <2>1. calling # NULL /\ calling \in DOMAIN c.compiled /\ Deliver(c.compiled[calling], stack)
    BY <1>5 DEF HitCompiled, c
  <2>2. c.compiled[calling] \in Values
    BY <1>1, <2>1 DEF Table
  <2>. QED  BY <1>2, <2>1, <2>2, DeliverErrors
<1>6. ASSUME HitTable PROVE ErrorsOK'
  <2>1. calling # NULL /\ calling \in DOMAIN c.table /\ Deliver(c.table[calling], stack)
    BY <1>6 DEF HitTable, c
  <2>2. c.table[calling] \in Values
    BY <1>1, <2>1 DEF Table
  <2>. QED  BY <1>2, <2>1, <2>2, DeliverErrors
<1>7. ASSUME Miss PROVE ErrorsOK'
  <2>. DEFINE f == Fresh(calling, registry.installed[Op[calling]])
  <2>1. /\ calling # NULL /\ calling \in Nodes /\ calling' = NULL
        /\ UNCHANGED <<asked, answer>> /\ stack' = Append(stack, f)
    BY <1>7 DEF Miss, Fresh, IInv, ControlOK
  <2>2. f.node = calling /\ Involves(calling)
    BY <2>1 DEF ErrorsOK, Fresh
  <2>. HIDE DEF f
  <2>3. /\ Len(stack') = Len(stack) + 1 /\ Len(stack) \in Nat
        /\ stack'[Len(stack) + 1] = f
        /\ \A i \in 1 .. Len(stack) : stack'[i] = stack[i]
    BY <1>2, <2>1
  <2>4. \A i \in 1 .. Len(stack) + 1 : Involves(stack'[i].node)
    BY <1>2, <2>2, <2>3
  <2>. QED  BY <2>1, <2>3, <2>4 DEF ErrorsOK, SteadyErrorsAreDeserved, Involves
<1>8. ASSUME TakeAtom PROVE ErrorsOK'
  <2>1. /\ Incomplete /\ ~IsNode(NextArg)
        /\ IF AtomValue(NextArg, asked.env) = ERROR
             THEN Signal ELSE Deliver(AtomValue(NextArg, asked.env), stack)
    BY <1>8 DEF TakeAtom
  <2>2. ArgMeaning(NextArg, asked.env) = AtomValue(NextArg, asked.env)
    BY <2>1 DEF ArgMeaning
  <2>3. CASE AtomValue(NextArg, asked.env) = ERROR
    BY <2>1, <2>2, <2>3, NextArgument, SignalErrors DEF Involves
  <2>4. CASE AtomValue(NextArg, asked.env) # ERROR
    <3>1. AtomValue(NextArg, asked.env) \in Values \cup {ERROR} /\ asked # NULL
      BY <2>1, IncompleteFrame, AtomType DEF NextArg, Frames, Asked
    <3>2. /\ AtomValue(NextArg, asked.env) \in Values
          /\ Deliver(AtomValue(NextArg, asked.env), stack)
      BY <2>1, <2>4, <3>1
    <3>. QED  BY <1>2, <3>1, <3>2, DeliverErrors
  <2>. QED  BY <2>3, <2>4
<1>9. ASSUME Descend PROVE ErrorsOK'
  <2>1. /\ Incomplete /\ IsNode(NextArg) /\ calling' = NextArg.node
        /\ UNCHANGED <<asked, stack, answer>>
    BY <1>9 DEF Descend
  <2>2. Involves(NextArg.node)
    BY <2>1, NextArgument DEF Involves, ArgMeaning
  <2>. QED  BY <1>2, <2>1, <2>2 DEF ErrorsOK, SteadyErrorsAreDeserved, Involves
<1>10. ASSUME ApplyOperator PROVE ErrorsOK'
  <2>. DEFINE op == Op[Top.node]
              r == AfterCall(registry, Top.function, op, Top.args)
  <2>1. /\ Top = Last(stack) /\ Top \in Frames /\ stack # << >>
        /\ op \in Operators /\ Top.function \in Functions /\ Top.args \in Seq(Values)
        /\ Apply(op, Top.args) \in Values \cup {ERROR}
    BY <1>10, CompleteFrame DEF ApplyOperator, Frames
  <2>2. /\ Top.node \in Steady => Meaning[Top.node][asked.env] = Apply(op, Top.args)
        /\ asked # NULL /\ Chained(stack)
    BY <1>2, <1>10, <2>1, CompleteMeaning DEF ApplyOperator, IInv, ControlOK
  <2>3. /\ RegistryOK(registry) /\ RegistryOK(r) /\ level \in 1 .. 3
        /\ Outcomes(registry, Top.function, op, Top.args) \subseteq Values \cup {ERROR}
    BY <2>1, CallOK DEF IInv, StoreOK
  <2>4. ~CallFails(registry, Top.function, op, Top.args) /\ ~HookFails(r)
    BY <1>10, <2>1, <2>3, TopFunctionHarmless, CallNeverFails, HookNeverFails
       DEF HarmlessStore, ApplyOperator
  <2>5. PICK v \in Outcomes(registry, Top.function, op, Top.args) :
          IF v = ERROR THEN Signal
          ELSE IF HookFails(r) THEN Signal ELSE Deliver(v, Popped(stack))
    BY <1>10 DEF ApplyOperator, Popped
  <2>. HIDE DEF r
  <2>6. CASE v = ERROR
    <3>1. \A p \in Matching(Top.function, Top.args) : p[2] \in Values
      BY <2>1 DEF Matching, Functions, Clauses
    <3>2. Apply(op, Top.args) = ERROR
      BY <2>4, <2>6, <3>1, OperatorAssumption DEF Outcomes
    <3>3. Involves(Top.node)
      BY <1>2, <2>1 DEF Top
    <3>. QED  BY <2>2, <2>5, <2>6, <3>2, <3>3, SignalErrors DEF Involves
  <2>7. CASE v # ERROR
    <3>1. v \in Values /\ Deliver(v, Popped(stack))
      BY <2>3, <2>4, <2>5, <2>7
    <3>. DEFINE frames == Popped(stack)
    <3>2. /\ frames \in Seq(Frames) /\ Len(frames) = Len(stack) - 1
          /\ \A i \in 1 .. Len(stack) - 1 : frames[i] = stack[i]
      BY <1>2, <2>1, <2>2, PoppedChained
    <3>3. Deliver(v, frames)
      BY <3>1
    <3>. HIDE DEF frames
    <3>4. Len(stack) \in Nat
      BY <1>2
    <3>5. \A i \in 1 .. Len(frames) : Involves(frames[i].node)
      BY <1>2, <3>2, <3>4
    <3>. QED  BY <2>2, <3>1, <3>2, <3>3, <3>5, DeliverErrors
  <2>. QED  BY <2>6, <2>7
<1>11. ASSUME Restart PROVE ErrorsOK'
  <2>1. calling' = NULL /\ answer' = NULL /\ stack' = << >> /\ Len(<< >>) = 0
    BY <1>11 DEF Restart
  <2>. QED  BY <2>1 DEF ErrorsOK, SteadyErrorsAreDeserved
<1>12. ASSUME Request PROVE ErrorsOK'
  BY <1>3, <1>4, <1>12 DEF Request, ClearCache, Configure, SaveCache, LoadFile
<1>13. ASSUME Work PROVE ErrorsOK'
  BY <1>3, <1>5, <1>6, <1>7, <1>8, <1>9, <1>10, <1>13 DEF Work, LoadEntry
<1>14. ASSUME UNCHANGED vars PROVE ErrorsOK'
  BY <1>3, <1>14 DEF vars
<1>. QED  BY <1>11, <1>12, <1>13, <1>14 DEF Next

(* A steady expression is answered with an error only if that is what it    *)
(* means, at level 1 and wherever the operators the pipeline specializes    *)
(* never fail.  With division among them this is false: the instance for    *)
(* it shows a recorded division by zero failing unrelated evaluations.      *)
THEOREM SteadyErrors ==
  ASSUME SameNumbersAreEqual, SpecializesNothingThatFails
  PROVE  Spec => []SteadyErrorsAreDeserved
<1>1. Init => HarmlessStore /\ HarmlessCalls /\ ErrorsOK
  <2>1. Len(<< >>) = 0
    OBVIOUS
  <2>2. Init => HarmlessStore
    BY BaseHarmless DEF Init, HarmlessStore
  <2>3. Init => ErrorsOK
    BY <2>1 DEF Init, ErrorsOK, SteadyErrorsAreDeserved
  <2>4. Init => HarmlessCalls
    BY <2>1 DEF Init, HarmlessCalls, Keep
  <2>. QED  BY <2>2, <2>3, <2>4
<1>. DEFINE AllRight == FunctionsRight /\ StoreRight /\ ControlRight
            AllHarmless == HarmlessStore /\ HarmlessCalls /\ ErrorsOK
<1>2. IInv /\ AllRight /\ AllHarmless /\ [Next]_vars => (AllRight /\ AllHarmless)'
  BY FunctionsRightStep, StoreRightStep, ControlRightStep, HarmlessStep, HarmlessCallsStep,
     ErrorsStep
<1>3. ErrorsOK => SteadyErrorsAreDeserved
  BY DEF ErrorsOK
<1>. QED  BY Invariance, InitRight, <1>1, <1>2, <1>3, PTL DEF Spec

(* In particular, where everything is steady there are no spurious errors.  *)
THEOREM ErrorsAreDeserved ==
  ASSUME SameNumbersAreEqual, SpecializesNothingThatFails, Steady = Nodes
  PROVE  Spec => []NoSpuriousErrors
<1>1. IInv /\ SteadyErrorsAreDeserved => NoSpuriousErrors
  BY DEF IInv, ControlOK, Asked, SteadyErrorsAreDeserved, NoSpuriousErrors
<1>. QED  BY SteadyErrors, Invariance, <1>1, PTL

-----------------------------------------------------------------------------
(* The order of use.  Stamps are only kept by a bounded cache.              *)

(* A cache with the stamps of another, but for n, which is stamped last.    *)
StampedLast(c, d, n) ==
  /\ n \in DOMAIN d.table /\ DOMAIN d.access = DOMAIN d.table
  /\ c.clock < d.clock /\ d.access[n] = d.clock
  /\ \A m \in DOMAIN d.table \ {n} : m \in DOMAIN c.table /\ d.access[m] = c.access[m]

LEMMA TouchStamps ==
  ASSUME MaxSize > 0, NEW c, CacheType(c, Values), NEW n \in Nodes
  PROVE  /\ Touch(c, n).access = With(c.access, n, c.clock + 1)
         /\ Touch(c, n).clock = c.clock + 1
<1>. DEFINE access == With(c.access, n, c.clock + 1)
<1>1. Touch(c, n) = [c EXCEPT !.clock = c.clock + 1, !.access = access]
  BY CacheAssumption DEF Touch
<1>. HIDE DEF access
<1>. QED  BY <1>1, CacheDomain DEF CacheType, CacheFields, access

LEMMA HitStamps ==
  ASSUME MaxSize > 0, NEW c, CacheType(c, Values), DOMAIN c.access = DOMAIN c.table,
         NEW n \in Nodes, n \in DOMAIN c.table
  PROVE  StampedLast(c, Hit(c, n), n)
<1>. DEFINE b == Touch(c, n)
            d == [b EXCEPT !.hits = b.hits + 1]
<1>1. /\ CacheType(b, Values) /\ b.table = c.table
      /\ b.access = With(c.access, n, c.clock + 1) /\ b.clock = c.clock + 1
  BY TouchType, TouchStamps
<1>2. Hit(c, n) = d
  BY DEF Hit
<1>. HIDE DEF b
<1>3. d.access = b.access /\ d.clock = b.clock /\ d.table = b.table
  BY <1>1, CacheDomain DEF CacheType, CacheFields
<1>. HIDE DEF d
<1>4. c.clock \in Nat
  BY DEF CacheType
<1>. QED  BY <1>1, <1>2, <1>3, <1>4 DEF StampedLast, With

LEMMA InsertStamps ==
  ASSUME MaxSize > 0, NEW c, CacheType(c, Values), DOMAIN c.access = DOMAIN c.table,
         NEW n \in Nodes, NEW v \in Values
  PROVE  StampedLast(c, Insert(c, n, v), n)
<1>. DEFINE b == Touch(c, n)
            table == With(c.table, n, v)
            d == [b EXCEPT !.table = table, !.dirty = TRUE]
<1>1. /\ CacheType(b, Values) /\ b.table = c.table
      /\ b.access = With(c.access, n, c.clock + 1) /\ b.clock = c.clock + 1
  BY TouchType, TouchStamps
<1>2. Insert(c, n, v) = d
  BY <1>1 DEF Insert
<1>. HIDE DEF b, table
<1>3. d.access = b.access /\ d.clock = b.clock /\ d.table = table
  BY <1>1, CacheDomain DEF CacheType, CacheFields
<1>. HIDE DEF d
<1>4. c.clock \in Nat
  BY DEF CacheType
<1>. QED  BY <1>1, <1>2, <1>3, <1>4 DEF StampedLast, With, table

LEMMA EvictStamps ==
  ASSUME NEW c, CacheType(c, Values), NEW n
  PROVE  /\ Evict(c, n).access = Without(c.access, n)
         /\ Evict(c, n).clock = c.clock
<1>. DEFINE table == Without(c.table, n)
            access == Without(c.access, n)
<1>1. Evict(c, n) = [c EXCEPT !.table = table, !.access = access, !.dirty = TRUE]
  BY DEF Evict
<1>. HIDE DEF table, access
<1>. QED  BY <1>1, CacheDomain DEF CacheType, CacheFields, access

LEMMA LookupStamps ==
  ASSUME NEW c, CacheType(c, Values)
  PROVE  WithLookup(c).access = c.access /\ WithLookup(c).clock = c.clock
<1>. DEFINE lookup == IF Size(c) <= MaxClauses THEN c.table ELSE NoEntries
            big == Size(c) > MaxClauses
            size == Size(c)
<1>1. \/ WithLookup(c) = c
      \/ WithLookup(c) = [c EXCEPT !.compiled = lookup, !.compiledSize = size,
                                   !.dirty = FALSE, !.givenUp = big]
  BY DEF WithLookup
<1>. HIDE DEF lookup, big, size
<1>. QED  BY <1>1, CacheDomain DEF CacheType, CacheFields

(* Storing stamps what is stored last, after an access or an eviction or    *)
(* neither.                                                                 *)
LEMMA StoredStamps ==
  ASSUME MaxSize > 0, NEW c, CacheType(c, Values), DOMAIN c.access = DOMAIN c.table,
         NEW n \in Nodes, NEW v \in Values, NEW d \in Stored(c, n, v)
  PROVE  StampedLast(c, d, n)
<1>1. CASE d = Insert(c, n, v)
  BY <1>1, InsertStamps
<1>2. CASE n \in DOMAIN c.table /\ d = Insert(Touch(c, n), n, v)
  <2>. DEFINE b == Touch(c, n)
  <2>1. /\ CacheType(b, Values) /\ b.table = c.table
        /\ b.access = With(c.access, n, c.clock + 1) /\ b.clock = c.clock + 1
    BY TouchType, TouchStamps
  <2>2. d = Insert(b, n, v)
    BY <1>2
  <2>. HIDE DEF b
  <2>3. DOMAIN b.access = DOMAIN b.table
    BY <1>2, <2>1 DEF With
  <2>4. StampedLast(b, d, n)
    BY <2>1, <2>2, <2>3, InsertStamps
  <2>5. \A m \in DOMAIN c.table \ {n} : b.access[m] = c.access[m]
    BY <2>1 DEF With
  <2>6. c.clock \in Nat /\ d.clock \in Int
    <3>1. CacheType(d, Values)
      BY StoredType
    <3>. QED  BY <3>1 DEF CacheType
  <2>. QED  BY <2>1, <2>4, <2>5, <2>6 DEF StampedLast
<1>3. CASE \E m \in Oldest(c) : d = Insert(Evict(c, m), n, v)
  <2>1. PICK k \in Oldest(c) : d = Insert(Evict(c, k), n, v)
    BY <1>3
  <2>. DEFINE b == Evict(c, k)
  <2>2. /\ CacheType(b, Values) /\ b.table = Without(c.table, k)
        /\ b.access = Without(c.access, k) /\ b.clock = c.clock
    BY EvictType, EvictStamps
  <2>3. d = Insert(b, n, v)
    BY <2>1
  <2>. HIDE DEF b
  <2>4. DOMAIN b.access = DOMAIN b.table
    BY <2>2 DEF Without
  <2>5. StampedLast(b, d, n)
    BY <2>2, <2>3, <2>4, InsertStamps
  <2>6. \A m \in DOMAIN b.table : m \in DOMAIN c.table /\ b.access[m] = c.access[m]
    BY <2>2 DEF Without
  <2>. QED  BY <2>2, <2>5, <2>6 DEF StampedLast
<1>. QED  BY <1>1, <1>2, <1>3 DEF Stored

(* What a store drops is an entry that it may evict.                        *)
LEMMA StoredDrops ==
  ASSUME NEW c, CacheType(c, Values), NEW n \in Nodes, NEW v \in Values,
         NEW d \in Stored(c, n, v), NEW k \in DOMAIN c.table \ DOMAIN d.table
  PROVE  MaxSize > 0 /\ k \in Oldest(c)
<1>1. d.table # With(c.table, n, v)
  BY DEF With
<1>2. d # Insert(c, n, v) /\ d # Insert(Touch(c, n), n, v)
  BY <1>1, TouchType, InsertType
<1>3. CASE Full(c) /\ \E m \in Oldest(c) : d = Insert(Evict(c, m), n, v)
  <2>1. PICK m \in Oldest(c) : d = Insert(Evict(c, m), n, v)
    BY <1>3
  <2>2. d.table = With(Without(c.table, m), n, v)
    BY <2>1, EvictType, InsertType
  <2>3. k = m
    BY <2>2 DEF With, Without
  <2>. QED  BY <1>3, <2>3 DEF Full
<1>. QED  BY <1>2, <1>3 DEF Stored

(* The stamps of a bounded cache tell in which order its entries were used: *)
(* no two are the same, and the record agrees with them.                    *)
OrderOfUse(c, before) ==
  /\ DOMAIN c.access = DOMAIN c.table
  /\ \A n \in DOMAIN c.table : c.access[n] <= c.clock
  /\ \A m, n \in DOMAIN c.table : m # n =>
       /\ c.access[m] # c.access[n]
       /\ <<m, n>> \in before <=> c.access[m] < c.access[n]

UsesRecorded == MaxSize > 0 => OrderOfUse(cache, usedBefore)

LEMMA UseKeepsOrder ==
  ASSUME CacheType(cache, Values), CacheType(cache', Values),
         OrderOfUse(cache, usedBefore), NEW n, StampedLast(cache, cache', n), Used(n)
  PROVE  OrderOfUse(cache', usedBefore')
<1>. DEFINE others == DOMAIN cache'.table \ {n}
<1>1. /\ n \in DOMAIN cache'.table /\ DOMAIN cache'.access = DOMAIN cache'.table
      /\ cache.clock < cache'.clock /\ cache'.access[n] = cache'.clock
      /\ \A m \in others : m \in DOMAIN cache.table /\ cache'.access[m] = cache.access[m]
  BY DEF StampedLast
<1>2. /\ cache.clock \in Nat /\ cache'.clock \in Nat
      /\ \A m \in DOMAIN cache.table : cache.access[m] \in Nat
  BY DEF CacheType, Table, OrderOfUse
<1>3. \A m \in others : cache'.access[m] < cache'.clock /\ cache'.access[m] \in Nat
  BY <1>1, <1>2 DEF OrderOfUse
<1>4. /\ \A m, k \in others : <<m, k>> \in usedBefore' <=> <<m, k>> \in usedBefore
      /\ \A m \in others : <<m, n>> \in usedBefore' /\ <<n, m>> \notin usedBefore'
  BY <1>1 DEF Used, Among
<1>5. \A m \in DOMAIN cache'.table : cache'.access[m] <= cache'.clock
  BY <1>1, <1>2, <1>3
<1>6. ASSUME NEW m \in DOMAIN cache'.table, NEW k \in DOMAIN cache'.table, m # k
      PROVE  /\ cache'.access[m] # cache'.access[k]
             /\ <<m, k>> \in usedBefore' <=> cache'.access[m] < cache'.access[k]
  <2>1. CASE m = n
    <3>1. cache'.access[k] < cache'.access[m] /\ ~(cache'.access[m] < cache'.access[k])
      BY <1>1, <1>2, <1>3, <1>6, <2>1
    <3>2. cache'.access[m] # cache'.access[k]
      BY <1>1, <1>2, <1>3, <1>6, <2>1
    <3>3. <<m, k>> \notin usedBefore'
      BY <1>4, <1>6, <2>1
    <3>. QED  BY <3>1, <3>2, <3>3
  <2>2. CASE k = n
    <3>1. cache'.access[m] < cache'.access[k] /\ cache'.access[m] # cache'.access[k]
      BY <1>1, <1>2, <1>3, <1>6, <2>2
    <3>2. <<m, k>> \in usedBefore'
      BY <1>4, <1>6, <2>2
    <3>. QED  BY <3>1, <3>2
  <2>3. CASE m \in others /\ k \in others
    BY <1>1, <1>4, <1>6, <2>3 DEF OrderOfUse
  <2>. QED  BY <2>1, <2>2, <2>3
<1>. QED  BY <1>1, <1>5, <1>6 DEF OrderOfUse

LEMMA IdleKeepsOrder ==
  ASSUME OrderOfUse(cache, usedBefore), NothingUsed \/ usedBefore' = usedBefore,
         cache'.table = cache.table, cache'.access = cache.access, cache'.clock = cache.clock
  PROVE  OrderOfUse(cache', usedBefore')
BY DEF OrderOfUse, NothingUsed, Among

LEMMA EmptyKeepsOrder ==
  ASSUME cache'.table = NoEntries, cache'.access = NoEntries
  PROVE  OrderOfUse(cache', usedBefore')
BY DEF OrderOfUse, NoEntries

(* What the steps of the history do to the cache: nothing to its order, ... *)
Untouched ==
  /\ NothingUsed \/ usedBefore' = usedBefore
  /\ cache'.table = cache.table
  /\ cache'.access = cache.access /\ cache'.clock = cache.clock

(* ... a hit or a store, ...                                                *)
TableHit == cache' = Hit(WithLookup(cache), calling) /\ calling \in DOMAIN cache.table
            /\ Used(calling)

Storing == \E n \in Nodes, v \in Values : cache' \in Stored(cache, n, v) /\ Used(n)

(* ... or an empty table.                                                   *)
Emptied == cache'.table = NoEntries /\ cache'.access = NoEntries

LEMMA HistorySteps ==
  ASSUME ~CompiledHitsCount, IInv, [HistoryNext]_historyVars
  PROVE  Untouched \/ TableHit \/ Storing \/ Emptied
<1>. DEFINE c == WithLookup(cache)
            Goal == Untouched \/ TableHit \/ Storing \/ Emptied
<1>1. /\ CacheType(c, Values) /\ c.table = cache.table
      /\ c.access = cache.access /\ c.clock = cache.clock
  BY LookupType, LookupStamps DEF IInv, StoreOK
<1>. HIDE DEF c
<1>2. ASSUME HitCompiled, NothingUsed PROVE Goal
  <2>1. cache' = [c EXCEPT !.hits = c.hits + 1]
    BY <1>2 DEF HitCompiled, c
  <2>2. cache'.table = c.table /\ cache'.access = c.access /\ cache'.clock = c.clock
    BY <1>1, <2>1, CacheDomain DEF CacheType, CacheFields
  <2>. QED  BY <1>1, <1>2, <2>2 DEF Untouched
<1>3. ASSUME HitTable, Used(calling) PROVE Goal
  BY <1>1, <1>3 DEF HitTable, TableHit, c
<1>4. ASSUME Miss, NothingUsed PROVE Goal
  <2>1. cache' = [c EXCEPT !.misses = c.misses + 1]
    BY <1>4 DEF Miss, c
  <2>2. cache'.table = c.table /\ cache'.access = c.access /\ cache'.clock = c.clock
    BY <1>1, <2>1, CacheDomain DEF CacheType, CacheFields
  <2>. QED  BY <1>1, <1>4, <2>2 DEF Untouched
<1>5. ASSUME cache' = cache, NothingUsed PROVE Goal
  BY <1>5 DEF Untouched
<1>6. ASSUME ApplyOperator, cache' # cache, Used(Top.node) PROVE Goal
  <2>. DEFINE op == Op[Top.node]
  <2>1. /\ Top \in Frames
        /\ op \in Operators /\ Top.function \in Functions /\ Top.args \in Seq(Values)
        /\ Apply(op, Top.args) \in Values \cup {ERROR}
    BY <1>6, CompleteFrame DEF ApplyOperator, Frames
  <2>2. Outcomes(registry, Top.function, op, Top.args) \subseteq Values \cup {ERROR}
    BY <2>1, CallOK DEF IInv, StoreOK
  <2>3. PICK v \in Outcomes(registry, Top.function, op, Top.args) :
           v # ERROR /\ cache' \in Stored(cache, Top.node, v)
    BY <1>6 DEF ApplyOperator, CacheSet
  <2>. QED  BY <1>6, <2>1, <2>2, <2>3 DEF Frames, Storing
<1>7. ASSUME NEW n \in DOMAIN loading, LoadEntry(n), Used(n) PROVE Goal
  <2>1. cache' \in Stored(cache, n, loading[n])
    BY <1>7 DEF LoadEntry, CacheSet
  <2>2. n \in Nodes /\ loading[n] \in Values
    BY DEF IInv, StoreOK, Table
  <2>. QED  BY <1>7, <2>1, <2>2 DEF Storing
<1>8. ASSUME ClearCache \/ Restart PROVE Goal
  <2>1. Cleared(cache).access = NoEntries /\ Cleared(cache).table = NoEntries
    BY CacheDomain DEF Cleared, IInv, StoreOK, CacheType, CacheFields
  <2>2. EmptyCache.access = NoEntries /\ EmptyCache.table = NoEntries
    BY DEF EmptyCache
  <2>. QED  BY <1>8, <2>1, <2>2 DEF ClearCache, Restart, Emptied
<1>9. ASSUME Request, NothingUsed PROVE Goal
  BY <1>5, <1>8, <1>9 DEF Request, Evaluate, Configure, SaveCache, LoadFile
<1>10. ASSUME RecordedWork PROVE Goal
  <2>1. (TakeAtom \/ Descend) /\ NothingUsed => Goal
    BY <1>5 DEF TakeAtom, Descend
  <2>. HIDE DEF Goal
  <2>. QED  BY <1>2, <1>3, <1>4, <1>5, <1>6, <1>7, <1>10, <2>1 DEF RecordedWork
<1>11. ASSUME UNCHANGED historyVars PROVE Goal
  BY <1>11 DEF historyVars, vars, Untouched
<1>. QED  BY <1>8, <1>9, <1>10, <1>11 DEF HistoryNext

LEMMA HistoryImplies ==
  /\ HistoryInit => Init
  /\ [HistoryNext]_historyVars => [Next]_vars
<1>1. RecordedWork => Work
  BY DEF RecordedWork, Work
<1>. QED  BY <1>1 DEF HistoryInit, HistoryNext, historyVars, Next

LEMMA UsesRecordedStep ==
  ASSUME ~CompiledHitsCount, IInv, UsesRecorded, [HistoryNext]_historyVars, MaxSize > 0
  PROVE  OrderOfUse(cache', usedBefore')
<1>1. IInv'
  BY HistoryImplies, StoreStep, ControlStep DEF IInv
<1>2. OrderOfUse(cache, usedBefore) /\ CacheType(cache, Values) /\ CacheType(cache', Values)
  BY <1>1 DEF UsesRecorded, IInv, StoreOK
<1>3. CASE Untouched
  BY <1>2, <1>3, IdleKeepsOrder DEF Untouched
<1>4. CASE TableHit
  <2>. DEFINE c == WithLookup(cache)
  <2>1. /\ CacheType(c, Values) /\ c.table = cache.table
        /\ c.access = cache.access /\ c.clock = cache.clock
    BY LookupType, LookupStamps DEF IInv, StoreOK
  <2>2. cache' = Hit(c, calling) /\ calling \in DOMAIN cache.table /\ Used(calling)
    BY <1>4 DEF TableHit
  <2>. HIDE DEF c
  <2>3. calling \in Nodes /\ DOMAIN c.access = DOMAIN c.table
    BY <1>2, <2>1, <2>2 DEF CacheType, Table, OrderOfUse
  <2>4. StampedLast(c, cache', calling)
    BY <2>1, <2>2, <2>3, HitStamps
  <2>5. StampedLast(cache, cache', calling)
    BY <2>1, <2>4 DEF StampedLast
  <2>. QED  BY <1>2, <2>2, <2>5, UseKeepsOrder
<1>5. CASE Storing
  <2>1. PICK n \in Nodes, v \in Values : cache' \in Stored(cache, n, v) /\ Used(n)
    BY <1>5 DEF Storing
  <2>2. StampedLast(cache, cache', n)
    BY <1>2, <2>1, StoredStamps DEF OrderOfUse
  <2>. QED  BY <1>2, <2>1, <2>2, UseKeepsOrder
<1>6. CASE Emptied
  BY <1>6, EmptyKeepsOrder DEF Emptied
<1>. QED  BY <1>3, <1>4, <1>5, <1>6, HistorySteps

(* What is dropped, short of a clear, was used before all the others.       *)
LEMMA DropsLeastRecentlyUsed ==
  ASSUME ~CompiledHitsCount, IInv, UsesRecorded, [HistoryNext]_historyVars,
         NEW n \in DOMAIN cache.table \ DOMAIN cache'.table, cache'.table # NoEntries,
         NEW m \in DOMAIN cache.table \ {n}
  PROVE  <<n, m>> \in usedBefore
<1>1. cache'.table # cache.table
  OBVIOUS
<1>2. ~TableHit
  <2>1. WithLookup(cache).table = cache.table /\ CacheType(WithLookup(cache), Values)
    BY LookupType DEF IInv, StoreOK
  <2>2. calling \in DOMAIN cache.table => calling \in Nodes
    BY DEF IInv, StoreOK, CacheType, Table
  <2>. QED  BY <1>1, <2>1, <2>2, HitType DEF TableHit
<1>3. PICK k \in Nodes, v \in Values : cache' \in Stored(cache, k, v)
  BY <1>1, <1>2, HistorySteps DEF Untouched, Emptied, Storing
<1>4. MaxSize > 0 /\ n \in Oldest(cache)
  BY <1>3, StoredDrops DEF IInv, StoreOK
<1>5. OrderOfUse(cache, usedBefore)
  BY <1>4 DEF UsesRecorded
<1>6. cache.access[n] <= cache.access[m]
  BY <1>4, <1>5 DEF Oldest, Stamp, OrderOfUse
<1>7. cache.access[n] \in Nat /\ cache.access[m] \in Nat
  BY <1>5 DEF OrderOfUse, IInv, StoreOK, CacheType, Table
<1>. QED  BY <1>5, <1>6, <1>7 DEF OrderOfUse

(* docs/KNOWN-ISSUES.md:31, for any bound and any order of evaluations,     *)
(* loads, clears and restarts: a store into a full cache drops the entry    *)
(* used longest ago, if a hit through the compiled lookup is no use.  If it *)
(* is one, the instance for that shows an entry in use dropped.             *)
THEOREM LeastRecentlyUsedIsEvicted ==
  ASSUME ~CompiledHitsCount
  PROVE  HistorySpec => EvictsLeastRecentlyUsed
<1>. DEFINE Drop == \A n \in DOMAIN cache.table \ DOMAIN cache'.table :
                      cache'.table # NoEntries =>
                        \A m \in DOMAIN cache.table \ {n} : <<n, m>> \in usedBefore
<1>1. HistoryInit => IInv /\ UsesRecorded
  <2>1. EmptyCache.table = NoEntries /\ EmptyCache.access = NoEntries
    BY DEF EmptyCache
  <2>2. HistoryInit => UsesRecorded
    BY <2>1 DEF HistoryInit, Init, UsesRecorded, OrderOfUse, NoEntries
  <2>. QED  BY <2>2, HistoryImplies, InitOK
<1>2. IInv /\ UsesRecorded /\ [HistoryNext]_historyVars => (IInv /\ UsesRecorded)'
  <2>1. IInv /\ [HistoryNext]_historyVars => IInv'
    BY HistoryImplies, StoreStep, ControlStep DEF IInv
  <2>2. IInv /\ UsesRecorded /\ [HistoryNext]_historyVars => UsesRecorded'
    BY UsesRecordedStep DEF UsesRecorded
  <2>. QED  BY <2>1, <2>2
<1>3. IInv /\ UsesRecorded /\ [HistoryNext]_historyVars => [Drop]_historyVars
  BY DropsLeastRecentlyUsed
<1>. QED  BY <1>1, <1>2, <1>3, PTL DEF HistorySpec, EvictsLeastRecentlyUsed

-----------------------------------------------------------------------------
(* Every call comes to an end.  That it does in the end is a matter of      *)
(* fairness; what is proved is that no step is taken in vain, that a call   *)
(* is therefore over after so many of them, and that it never lacks one to  *)
(* take.                                                                    *)

(* What it costs to go on with an expression, by how many of its arguments  *)
(* have been evaluated: enough for those to come, with nothing cached.      *)
(* There are such numbers for every expression that is a finite tree.       *)
IsCost(cost) ==
  \A n \in Nodes :
    /\ \A k \in 0 .. Len(Args[n]) : cost[n][k] \in Nat \ {0}
    /\ \A k \in 0 .. Len(Args[n]) - 1 :
         LET a == Args[n][k + 1] IN
         cost[n][k] > cost[n][k + 1] + IF IsNode(a) THEN cost[a.node][0] + 1 ELSE 0

(* As many things as the first k numbers say together.                      *)
Units(f, k) == UNION {{i} \X (1 .. f[i]) : i \in 1 .. k}

(* What is left to do in frames that wait for the value of an argument,     *)
(* once they have it.                                                       *)
Owed(cost, frames) ==
  [i \in 1 .. Len(frames) |-> cost[frames[i].node][Len(frames[i].args) + 1]]

Suspended(cost, frames) == Cardinality(Units(Owed(cost, frames), Len(frames)))

(* What is left to do for the call in progress.                             *)
WorkLeft(cost) ==
  IF calling # NULL THEN Suspended(cost, stack) + cost[calling][0] + 1
  ELSE IF stack # << >> THEN Suspended(cost, Popped(stack)) + cost[Top.node][Len(Top.args)]
  ELSE Cardinality(DOMAIN loading)

LEMMA UnitsAdded ==
  ASSUME NEW n \in Nat, NEW f \in [1 .. n -> Nat], NEW k \in 1 .. n
  PROVE  /\ IsFiniteSet(Units(f, k)) /\ Cardinality(Units(f, k)) \in Nat
         /\ Cardinality(Units(f, k - 1)) \in Nat
         /\ Cardinality(Units(f, k)) = Cardinality(Units(f, k - 1)) + f[k]
<1>. DEFINE last == {k} \X (1 .. f[k])
<1>1. ASSUME NEW i \in 1 .. n
      PROVE  IsFiniteSet({i} \X (1 .. f[i])) /\ Cardinality({i} \X (1 .. f[i])) = f[i]
  <2>1. IsFiniteSet(1 .. f[i]) /\ Cardinality(1 .. f[i]) = f[i]
    BY FS_Interval
  <2>2. IsFiniteSet({i}) /\ Cardinality({i}) = 1
    BY FS_Singleton
  <2>3. IsFiniteSet({i} \X (1 .. f[i])) /\ Cardinality({i} \X (1 .. f[i])) = 1 * f[i]
    BY <2>1, <2>2, FS_Product
  <2>. QED  BY <2>3
<1>2. ASSUME NEW j \in 0 .. n PROVE IsFiniteSet(Units(f, j)) /\ Cardinality(Units(f, j)) \in Nat
  <2>. DEFINE g == [i \in 1 .. j |-> {i} \X (1 .. f[i])]
              T == {{i} \X (1 .. f[i]) : i \in 1 .. j}
  <2>1. g \in Surjection(1 .. j, T)
    BY DEF Surjection
  <2>2. IsFiniteSet(T)
    BY <2>1, FS_Interval, FS_Surjection
  <2>3. \A t \in T : IsFiniteSet(t)
    BY <1>1
  <2>4. IsFiniteSet(UNION T)
    BY <2>2, <2>3, FS_UNION
  <2>. QED  BY <2>4, FS_CardinalityType DEF Units
<1>3. Units(f, k) = Units(f, k - 1) \cup last
  <2>1. \A i : i \in 1 .. k <=> i \in 1 .. k - 1 \/ i = k
    OBVIOUS
  <2>. QED  BY <2>1 DEF Units
<1>4. Units(f, k - 1) \cap last = {}
  <2>1. \A p \in Units(f, k - 1) : p[1] \in 1 .. k - 1
    BY DEF Units
  <2>2. \A p \in last : p[1] = k
    OBVIOUS
  <2>3. k \notin 1 .. k - 1
    OBVIOUS
  <2>. QED  BY <2>1, <2>2, <2>3
<1>5. k - 1 \in 0 .. n /\ k \in 0 .. n
  OBVIOUS
<1>6. IsFiniteSet(last) /\ Cardinality(last) = f[k]
  BY <1>1
<1>7. Cardinality(Units(f, k)) = Cardinality(Units(f, k - 1)) + f[k] - Cardinality({})
  BY <1>2, <1>3, <1>4, <1>5, <1>6, FS_Union
<1>8. Cardinality({}) = 0
  BY FS_EmptySet
<1>. QED  BY <1>2, <1>5, <1>7, <1>8

LEMMA NoUnits ==
  ASSUME NEW f PROVE Cardinality(Units(f, 0)) = 0
<1>1. Units(f, 0) = {}
  BY DEF Units
<1>. QED  BY <1>1, FS_EmptySet

(* Frames that all wait for an argument.                                    *)
Waiting(frames) ==
  \A i \in 1 .. Len(frames) : Len(frames[i].args) + 1 \in 0 .. Len(Args[frames[i].node])

LEMMA SuspendedType ==
  ASSUME NEW cost, IsCost(cost), NEW frames \in Seq(Frames), Waiting(frames)
  PROVE  /\ Owed(cost, frames) \in [1 .. Len(frames) -> Nat]
         /\ Suspended(cost, frames) \in Nat
<1>1. ASSUME NEW i \in 1 .. Len(frames) PROVE Owed(cost, frames)[i] \in Nat
  <2>1. frames[i] \in Frames
    OBVIOUS
  <2>2. frames[i].node \in Nodes
    BY <2>1 DEF Frames
  <2>3. Len(frames[i].args) + 1 \in 0 .. Len(Args[frames[i].node])
    BY DEF Waiting
  <2>4. Owed(cost, frames)[i] = cost[frames[i].node][Len(frames[i].args) + 1]
    BY DEF Owed
  <2>. QED  BY <2>2, <2>3, <2>4 DEF IsCost
<1>2. Owed(cost, frames) \in [1 .. Len(frames) -> Nat]
  BY <1>1 DEF Owed
<1>3. Len(frames) \in Nat /\ (Len(frames) = 0 \/ Len(frames) \in 1 .. Len(frames))
  OBVIOUS
<1>. QED  BY <1>2, <1>3, UnitsAdded, NoUnits DEF Suspended

(* Frames count one by one, and by their nodes and numbers of arguments.    *)
LEMMA SuspendedAgree ==
  ASSUME NEW cost, NEW frames \in Seq(Frames), NEW others \in Seq(Frames),
         Len(frames) = Len(others),
         \A i \in 1 .. Len(frames) : frames[i] = others[i]
  PROVE  Suspended(cost, frames) = Suspended(cost, others)
<1>1. Owed(cost, frames) = Owed(cost, others)
  BY DEF Owed
<1>. QED  BY <1>1 DEF Suspended

LEMMA SuspendedLast ==
  ASSUME NEW cost, IsCost(cost), NEW frames \in Seq(Frames), frames # << >>, Chained(frames),
         Waiting(frames)
  PROVE  Suspended(cost, frames)
           = Suspended(cost, Popped(frames)) + cost[Last(frames).node][Len(Last(frames).args) + 1]
<1>. DEFINE N == Len(frames)
            short == Popped(frames)
            f == Owed(cost, frames)
            g == Owed(cost, short)
<1>1. N \in Nat /\ N \in 1 .. N
  OBVIOUS
<1>2. short \in Seq(Frames) /\ Len(short) = N - 1 /\ \A i \in 1 .. N - 1 : short[i] = frames[i]
  BY PoppedChained
<1>3. f \in [1 .. N -> Nat]
  BY SuspendedType
<1>4. \A i \in 1 .. N - 1 : i \in 1 .. N /\ g[i] = f[i]
  BY <1>1, <1>2 DEF Owed
<1>5. f[N] = cost[Last(frames).node][Len(Last(frames).args) + 1]
  BY <1>1 DEF Owed, Last
<1>. HIDE DEF f, g, short
<1>6. Units(g, N - 1) = Units(f, N - 1)
  BY <1>4 DEF Units
<1>7. Cardinality(Units(f, N)) = Cardinality(Units(f, N - 1)) + f[N]
  BY <1>1, <1>3, UnitsAdded
<1>8. Suspended(cost, frames) = Cardinality(Units(f, N))
  BY DEF Suspended, f
<1>9. Suspended(cost, short) = Cardinality(Units(f, N - 1))
  BY <1>2, <1>6 DEF Suspended, g
<1>. QED  BY <1>5, <1>7, <1>8, <1>9 DEF short

(* All frames but the last wait, and the last one does when a node is       *)
(* called for it.                                                           *)
LEMMA ChainedWaiting ==
  ASSUME NEW frames \in Seq(Frames), frames # << >>, Chained(frames)
  PROVE  /\ Waiting(Popped(frames))
         /\ Len(Last(frames).args) < Len(Args[Last(frames).node]) => Waiting(frames)
         /\ Last(frames) \in Frames /\ Last(frames).node \in Nodes
         /\ Len(Last(frames).args) \in 0 .. Len(Args[Last(frames).node])
<1>. DEFINE N == Len(frames)
<1>1. N \in Nat /\ N \in 1 .. N /\ Last(frames) = frames[N]
  BY DEF Last
<1>2. ASSUME NEW i \in 1 .. N
      PROVE  /\ Len(frames[i].args) \in Nat /\ Len(Args[frames[i].node]) \in Nat
             /\ frames[i] \in Frames /\ frames[i].node \in Nodes
             /\ Len(frames[i].args) <= Len(Args[frames[i].node])
  <2>1. frames[i] \in Frames
    OBVIOUS
  <2>. QED  BY <2>1, CalculatorAssumption DEF Frames, Chained
<1>3. ASSUME NEW i \in 1 .. N - 1
      PROVE  i \in 1 .. N /\ Len(frames[i].args) + 1 \in 0 .. Len(Args[frames[i].node])
  <2>1. i \in 1 .. N
    BY <1>1
  <2>2. Len(frames[i].args) < Len(Args[frames[i].node])
    BY DEF Chained, Expects
  <2>. QED  BY <1>2, <2>1, <2>2
<1>4. Waiting(Popped(frames))
  <2>1. Len(Popped(frames)) = N - 1 /\ \A i \in 1 .. N - 1 : Popped(frames)[i] = frames[i]
    BY PoppedChained
  <2>. QED  BY <1>3, <2>1 DEF Waiting
<1>5. ASSUME Len(Last(frames).args) < Len(Args[Last(frames).node])
      PROVE  Waiting(frames)
  <2>1. ASSUME NEW i \in 1 .. N
        PROVE  Len(frames[i].args) + 1 \in 0 .. Len(Args[frames[i].node])
    <3>1. CASE i = N
      <4>1. Len(frames[i].args) < Len(Args[frames[i].node])
        BY <1>1, <1>5, <3>1
      <4>. QED  BY <1>2, <4>1
    <3>2. CASE i # N
      <4>1. i \in 1 .. N - 1
        BY <1>1, <3>2
      <4>. QED  BY <1>3, <4>1
    <3>. QED  BY <3>1, <3>2
  <2>. QED  BY <2>1 DEF Waiting
<1>. QED  BY <1>1, <1>2, <1>4, <1>5

(* Only an evaluation that has nothing left to do hands over its answer,    *)
(* and a file is loaded between evaluations.                                *)
WorkOK ==
  /\ asked # NULL => loading = NoEntries /\ (calling # NULL \/ stack # << >>)
  /\ IsFiniteSet(DOMAIN cacheFile) /\ IsFiniteSet(DOMAIN sourceFile)
  /\ IsFiniteSet(DOMAIN loading)

LEMMA WorkInit == Init => WorkOK
<1>1. DOMAIN NoEntries = {}
  BY DEF NoEntries
<1>. QED  BY <1>1, FS_EmptySet DEF Init, WorkOK

(* A value handed on leaves the call over, or a frame waiting for less.     *)
LEMMA DeliverLeaves ==
  ASSUME NEW v \in Values, NEW frames \in Seq(Frames), Deliver(v, frames)
  PROVE  /\ calling' = NULL
         /\ frames = << >> => asked' = NULL /\ stack' = << >>
         /\ frames # << >> => asked' = asked /\ stack' = Extended(frames, v) /\ stack' # << >>
<1>1. CASE frames = << >>
  BY <1>1 DEF Deliver
<1>2. CASE frames # << >>
  <2>1. asked' = asked /\ stack' = Extended(frames, v)
    BY <1>2 DEF Deliver, Extended
  <2>2. Len(Extended(frames, v)) = Len(frames) /\ Len(frames) # 0
    BY <1>2, ExtendedType
  <2>. QED  BY <1>2, <2>1, <2>2 DEF Deliver
<1>. QED  BY <1>1, <1>2

(* How a step can leave the evaluation in progress.                         *)
LEMMA EvaluationSteps ==
  ASSUME IInv, HitCompiled \/ HitTable \/ TakeAtom \/ ApplyOperator
  PROVE  /\ asked # NULL /\ loading' = loading
         /\ asked' = NULL \/ (asked' = asked /\ stack' # << >>)
<1>1. ASSUME NEW v \in Values, NEW frames \in Seq(Frames), Deliver(v, frames)
      PROVE  asked' = NULL \/ (asked' = asked /\ stack' # << >>)
  BY <1>1, DeliverLeaves
<1>2. ASSUME calling # NULL
      PROVE  stack \in Seq(Frames) /\ calling \in Nodes /\ asked # NULL
  BY <1>2 DEF IInv, ControlOK
<1>. DEFINE c == WithLookup(cache)
<1>3. /\ Table(c.table, Nodes, Values) /\ Table(c.compiled, Nodes, Values)
  BY LookupType DEF IInv, StoreOK, CacheType
<1>. HIDE DEF c
<1>4. CASE HitCompiled
  <2>1. calling # NULL /\ calling \in DOMAIN c.compiled /\ Deliver(c.compiled[calling], stack)
    BY <1>4 DEF HitCompiled, c
  <2>2. c.compiled[calling] \in Values
    BY <1>3, <2>1 DEF Table
  <2>. QED  BY <1>1, <1>2, <1>4, <2>1, <2>2 DEF HitCompiled
<1>5. CASE HitTable
  <2>1. calling # NULL /\ calling \in DOMAIN c.table /\ Deliver(c.table[calling], stack)
    BY <1>5 DEF HitTable, c
  <2>2. c.table[calling] \in Values
    BY <1>3, <2>1 DEF Table
  <2>. QED  BY <1>1, <1>2, <1>5, <2>1, <2>2 DEF HitTable
<1>6. CASE TakeAtom
  <2>. DEFINE v == AtomValue(NextArg, asked.env)
  <2>1. /\ Incomplete /\ ~IsNode(NextArg) /\ loading' = loading
        /\ IF v = ERROR THEN Signal ELSE Deliver(v, stack)
    BY <1>6 DEF TakeAtom
  <2>2. /\ stack \in Seq(Frames) /\ asked \in Asked /\ asked # NULL /\ Top \in Frames
        /\ Len(Top.args) + 1 \in 1 .. Len(Args[Top.node])
    BY <2>1, IncompleteFrame DEF IInv, ControlOK
  <2>3. v \in Values \cup {ERROR}
    BY <2>1, <2>2, AtomType DEF NextArg, Frames, Asked
  <2>. HIDE DEF v
  <2>4. asked' = NULL \/ (v \in Values /\ Deliver(v, stack))
    BY <2>1, <2>3 DEF Signal
  <2>. QED  BY <1>1, <2>1, <2>2, <2>4
<1>7. CASE ApplyOperator
  <2>. DEFINE op == Op[Top.node]
  <2>1. /\ Top \in Frames /\ stack # << >>
        /\ op \in Operators /\ Top.function \in Functions /\ Top.args \in Seq(Values)
        /\ Apply(op, Top.args) \in Values \cup {ERROR}
    BY <1>7, CompleteFrame DEF ApplyOperator, Frames
  <2>2. Outcomes(registry, Top.function, op, Top.args) \subseteq Values \cup {ERROR}
    BY <2>1, CallOK DEF IInv, StoreOK
  <2>3. PICK v \in Outcomes(registry, Top.function, op, Top.args) :
          Signal \/ (v # ERROR /\ Deliver(v, Popped(stack)))
    BY <1>7 DEF ApplyOperator, Popped
  <2>4. asked # NULL /\ Popped(stack) \in Seq(Frames)
    BY <2>1, PoppedChained DEF IInv, ControlOK
  <2>5. asked' = NULL \/ (v \in Values /\ Deliver(v, Popped(stack)))
    BY <2>2, <2>3 DEF Signal
  <2>6. loading' = loading
    BY <1>7 DEF ApplyOperator
  <2>. QED  BY <1>1, <2>4, <2>5, <2>6
<1>. QED  BY <1>4, <1>5, <1>6, <1>7

LEMMA WorkOKStep == IInv /\ WorkOK /\ [Next]_vars => WorkOK'
<1>. SUFFICES ASSUME IInv, WorkOK, [Next]_vars PROVE WorkOK'
  OBVIOUS
<1>1. IsFiniteSet({}) /\ DOMAIN NoEntries = {}
  BY FS_EmptySet DEF NoEntries
<1>2. IsFiniteSet(DOMAIN cacheFile') /\ IsFiniteSet(DOMAIN sourceFile')
  <2>1. CASE SaveCache
    BY <2>1 DEF SaveCache, WorkOK, IInv, StoreOK
  <2>2. ASSUME NEW n \in Nodes, NEW v \in Values, NEW r, RegistryOK(r), CacheSet(n, v, r)
        PROVE  IsFiniteSet(DOMAIN cacheFile') /\ IsFiniteSet(DOMAIN sourceFile')
    <3>1. IsFiniteSet(DOMAIN cache'.table)
      BY <2>2, CacheSetOK DEF IInv
    <3>2. sourceFile' = cache'.table \/ sourceFile' = sourceFile
      BY <2>2 DEF CacheSet, CountSet
    <3>3. cacheFile' = cacheFile
      BY <2>2 DEF CacheSet
    <3>. QED  BY <3>1, <3>2, <3>3 DEF WorkOK
  <2>3. CASE ApplyOperator
    <3>. DEFINE op == Op[Top.node]
                r == AfterCall(registry, Top.function, op, Top.args)
    <3>1. /\ Top \in Frames
          /\ op \in Operators /\ Top.function \in Functions /\ Top.args \in Seq(Values)
          /\ Apply(op, Top.args) \in Values \cup {ERROR}
      BY <2>3, CompleteFrame DEF ApplyOperator, Frames
    <3>2. /\ RegistryOK(r)
          /\ Outcomes(registry, Top.function, op, Top.args) \subseteq Values \cup {ERROR}
      BY <3>1, CallOK DEF IInv, StoreOK
    <3>3. PICK v \in Outcomes(registry, Top.function, op, Top.args) :
            IF v = ERROR THEN UNCHANGED files ELSE CacheSet(Top.node, v, r)
      BY <2>3 DEF ApplyOperator
    <3>. HIDE DEF op, r
    <3>4. CASE v = ERROR
      BY <3>3, <3>4 DEF files, WorkOK
    <3>5. CASE v # ERROR
      <4>1. v \in Values /\ Top.node \in Nodes /\ CacheSet(Top.node, v, r)
        BY <3>1, <3>2, <3>3, <3>5 DEF Frames
      <4>. QED  BY <2>2, <3>2, <4>1
    <3>. QED  BY <3>4, <3>5
  <2>4. CASE \E n \in DOMAIN loading : LoadEntry(n)
    <3>1. PICK n \in DOMAIN loading : CacheSet(n, loading[n], registry)
      BY <2>4 DEF LoadEntry
    <3>2. n \in Nodes /\ loading[n] \in Values /\ RegistryOK(registry)
      BY DEF IInv, StoreOK, Table
    <3>. QED  BY <2>2, <3>1, <3>2
  <2>5. CASE UNCHANGED files
    BY <2>5 DEF files, WorkOK
  <2>. QED
    BY <2>1, <2>3, <2>4, <2>5 DEF Next, Request, Work, Evaluate, ClearCache, Configure,
       LoadFile, HitCompiled, HitTable, Miss, TakeAtom, Descend, Restart, vars
<1>3. CASE asked' = asked /\ calling' = calling /\ stack' = stack /\ loading' = loading
  BY <1>2, <1>3 DEF WorkOK
<1>4. CASE asked' = NULL /\ loading' = loading
  BY <1>2, <1>4 DEF WorkOK
<1>5. ASSUME NEW n \in Nodes, NEW e \in Envs, Evaluate(n, e) PROVE WorkOK'
  <2>1. n # NULL
    BY CalculatorAssumption
  <2>. QED  BY <1>2, <1>5, <2>1 DEF Evaluate, Idle, WorkOK
<1>6. CASE HitCompiled \/ HitTable \/ TakeAtom \/ ApplyOperator
  <2>1. /\ asked # NULL /\ loading' = loading
        /\ asked' = NULL \/ (asked' = asked /\ stack' # << >>)
    BY <1>6, EvaluationSteps
  <2>. QED  BY <1>2, <2>1 DEF WorkOK
<1>7. CASE Miss
  <2>1. stack \in Seq(Frames) /\ \E f : stack' = Append(stack, f)
    BY <1>7 DEF Miss, IInv, ControlOK
  <2>2. stack' # << >>
    BY <2>1
  <2>. QED  BY <1>2, <1>7, <2>2 DEF Miss, WorkOK
<1>8. CASE Descend
  <2>1. stack' = stack /\ asked' = asked /\ loading' = loading /\ stack # << >>
    BY <1>8 DEF Descend, Incomplete, Evaluating
  <2>. QED  BY <1>2, <2>1 DEF WorkOK
<1>9. CASE LoadFile
  <2>1. asked' = NULL /\ loading' \in {cacheFile, sourceFile}
    BY <1>9 DEF LoadFile, control, Idle
  <2>. QED  BY <1>2, <2>1 DEF WorkOK
<1>10. ASSUME NEW n \in DOMAIN loading, LoadEntry(n) PROVE WorkOK'
  <2>1. loading' \in {NoEntries, Without(loading, n)} /\ asked' = asked
    BY <1>10 DEF LoadEntry, control
  <2>2. asked = NULL
    BY <1>1 DEF WorkOK
  <2>3. IsFiniteSet(DOMAIN Without(loading, n))
    BY FiniteTables DEF WorkOK
  <2>. QED  BY <1>1, <1>2, <2>1, <2>2, <2>3 DEF WorkOK
<1>11. CASE Restart
  BY <1>1, <1>2, <1>11 DEF Restart, WorkOK
<1>. QED
  BY <1>3, <1>5, <1>6, <1>7, <1>8, <1>9, <1>10, <1>11
     DEF Next, Request, Work, ClearCache, Configure, SaveCache, control, vars

(* What is left to do is a number, whatever the state of the call.          *)
LEMMA WorkParts ==
  ASSUME IInv, WorkOK, NEW cost, IsCost(cost)
  PROVE  /\ calling # NULL =>
              /\ Suspended(cost, stack) \in Nat /\ cost[calling][0] \in Nat \ {0}
              /\ WorkLeft(cost) = Suspended(cost, stack) + cost[calling][0] + 1
         /\ calling = NULL /\ stack # << >> =>
              /\ Suspended(cost, Popped(stack)) \in Nat
              /\ cost[Top.node][Len(Top.args)] \in Nat \ {0}
              /\ WorkLeft(cost) = Suspended(cost, Popped(stack)) + cost[Top.node][Len(Top.args)]
         /\ calling = NULL /\ stack = << >> =>
              WorkLeft(cost) = Cardinality(DOMAIN loading) /\ WorkLeft(cost) \in Nat
         /\ WorkLeft(cost) \in Nat
<1>1. stack \in Seq(Frames) /\ Chained(stack)
  BY DEF IInv, ControlOK
<1>2. CASE calling # NULL
  <2>1. calling \in Nodes /\ (stack # << >> => Len(Last(stack).args) < Len(Args[Last(stack).node]))
    BY <1>2 DEF IInv, ControlOK, Expects, Top, Last
  <2>2. Suspended(cost, stack) \in Nat
    <3>1. CASE stack = << >>
      <4>1. Waiting(stack)
        BY <3>1 DEF Waiting
      <4>. QED  BY <1>1, <4>1, SuspendedType
    <3>2. CASE stack # << >>
      BY <1>1, <2>1, <3>2, ChainedWaiting, SuspendedType
    <3>. QED  BY <3>1, <3>2
  <2>3. Len(Args[calling]) \in Nat
    BY <2>1, CalculatorAssumption
  <2>4. cost[calling][0] \in Nat \ {0}
    <3>1. 0 \in 0 .. Len(Args[calling])
      BY <2>3
    <3>. QED  BY <2>1, <3>1 DEF IsCost
  <2>5. WorkLeft(cost) = Suspended(cost, stack) + cost[calling][0] + 1
    BY <1>2 DEF WorkLeft
  <2>. QED  BY <1>2, <2>2, <2>4, <2>5
<1>3. CASE calling = NULL /\ stack # << >>
  <2>1. Waiting(Popped(stack)) /\ Popped(stack) \in Seq(Frames)
    BY <1>1, <1>3, ChainedWaiting, PoppedChained
  <2>2. Suspended(cost, Popped(stack)) \in Nat
    BY <2>1, SuspendedType
  <2>3. Top.node \in Nodes /\ Len(Top.args) \in 0 .. Len(Args[Top.node])
    BY <1>1, <1>3, ChainedWaiting DEF Top, Last
  <2>4. cost[Top.node][Len(Top.args)] \in Nat \ {0}
    BY <2>3 DEF IsCost
  <2>5. WorkLeft(cost) = Suspended(cost, Popped(stack)) + cost[Top.node][Len(Top.args)]
    BY <1>3 DEF WorkLeft
  <2>. QED  BY <1>3, <2>2, <2>4, <2>5
<1>4. CASE calling = NULL /\ stack = << >>
  BY <1>4, FS_CardinalityType DEF WorkLeft, WorkOK
<1>. QED  BY <1>2, <1>3, <1>4

(* A value handed to the innermost frame leaves what the frames wait for.   *)
LEMMA DeliverWork ==
  ASSUME NEW cost, IsCost(cost), NEW v \in Values,
         NEW frames \in Seq(Frames), frames # << >>, Chained(frames),
         Len(Last(frames).args) < Len(Args[Last(frames).node]), Deliver(v, frames)
  PROVE  WorkLeft(cost)' = Suspended(cost, frames)
<1>. DEFINE new == Extended(frames, v)
            N == Len(frames)
<1>1. calling' = NULL /\ stack' = new /\ new # << >>
  BY DeliverLeaves
<1>2. /\ new \in Seq(Frames) /\ Len(new) = N /\ Chained(new)
      /\ \A i \in 1 .. N : new[i].node = frames[i].node
      /\ \A i \in 1 .. N - 1 : new[i] = frames[i]
      /\ new[N].args = Append(Last(frames).args, v)
  BY ExtendedType, ExtendedChained DEF Last
<1>3. N \in 1 .. N /\ Last(frames) = frames[N] /\ Last(frames) \in Frames
  BY DEF Last
<1>4. Last(new) = new[N]
  BY <1>2 DEF Last
<1>. HIDE DEF new
<1>5. Suspended(cost, Popped(new)) = Suspended(cost, Popped(frames))
  <2>1. /\ Popped(new) \in Seq(Frames) /\ Len(Popped(new)) = N - 1
        /\ \A i \in 1 .. N - 1 : Popped(new)[i] = new[i]
    BY <1>1, <1>2, PoppedChained
  <2>2. /\ Popped(frames) \in Seq(Frames) /\ Len(Popped(frames)) = N - 1
        /\ \A i \in 1 .. N - 1 : Popped(frames)[i] = frames[i]
    BY PoppedChained
  <2>3. \A i \in 1 .. Len(Popped(new)) : Popped(new)[i] = Popped(frames)[i]
    BY <1>2, <2>1, <2>2
  <2>. QED  BY <2>1, <2>2, <2>3, SuspendedAgree
<1>6. Last(new).node = Last(frames).node /\ Len(Last(new).args) = Len(Last(frames).args) + 1
  <2>1. Last(frames).args \in Seq(Values)
    BY <1>3 DEF Frames
  <2>. QED  BY <1>2, <1>3, <1>4, <2>1
<1>7. WorkLeft(cost)' = Suspended(cost, Popped(new)) + cost[Last(new).node][Len(Last(new).args)]
  BY <1>1 DEF WorkLeft, Top, Last
<1>8. Waiting(frames)
  BY ChainedWaiting
<1>. QED  BY <1>5, <1>6, <1>7, <1>8, SuspendedLast

(* The state an evaluation starts in.                                       *)
LEMMA EvaluateWork ==
  ASSUME IInv, NEW cost, NEW n \in Nodes, NEW e \in Envs, Evaluate(n, e), IsCost(cost)
  PROVE  WorkLeft(cost)' = cost[n][0] + 1
<1>1. n # NULL /\ Len(Args[n]) \in Nat
  BY CalculatorAssumption
<1>2. stack' = << >> /\ calling' = n
  BY DEF Evaluate, Idle, IInv, ControlOK
<1>3. Suspended(cost, << >>) = 0
  <2>1. Len(<< >>) = 0
    OBVIOUS
  <2>. QED  BY <2>1, NoUnits DEF Suspended
<1>4. cost[n][0] \in Nat
  <2>1. 0 \in 0 .. Len(Args[n])
    BY <1>1
  <2>. QED  BY <2>1 DEF IsCost
<1>. QED  BY <1>1, <1>2, <1>3, <1>4 DEF WorkLeft

(* Every step of a call that is not its last leaves less to do.             *)
LEMMA WorkStep ==
  ASSUME IInv, WorkOK, WorkOK', NEW cost, IsCost(cost), Work, ~Idle'
  PROVE  WorkLeft(cost)' < WorkLeft(cost)
<1>. DEFINE S == Suspended(cost, stack)
            P == Suspended(cost, Popped(stack))
            k == Len(Top.args)
            c == WithLookup(cache)
<1>1. /\ Table(c.table, Nodes, Values) /\ Table(c.compiled, Nodes, Values)
  BY LookupType DEF IInv, StoreOK, CacheType
<1>. HIDE DEF c
<1>2. stack \in Seq(Frames) /\ Chained(stack)
  BY DEF IInv, ControlOK
<1>3. asked # NULL /\ loading' = loading => asked' # NULL
  BY DEF Idle, WorkOK
<1>4. ASSUME calling # NULL
      PROVE  /\ asked # NULL /\ calling \in Nodes
             /\ S \in Nat /\ cost[calling][0] \in Nat \ {0}
             /\ WorkLeft(cost) = S + cost[calling][0] + 1
             /\ stack # << >> => Len(Last(stack).args) < Len(Args[Last(stack).node])
  BY <1>4, WorkParts DEF IInv, ControlOK, Expects, Top, Last
<1>5. ASSUME Evaluating
      PROVE  /\ P \in Nat /\ cost[Top.node][k] \in Nat \ {0}
             /\ WorkLeft(cost) = P + cost[Top.node][k]
             /\ Top = Last(stack) /\ Top.node \in Nodes /\ stack # << >>
  BY <1>2, <1>5, WorkParts, ChainedWaiting DEF Evaluating, Top, Last
(* While an argument is missing: what the frames wait for once it is there. *)
<1>6. ASSUME Incomplete
      PROVE  /\ asked # NULL /\ S \in Nat /\ S = P + cost[Top.node][k + 1]
             /\ cost[Top.node][k + 1] \in Nat /\ cost[Top.node][k] \in Nat
             /\ k < Len(Args[Top.node])
             /\ k + 1 \in 1 .. Len(Args[Top.node])
             /\ cost[Top.node][k] > cost[Top.node][k + 1]
                  + IF IsNode(NextArg) THEN cost[NextArg.node][0] + 1 ELSE 0
  <2>1. /\ stack # << >> /\ asked # NULL /\ Top = Last(stack) /\ Top \in Frames
        /\ k + 1 \in 1 .. Len(Args[Top.node])
    BY <1>6, IncompleteFrame
  <2>2. Top.node \in Nodes /\ k \in Nat /\ Len(Args[Top.node]) \in Nat
    BY <2>1, CalculatorAssumption DEF Frames
  <2>3. Waiting(stack)
    BY <1>2, <1>6, <2>1, ChainedWaiting DEF Incomplete
  <2>4. S \in Nat /\ S = P + cost[Top.node][k + 1]
    BY <1>2, <2>1, <2>3, SuspendedType, SuspendedLast
  <2>. HIDE DEF k, S, P
  <2>5. k \in 0 .. Len(Args[Top.node]) /\ k + 1 \in 0 .. Len(Args[Top.node])
        /\ k \in 0 .. Len(Args[Top.node]) - 1
    BY <2>1, <2>2
  <2>6. cost[Top.node][k] \in Nat \ {0} /\ cost[Top.node][k + 1] \in Nat \ {0}
    BY <2>2, <2>5 DEF IsCost
  <2>7. cost[Top.node][k] > cost[Top.node][k + 1]
          + IF IsNode(Args[Top.node][k + 1]) THEN cost[Args[Top.node][k + 1].node][0] + 1 ELSE 0
    BY <2>2, <2>5 DEF IsCost
  <2>8. NextArg = Args[Top.node][k + 1]
    BY DEF NextArg, k
  <2>9. k < Len(Args[Top.node])
    BY <1>6 DEF Incomplete, k
  <2>. QED  BY <2>1, <2>4, <2>6, <2>7, <2>8, <2>9
<1>7. ASSUME NEW v \in Values, NEW frames \in Seq(Frames), Deliver(v, frames), Chained(frames),
             frames # << >> => Len(Last(frames).args) < Len(Args[Last(frames).node]),
             asked # NULL, loading' = loading
      PROVE  frames # << >> /\ WorkLeft(cost)' = Suspended(cost, frames)
  <2>1. frames # << >>
    BY <1>3, <1>7, DeliverLeaves
  <2>. QED  BY <1>7, <2>1, DeliverWork
<1>8. CASE HitCompiled
  <2>1. /\ calling # NULL /\ calling \in DOMAIN c.compiled /\ Deliver(c.compiled[calling], stack)
        /\ loading' = loading
    BY <1>8 DEF HitCompiled, c
  <2>2. c.compiled[calling] \in Values
    BY <1>1, <2>1 DEF Table
  <2>3. WorkLeft(cost)' = S
    BY <1>2, <1>4, <1>7, <2>1, <2>2
  <2>. HIDE DEF S
  <2>. QED  BY <1>4, <2>1, <2>3
<1>9. CASE HitTable
  <2>1. /\ calling # NULL /\ calling \in DOMAIN c.table /\ Deliver(c.table[calling], stack)
        /\ loading' = loading
    BY <1>9 DEF HitTable, c
  <2>2. c.table[calling] \in Values
    BY <1>1, <2>1 DEF Table
  <2>3. WorkLeft(cost)' = S
    BY <1>2, <1>4, <1>7, <2>1, <2>2
  <2>. HIDE DEF S
  <2>. QED  BY <1>4, <2>1, <2>3
<1>10. CASE Miss
  <2>. DEFINE f == Fresh(calling, registry.installed[Op[calling]])
              new == Append(stack, f)
  <2>1. calling # NULL /\ calling' = NULL /\ stack' = new
    BY <1>10 DEF Miss, Fresh
  <2>2. calling \in Nodes /\ (stack # << >> => Expects(Last(stack), calling))
    BY <2>1 DEF IInv, ControlOK, Top, Last
  <2>3. new \in Seq(Frames) /\ Chained(new)
    BY <1>2, <2>2, FetchedFunction, PushedChained
  <2>4. f.node = calling /\ Len(f.args) = 0
    BY <2>2, FetchedFunction, FreshType
  <2>. HIDE DEF f
  <2>5. /\ Len(new) = Len(stack) + 1 /\ new # << >> /\ new[Len(new)] = f
        /\ \A i \in 1 .. Len(stack) : new[i] = stack[i]
    BY <1>2
  <2>. HIDE DEF new
  <2>6. /\ Popped(new) \in Seq(Frames) /\ Len(Popped(new)) = Len(stack)
        /\ \A i \in 1 .. Len(stack) : Popped(new)[i] = stack[i]
    <3>1. Len(new) - 1 = Len(stack)
      BY <1>2, <2>5
    <3>. QED  BY <2>3, <2>5, <3>1, PoppedChained
  <2>7. Suspended(cost, Popped(new)) = S
    BY <1>2, <2>6, SuspendedAgree
  <2>8. WorkLeft(cost)' = S + cost[calling][0]
    BY <2>1, <2>4, <2>5, <2>7 DEF WorkLeft, Top
  <2>. HIDE DEF S
  <2>. QED  BY <1>4, <2>1, <2>8
<1>11. CASE TakeAtom
  <2>. DEFINE v == AtomValue(NextArg, asked.env)
  <2>1. /\ Incomplete /\ ~IsNode(NextArg) /\ loading' = loading
        /\ IF v = ERROR THEN Signal ELSE Deliver(v, stack)
    BY <1>11 DEF TakeAtom
  <2>2. /\ asked \in Asked /\ Top \in Frames /\ Top = Last(stack)
    BY <2>1, IncompleteFrame
  <2>3. v \in Values \cup {ERROR}
    BY <1>6, <2>1, <2>2, AtomType DEF NextArg, Frames, Asked
  <2>. HIDE DEF v
  <2>4. v \in Values /\ Deliver(v, stack)
    BY <1>3, <1>6, <2>1, <2>3 DEF Signal
  <2>5. Len(Last(stack).args) < Len(Args[Last(stack).node])
    BY <1>6, <2>1, <2>2
  <2>6. WorkLeft(cost)' = S
    BY <1>2, <1>6, <1>7, <2>1, <2>4, <2>5
  <2>7. Evaluating
    BY <2>1 DEF Incomplete
  <2>. HIDE DEF S, P, k
  <2>. QED  BY <1>5, <1>6, <2>1, <2>6, <2>7
<1>12. CASE Descend
  <2>1. /\ Incomplete /\ IsNode(NextArg) /\ calling' = NextArg.node /\ stack' = stack
    BY <1>12 DEF Descend
  <2>2. Evaluating
    BY <2>1 DEF Incomplete
  <2>3. NextArg.node \in Nodes
    BY <1>5, <1>6, <2>1, <2>2, CalculatorAssumption DEF NextArg, IsNode, IsConstant
  <2>4. NextArg.node # NULL /\ Len(Args[NextArg.node]) \in Nat
    BY <2>3, CalculatorAssumption
  <2>5. cost[NextArg.node][0] \in Nat
    <3>1. 0 \in 0 .. Len(Args[NextArg.node])
      BY <2>4
    <3>. QED  BY <2>3, <3>1 DEF IsCost
  <2>6. WorkLeft(cost)' = S + cost[NextArg.node][0] + 1
    BY <2>1, <2>4 DEF WorkLeft
  <2>7. cost[Top.node][k] > cost[Top.node][k + 1] + (cost[NextArg.node][0] + 1)
    BY <1>6, <2>1
  <2>. HIDE DEF S, P, k
  <2>8. /\ P \in Nat /\ cost[Top.node][k] \in Nat /\ cost[Top.node][k + 1] \in Nat
        /\ S = P + cost[Top.node][k + 1] /\ WorkLeft(cost) = P + cost[Top.node][k]
    BY <1>5, <1>6, <2>1, <2>2
  <2>. QED  BY <2>5, <2>6, <2>7, <2>8
<1>13. CASE ApplyOperator
  <2>. DEFINE op == Op[Top.node]
  <2>1. /\ Evaluating /\ ~Incomplete /\ loading' = loading
    BY <1>13 DEF ApplyOperator
  <2>2. /\ Top \in Frames /\ Top = Last(stack) /\ stack # << >>
        /\ op \in Operators /\ Top.function \in Functions /\ Top.args \in Seq(Values)
        /\ Apply(op, Top.args) \in Values \cup {ERROR}
    BY <2>1, CompleteFrame DEF Frames
  <2>3. Outcomes(registry, Top.function, op, Top.args) \subseteq Values \cup {ERROR}
    BY <2>2, CallOK DEF IInv, StoreOK
  <2>4. PICK v \in Outcomes(registry, Top.function, op, Top.args) :
          Signal \/ (v # ERROR /\ Deliver(v, Popped(stack)))
    BY <1>13 DEF ApplyOperator, Popped
  <2>5. asked # NULL
    BY <2>2 DEF IInv, ControlOK
  <2>6. v \in Values /\ Deliver(v, Popped(stack))
    BY <1>3, <2>1, <2>3, <2>4, <2>5 DEF Signal
  <2>7. /\ Popped(stack) \in Seq(Frames) /\ Chained(Popped(stack))
        /\ Popped(stack) # << >> =>
             Len(Last(Popped(stack)).args) < Len(Args[Last(Popped(stack)).node])
    BY <1>2, <2>2, PoppedChained DEF Expects
  <2>8. WorkLeft(cost)' = P
    BY <1>7, <2>1, <2>5, <2>6, <2>7
  <2>. HIDE DEF P, k
  <2>. QED  BY <1>5, <2>1, <2>8
<1>14. ASSUME NEW n \in DOMAIN loading, LoadEntry(n)
       PROVE  WorkLeft(cost)' < WorkLeft(cost)
  <2>1. loading' = NoEntries \/ loading' = Without(loading, n)
    BY <1>14 DEF LoadEntry
  <2>2. DOMAIN NoEntries = {}
    BY DEF NoEntries
  <2>3. asked = NULL
    BY <2>2 DEF WorkOK
  <2>4. /\ calling = NULL /\ stack = << >>
        /\ asked' = NULL /\ calling' = NULL /\ stack' = << >>
    BY <1>14, <2>3 DEF LoadEntry, control, IInv, ControlOK
  <2>5. loading' = Without(loading, n)
    BY <2>1, <2>4 DEF Idle
  <2>6. /\ Cardinality(DOMAIN Without(loading, n)) = Cardinality(DOMAIN loading) - 1
        /\ Cardinality(DOMAIN loading) \in Nat
    BY FiniteTables DEF WorkOK
  <2>7. /\ WorkLeft(cost) = Cardinality(DOMAIN loading)
        /\ WorkLeft(cost)' = Cardinality(DOMAIN Without(loading, n))
    BY <2>4, <2>5 DEF WorkLeft
  <2>. QED  BY <2>6, <2>7
<1>. QED
  BY <1>8, <1>9, <1>10, <1>11, <1>12, <1>13, <1>14 DEF Work

(* Between an evaluation asked and its answer there are no more steps than  *)
(* its cost, ...                                                            *)
WithinCost(cost) ==
  ~Idle => /\ WorkLeft(cost) \in Nat
           /\ asked # NULL => WorkLeft(cost) <= cost[asked.node][0] + 1

LEMMA WithinCostStep ==
  ASSUME IInv, WorkOK, IInv', WorkOK', NEW cost, IsCost(cost), WithinCost(cost), [Next]_vars,
         WorkLeft(cost)' \in Nat
  PROVE  /\ WithinCost(cost)'
         /\ ~Idle /\ ~Idle' => UNCHANGED vars \/ WorkLeft(cost)' < WorkLeft(cost)
<1>1. CASE UNCHANGED vars
  <2>1. /\ asked' = asked /\ calling' = calling /\ stack' = stack /\ loading' = loading
    BY <1>1 DEF vars, control
  <2>. QED  BY <1>1, <2>1 DEF WithinCost, WorkLeft, Idle, Top
<1>2. CASE Restart
  <2>1. Idle'
    BY <1>2 DEF Restart, Idle
  <2>. QED  BY <2>1 DEF WithinCost
<1>3. ASSUME NEW n \in Nodes, NEW e \in Envs, Evaluate(n, e)
      PROVE  Idle /\ WithinCost(cost)'
  <2>1. WorkLeft(cost)' = cost[n][0] + 1
    BY <1>3, EvaluateWork
  <2>2. asked'.node = n
    BY <1>3 DEF Evaluate
  <2>3. n \in Nodes /\ Len(Args[n]) \in Nat
    BY CalculatorAssumption
  <2>4. cost[n][0] \in Nat
    <3>1. 0 \in 0 .. Len(Args[n])
      BY <2>3
    <3>. QED  BY <3>1 DEF IsCost
  <2>. QED  BY <1>3, <2>1, <2>2, <2>4 DEF Evaluate, WithinCost
<1>4. CASE ClearCache \/ SaveCache \/ LoadFile \/ \E l \in Levels : Configure(l)
  <2>1. Idle /\ asked' = NULL
    BY <1>4 DEF ClearCache, SaveCache, LoadFile, Configure, control, Idle
  <2>. QED  BY <2>1 DEF WithinCost
<1>5. CASE Work /\ Idle'
  BY <1>5 DEF WithinCost
<1>6. CASE Work /\ ~Idle'
  <2>1. WorkLeft(cost)' < WorkLeft(cost)
    BY <1>6, WorkStep
  <2>2. ~Idle
    <3>1. DOMAIN NoEntries = {}
      BY DEF NoEntries
    <3>2. calling # NULL \/ stack # << >> => asked # NULL
      BY DEF IInv, ControlOK
    <3>. QED
      BY <1>6, <3>1, <3>2 DEF Work, HitCompiled, HitTable, Miss, TakeAtom, Descend,
         ApplyOperator, Incomplete, Evaluating, Idle
  <2>3. asked' = NULL \/ asked' = asked
    BY <1>6, EvaluationSteps DEF Work, Miss, Descend, LoadEntry, control
  <2>4. asked # NULL => cost[asked.node][0] \in Nat
    <3>1. ASSUME asked # NULL PROVE asked.node \in Nodes /\ 0 \in 0 .. Len(Args[asked.node])
      BY <3>1, CalculatorAssumption DEF IInv, ControlOK, Asked
    <3>. QED  BY <3>1 DEF IsCost
  <2>. QED  BY <2>1, <2>2, <2>3, <2>4 DEF WithinCost
<1>. QED  BY <1>1, <1>2, <1>3, <1>4, <1>5, <1>6 DEF Next, Request

(* ... each leaving less to do.  With the fairness of Work, and the theorem *)
(* that there always is a step to take, this is why every call returns.     *)
THEOREM CallsTakeFiniteTime ==
  ASSUME NEW cost, IsCost(cost)
  PROVE  Spec => /\ []WithinCost(cost)
                 /\ [][~Idle /\ ~Idle' => WorkLeft(cost)' < WorkLeft(cost)]_vars
<1>. DEFINE Within == WithinCost(cost)
            Number == WorkLeft(cost) \in Nat
            Less == ~Idle /\ ~Idle' => WorkLeft(cost)' < WorkLeft(cost)
<1>1. IInv /\ WorkOK => Number
  BY WorkParts
<1>2. Init => Within
  BY DEF Init, Idle, WithinCost
<1>3. IInv /\ WorkOK /\ Within /\ IInv' /\ WorkOK' /\ Number' /\ [Next]_vars
        => Within' /\ [Less]_vars
  BY WithinCostStep
<1>4. Spec => []IInv
  BY Invariance
<1>5. Spec => []WorkOK
  BY <1>4, WorkInit, WorkOKStep, PTL DEF Spec
<1>. HIDE DEF Within, Number, Less
<1>6. Spec => []Number
  BY <1>1, <1>4, <1>5, PTL
<1>7. Spec => []Within /\ [][Less]_vars
  BY <1>2, <1>3, <1>4, <1>5, <1>6, PTL DEF Spec
<1>. QED  BY <1>7 DEF Within, Less

-----------------------------------------------------------------------------
(* Every non-empty set of natural numbers has a least element.  The theorem *)
(* on finite subsets gives it, where the library's own takes an operator.   *)
LEMMA LeastNatural ==
  ASSUME NEW T \in SUBSET Nat, T # {}
  PROVE  \E x \in T : \A y \in T : x <= y
<1>. DEFINE K == {0 .. n - 1 : n \in T}
<1>1. IsWellFoundedOn(StrictSubsetOrdering(Nat), FiniteSubsetsOf(Nat))
  BY FS_StrictSubsetOrderingWellFounded
<1>2. \A n \in T : IsFiniteSet(0 .. n - 1) /\ 0 .. n - 1 \in SUBSET Nat
  BY FS_Interval
<1>3. K \subseteq FiniteSubsetsOf(Nat) /\ K # {}
  BY <1>2 DEF FiniteSubsetsOf
<1>. HIDE DEF K
<1>4. PICK k \in K : \A l \in K : ~(<<l, k>> \in StrictSubsetOrdering(Nat))
  BY <1>1, <1>3, WFMin
<1>5. PICK x \in T : k = 0 .. x - 1
  BY DEF K
<1>6. ASSUME NEW y \in T, y < x
      PROVE  FALSE
  <2>1. 0 .. y - 1 \in K /\ ~(<<0 .. y - 1, k>> \in StrictSubsetOrdering(Nat))
    BY <1>4 DEF K
  <2>2. 0 .. y - 1 \in SUBSET Nat /\ k \in SUBSET Nat /\ 0 .. y - 1 \subseteq k
    BY <1>5, <1>6
  <2>3. y \in k /\ y \notin 0 .. y - 1
    BY <1>5, <1>6
  <2>. QED  BY <2>1, <2>2, <2>3 DEF StrictSubsetOrdering
<1>. QED  BY <1>6

(* A full cache has an entry to evict.                                      *)
LEMMA StoreSucceeds ==
  ASSUME NEW c, CacheType(c, Values), NEW n, NEW v, IsFiniteSet(DOMAIN c.table)
  PROVE  Stored(c, n, v) # {}
<1>. DEFINE T == {Stamp(c, m) : m \in DOMAIN c.table}
<1>1. CASE ~Full(c) \/ n \in DOMAIN c.table
  BY <1>1 DEF Stored
<1>2. CASE Full(c) /\ n \notin DOMAIN c.table
  <2>1. DOMAIN c.table # {}
    <3>1. Cardinality({}) = 0
      BY FS_EmptySet
    <3>. QED  BY <1>2, <3>1, CacheAssumption DEF Full, Size
  <2>2. \A m \in DOMAIN c.table : Stamp(c, m) \in Nat
    BY DEF Stamp, CacheType, Table
  <2>3. T \in SUBSET Nat /\ T # {}
    BY <2>1, <2>2
  <2>4. PICK x \in T : \A y \in T : x <= y
    BY <2>3, LeastNatural
  <2>5. PICK m \in DOMAIN c.table : x = Stamp(c, m)
    OBVIOUS
  <2>6. m \in Oldest(c)
    BY <2>4, <2>5 DEF Oldest
  <2>. QED  BY <1>2, <2>6 DEF Stored
<1>. QED  BY <1>1, <1>2

(* There is something to do: an expression to look up, an argument to       *)
(* take, an operator to apply, or an entry to load, and room for what is    *)
(* to be stored.                                                            *)
SomethingToDo ==
  \/ calling # NULL
  \/ Incomplete
  \/ /\ Evaluating /\ ~Incomplete
     /\ \E v \in Outcomes(registry, Top.function, Op[Top.node], Top.args) :
          v = ERROR \/ Stored(cache, Top.node, v) # {}
  \/ \E n \in DOMAIN loading : Stored(cache, n, loading[n]) # {}

(* A call in progress always has a step to take, whatever the cache, its    *)
(* bound, the registry and the file being loaded are.                       *)
THEOREM CallsNeverStall == Spec => [](~Idle => SomethingToDo)
<1>1. IInv /\ WorkOK /\ ~Idle => SomethingToDo
  <2>. SUFFICES ASSUME IInv, WorkOK, ~Idle PROVE SomethingToDo
    OBVIOUS
  <2>1. CacheType(cache, Values) /\ IsFiniteSet(DOMAIN cache.table)
    BY DEF IInv, StoreOK
  <2>2. CASE asked = NULL
    <3>1. Table(loading, Nodes, Values) /\ loading # NoEntries
      BY <2>2 DEF Idle, IInv, StoreOK
    <3>2. DOMAIN loading # {}
      BY <3>1 DEF Table, NoEntries
    <3>. QED  BY <2>1, <3>2, StoreSucceeds DEF SomethingToDo
  <2>3. CASE asked # NULL
    <3>1. calling # NULL \/ Evaluating
      BY <2>3 DEF WorkOK, Evaluating
    <3>2. \E v : v \in Outcomes(registry, Top.function, Op[Top.node], Top.args)
      BY DEF Outcomes
    <3>. QED  BY <2>1, <3>1, <3>2, StoreSucceeds DEF SomethingToDo
  <2>. QED  BY <2>2, <2>3
<1>2. Spec => []IInv
  BY Invariance
<1>. QED  BY <1>1, <1>2, WorkInit, WorkOKStep, PTL DEF Spec

-----------------------------------------------------------------------------
(* What an expression means depends on nothing but the values of the        *)
(* variables in it: two bindings that agree on all atoms of some            *)
(* expressions, whose parts are again among them, give them one meaning.    *)
(* Expressions without variables are therefore steady, and so are those     *)
(* whose variables have one value in all bindings.  The heights say that    *)
(* expressions are finite trees.                                            *)
THEOREM MeaningsDependOnVariables ==
  ASSUME NEW height \in [Nodes -> Nat], NEW parts \in SUBSET Nodes,
         NEW e \in Envs, NEW f \in Envs,
         \A n \in parts : \A i \in 1 .. Len(Args[n]) :
           LET a == Args[n][i] IN
           IF IsNode(a) THEN a.node \in parts /\ height[a.node] < height[n]
           ELSE AtomValue(a, e) = AtomValue(a, f)
  PROVE  \A n \in parts : Meaning[n][e] = Meaning[n][f]
<1>. DEFINE Bad == {n \in parts : Meaning[n][e] # Meaning[n][f]}
            T == {height[n] : n \in Bad}
<1>. SUFFICES ASSUME Bad # {} PROVE FALSE
  OBVIOUS
<1>1. T \in SUBSET Nat /\ T # {}
  OBVIOUS
<1>2. PICK x \in T : \A y \in T : x <= y
  BY <1>1, LeastNatural
<1>3. PICK n \in Bad : x = height[n]
  OBVIOUS
<1>4. n \in parts /\ n \in Nodes /\ Meaning[n][e] # Meaning[n][f] /\ height[n] \in Nat
  OBVIOUS
<1>5. ASSUME NEW m \in parts, height[m] < height[n]
      PROVE  Meaning[m][e] = Meaning[m][f]
  <2>1. m \in Bad => height[m] \in T
    OBVIOUS
  <2>2. height[m] \in Nat
    OBVIOUS
  <2>. HIDE DEF T
  <2>3. m \notin Bad
    BY <1>2, <1>3, <1>4, <1>5, <2>1, <2>2
  <2>. QED  BY <2>3
<1>6. ASSUME NEW i \in 1 .. Len(Args[n])
      PROVE  ArgMeaning(Args[n][i], e) = ArgMeaning(Args[n][i], f)
  <2>1. CASE IsNode(Args[n][i])
    BY <1>4, <1>5, <2>1 DEF ArgMeaning
  <2>2. CASE ~IsNode(Args[n][i])
    BY <1>4, <2>2 DEF ArgMeaning
  <2>. QED  BY <2>1, <2>2
<1>7. ArgMeanings(n, e) = ArgMeanings(n, f)
  BY <1>6 DEF ArgMeanings
<1>8. /\ Meaning[n][e] = IF \E i \in 1 .. Len(Args[n]) : ArgMeanings(n, e)[i] = ERROR THEN ERROR
                         ELSE Apply(Op[n], ArgMeanings(n, e))
      /\ Meaning[n][f] = IF \E i \in 1 .. Len(Args[n]) : ArgMeanings(n, f)[i] = ERROR THEN ERROR
                         ELSE Apply(Op[n], ArgMeanings(n, f))
  BY <1>4, CalculatorAssumption
<1>. QED  BY <1>4, <1>7, <1>8
=============================================================================
