---------------------------- MODULE ResultCache ----------------------------
(***************************************************************************)
(* The result cache of the calculator (src/core/cache.lisp) and the lookup *)
(* function compiled from it (src/core/dispatch-compiler.lisp), as a       *)
(* record and the operations on it.                                        *)
(*                                                                         *)
(* The table maps expressions to values and is exact.  The compiled lookup *)
(* is a snapshot of the table taken when the table reaches the compile     *)
(* threshold, and again whenever it has doubled since; in between the two  *)
(* drift apart, and the evaluator asks the snapshot first.  With a maximum *)
(* size, every access through the table is stamped with a growing counter, *)
(* and the entry with the oldest stamp makes room for a new one.           *)
(*                                                                         *)
(* Expressions are interned (src/core/ast.lisp), so that equal ones are    *)
(* one key.                                                                *)
(***************************************************************************)
EXTENDS Integers, FiniteSets

CONSTANTS
  Nodes,             \* the operator nodes; atoms are never cached
  MaxSize,           \* max-size; 0 is "unlimited"
  CompileThreshold,  \* compile-threshold: 20
  MaxClauses         \* *compiled-dispatch-max-clauses*: 100

ASSUME CacheAssumption ==
  /\ MaxSize \in Nat
  /\ CompileThreshold \in Nat
  /\ MaxClauses \in Nat

(* A table is a function whose domain is the set of the keys present.       *)
Table(t, keys, values) == DOMAIN t \subseteq keys /\ t \in [DOMAIN t -> values]

NoEntries == [n \in {} |-> 0]

With(t, n, v) == [m \in DOMAIN t \cup {n} |-> IF m = n THEN v ELSE t[m]]

Without(t, n) == [m \in DOMAIN t \ {n} |-> t[m]]

(* The cache: its table, the access stamps and their counter, the compiled  *)
(* snapshot with the size it was taken at, whether the table changed since, *)
(* and whether compiling was given up.                                      *)
EmptyCache ==
  [table |-> NoEntries, access |-> NoEntries, clock |-> 0,
   hits |-> 0, misses |-> 0,
   compiled |-> NoEntries, compiledSize |-> 0, dirty |-> TRUE, givenUp |-> FALSE]

CacheType(c, values) ==
  /\ DOMAIN c = DOMAIN EmptyCache
  /\ Table(c.table, Nodes, values) /\ Table(c.compiled, Nodes, values)
  /\ Table(c.access, Nodes, Nat)
  /\ c.clock \in Nat /\ c.hits \in Nat /\ c.misses \in Nat /\ c.compiledSize \in Nat
  /\ c.dirty \in BOOLEAN /\ c.givenUp \in BOOLEAN

Size(c) == Cardinality(DOMAIN c.table)

-----------------------------------------------------------------------------
(* cache-touch: only a bounded cache keeps stamps.                          *)
Touch(c, n) ==
  IF MaxSize = 0 THEN c
  ELSE [c EXCEPT !.clock = @ + 1, !.access = With(@, n, c.clock + 1)]

(* Faulty: an access through the table leaves no stamp.                     *)
HitUntouched(c, n) == [c EXCEPT !.hits = @ + 1]

(* cache-get on a key present, counted as a hit by the evaluator.           *)
Hit(c, n) == [Touch(c, n) EXCEPT !.hits = @ + 1]

Stamp(c, n) == IF n \in DOMAIN c.access THEN c.access[n] ELSE 0

(* The entries cache-evict-lru may pick.                                    *)
Oldest(c) ==
  {n \in DOMAIN c.table : \A m \in DOMAIN c.table : Stamp(c, n) <= Stamp(c, m)}

Evict(c, n) ==
  [c EXCEPT !.table = Without(@, n), !.access = Without(@, n), !.dirty = TRUE]

(* Faulty: the bound is tested after it has been passed.                    *)
FullTooLate(c) == MaxSize > 0 /\ Size(c) > MaxSize

Full(c) == MaxSize > 0 /\ Size(c) >= MaxSize

Insert(c, n, v) == [Touch(c, n) EXCEPT !.table = With(@, n, v), !.dirty = TRUE]

(* cache-set without its hook: the caches it may leave.  Whether the key is *)
(* present is asked of a full cache only, and asking is an access too.      *)
Stored(c, n, v) ==
  IF ~Full(c) THEN {Insert(c, n, v)}
  ELSE IF n \in DOMAIN c.table THEN {Insert(Touch(c, n), n, v)}
  ELSE {Insert(Evict(c, m), n, v) : m \in Oldest(c)}

(* cache-clear.  The compiled lookup and the size it was compiled at stay.  *)
Cleared(c) ==
  [c EXCEPT !.table = NoEntries, !.access = NoEntries, !.clock = 0,
            !.hits = 0, !.misses = 0, !.dirty = TRUE]

-----------------------------------------------------------------------------
(* cache-needs-recompile-p                                                  *)
NeedsRecompile(c) ==
  /\ ~c.givenUp
  /\ Size(c) >= CompileThreshold
  /\ c.dirty
  /\ c.compiledSize = 0 \/ Size(c) >= 2 * c.compiledSize

(* ensure-compiled-lookup.  A table too large to compile leaves no lookup,  *)
(* and puts the threshold out of reach.                                     *)
WithLookup(c) ==
  IF ~NeedsRecompile(c) THEN c
  ELSE [c EXCEPT !.compiled = IF Size(c) <= MaxClauses THEN c.table ELSE NoEntries,
                 !.compiledSize = Size(c),
                 !.dirty = FALSE,
                 !.givenUp = Size(c) > MaxClauses]
=============================================================================
