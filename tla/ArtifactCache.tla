--------------------------- MODULE ArtifactCache ---------------------------
(***************************************************************************)
(* The per-context artifact cache: smc_artifact_configure, _lookup,        *)
(* _store, _remove, _clear and _reset_stats, down to the bytes of the      *)
(* preallocated slots.  One action per public call; each call runs to its  *)
(* return, because a context is used by one thread at a time (smc.h,       *)
(* "externally synchronized").                                             *)
(*                                                                         *)
(* entries[i] # NULL is written live[i].  slots[i].occupied always mirrors *)
(* it and is never read, so it has no variable of its own.                 *)
(***************************************************************************)
EXTENDS DirectMapped, FiniteSets

CONSTANTS
  Values,          \* the values callers store
  NullValueSizes,  \* sizes a caller passes together with a NULL value pointer
  Capacities,      \* sizes of the buffers callers pass to a lookup
  Budgets,         \* memory_budget_bytes in a configuration; 0 is "no limit"
  HeaderSize,      \* sizeof(smc_artifact_entry_t)
  Uninitialized,   \* what malloc may leave in the bytes of a slot
  NULL             \* a NULL pointer, or an output left unwritten

ASSUME ArtifactAssumption ==
  /\ Values \subseteq Seq(Byte)
  /\ NullValueSizes \subseteq Nat
  /\ Capacities \subseteq Nat
  /\ Budgets \subseteq Nat
  /\ HeaderSize \in Nat
  /\ Uninitialized \subseteq [Offsets -> Byte]
  /\ NULL \notin Seq(Byte)

VARIABLES
  configured,  \* artifact_configured of the context
  live,        \* live[i]: entries[i] points at slot i
  slots,       \* the preallocated slot memory
  stats,       \* artifact_stats of the context
  reply        \* what the last call returned: code, value, *out_value_size

vars == <<configured, live, slots, stats, reply>>

Counters == {"lookups", "hits", "misses", "stores", "updates", "evictions",
             "removes", "clears", "bytes_stored", "bytes_returned"}

ZeroStats == [c \in Counters |-> 0]

Ops == {"none", "configure", "lookup", "store", "store_null", "remove", "clear",
        "reset_stats"}

Codes == {"OK", "INIT", "INVALID", "SIZE", "CAPACITY", "NOT_FOUND"}

Reply(op, rc, value, size) ==
  [op |-> op, rc |-> rc, value |-> value, size |-> size]

Replies == [op : Ops, rc : Codes, value : Seq(Byte) \cup {NULL},
            size : Nat \cup {NULL}]

(* An early return: nothing changes but the code handed back.               *)
Refuse(op, rc) ==
  /\ reply' = Reply(op, rc, NULL, NULL)
  /\ UNCHANGED <<configured, live, slots, stats>>

EmptySlot(bytes) ==
  [hash |-> 0, keySize |-> 0, payloadSize |-> 0, bytes |-> bytes]

Init ==
  /\ configured = FALSE
  /\ live = [i \in Slots |-> FALSE]
  /\ slots \in [Slots -> {EmptySlot(b) : b \in Uninitialized}]
  /\ stats = ZeroStats
  /\ reply = Reply("none", "OK", NULL, NULL)

-----------------------------------------------------------------------------
BufferSize == EntryCount * (HeaderSize + MaxKeySize + MaxPayloadSize)

(* A budget of zero is no budget.  The allocations may fail; the slot       *)
(* buffer comes from malloc, so Init chose what it holds.                   *)
Configure(budget) ==
  \/ configured /\ Refuse("configure", "INVALID")
  \/ /\ ~configured
     /\ budget # 0 /\ BufferSize > budget
     /\ Refuse("configure", "CAPACITY")
  \/ /\ ~configured
     /\ budget = 0 \/ BufferSize <= budget
     /\ \/ Refuse("configure", "INIT")
        \/ /\ configured' = TRUE
           /\ live' = [i \in Slots |-> FALSE]
           /\ stats' = ZeroStats
           /\ reply' = Reply("configure", "OK", NULL, NULL)
           /\ UNCHANGED slots

(* Faulty: a key longer than max_key_size gets through.                     *)
KeyRefusalWithoutLength(k) ==
  IF ~configured THEN "INIT" ELSE IF k = NULL THEN "INVALID" ELSE "OK"

(* The refusals every keyed call shares, in the order they are made.        *)
KeyRefusal(k) ==
  IF ~configured THEN "INIT"
  ELSE IF k = NULL THEN "INVALID"
  ELSE IF Len(k) > MaxKeySize THEN "SIZE" ELSE "OK"

(* The hit test: the key's slot is live and holds this very key.            *)
Resident(k) == live[HomeSlot(k)] /\ Matches(slots[HomeSlot(k)], k)

(* A hit is counted, with its bytes, before the caller's buffer is found to *)
(* be too small for it.                                                     *)
Lookup(k, cap) ==
  LET e == slots[HomeSlot(k)] IN
  \/ configured /\ cap = NULL /\ Refuse("lookup", "INVALID")
  \/ /\ ~configured \/ cap # NULL
     /\ KeyRefusal(k) # "OK"
     /\ Refuse("lookup", KeyRefusal(k))
  \/ /\ KeyRefusal(k) = "OK"
     /\ cap # NULL
     /\ Resident(k)
     /\ stats' = [stats EXCEPT !["lookups"] = @ + 1, !["hits"] = @ + 1,
                               !["bytes_returned"] = @ + e.payloadSize]
     /\ reply' = IF cap < e.payloadSize
                   THEN Reply("lookup", "SIZE", NULL, e.payloadSize)
                   ELSE Reply("lookup", "OK", Payload(e), e.payloadSize)
     /\ UNCHANGED <<configured, live, slots>>
  \/ /\ KeyRefusal(k) = "OK"
     /\ cap # NULL
     /\ ~Resident(k)
     /\ stats' = [stats EXCEPT !["lookups"] = @ + 1, !["misses"] = @ + 1]
     /\ reply' = Reply("lookup", "NOT_FOUND", NULL, 0)
     /\ UNCHANGED <<configured, live, slots>>

(* Faulty: an update in place is counted as an eviction as well.            *)
CountStoreByOccupancy(k, n) ==
  [stats EXCEPT
     !["stores"] = @ + 1,
     !["bytes_stored"] = @ + n,
     !["updates"] = IF Resident(k) THEN @ + 1 ELSE @,
     !["evictions"] = IF live[HomeSlot(k)] THEN @ + 1 ELSE @]

(* Faulty: bytes_stored tracks what the table holds, so that an overwrite    *)
(* after reset_stats takes back bytes that were never added.                *)
CountStoreAsHeldBytes(k, n) ==
  [stats EXCEPT
     !["stores"] = @ + 1,
     !["bytes_stored"] = @ + n - (IF live[HomeSlot(k)]
                              THEN slots[HomeSlot(k)].payloadSize ELSE 0),
     !["updates"] = IF Resident(k) THEN @ + 1 ELSE @,
     !["evictions"] = IF live[HomeSlot(k)] /\ ~Resident(k) THEN @ + 1 ELSE @]

CountStore(k, n) ==
  [stats EXCEPT
     !["stores"] = @ + 1,
     !["bytes_stored"] = @ + n,
     !["updates"] = IF Resident(k) THEN @ + 1 ELSE @,
     !["evictions"] = IF live[HomeSlot(k)] /\ ~Resident(k) THEN @ + 1 ELSE @]

(* An accepted store of an entry whose payload has n bytes.                 *)
Put(k, n, entry) ==
  /\ stats' = CountStore(k, n)
  /\ slots' = [slots EXCEPT ![HomeSlot(k)] = entry]
  /\ live' = [live EXCEPT ![HomeSlot(k)] = TRUE]
  /\ UNCHANGED configured

Store(k, v) ==
  \/ KeyRefusal(k) # "OK" /\ Refuse("store", KeyRefusal(k))
  \/ KeyRefusal(k) = "OK" /\ Len(v) > MaxPayloadSize /\ Refuse("store", "SIZE")
  \/ /\ KeyRefusal(k) = "OK" /\ Len(v) <= MaxPayloadSize
     /\ Put(k, Len(v), Written(slots[HomeSlot(k)], k, v))
     /\ reply' = Reply("store", "OK", NULL, NULL)

(* A store whose value pointer is NULL: the size is taken at its word and   *)
(* no byte is copied.                                                       *)
StoreNull(k, n) ==
  \/ KeyRefusal(k) # "OK" /\ Refuse("store_null", KeyRefusal(k))
  \/ KeyRefusal(k) = "OK" /\ n > MaxPayloadSize /\ Refuse("store_null", "SIZE")
  \/ /\ KeyRefusal(k) = "OK" /\ n <= MaxPayloadSize
     /\ Put(k, n, WrittenWithoutPayload(slots[HomeSlot(k)], k, n))
     /\ reply' = Reply("store_null", "OK", NULL, NULL)

(* Faulty: a colliding key's entry is dropped on the way to NOT_FOUND.      *)
RemoveUncounted(k) ==
  \/ KeyRefusal(k) # "OK" /\ Refuse("remove", KeyRefusal(k))
  \/ /\ KeyRefusal(k) = "OK"
     /\ live' = [live EXCEPT ![HomeSlot(k)] = FALSE]
     /\ stats' = [stats EXCEPT !["removes"] = IF Resident(k) THEN @ + 1 ELSE @]
     /\ reply' = Reply("remove", IF Resident(k) THEN "OK" ELSE "NOT_FOUND", NULL, NULL)
     /\ UNCHANGED <<configured, slots>>

Remove(k) ==
  \/ KeyRefusal(k) # "OK" /\ Refuse("remove", KeyRefusal(k))
  \/ KeyRefusal(k) = "OK" /\ ~Resident(k) /\ Refuse("remove", "NOT_FOUND")
  \/ /\ KeyRefusal(k) = "OK" /\ Resident(k)
     /\ live' = [live EXCEPT ![HomeSlot(k)] = FALSE]
     /\ stats' = [stats EXCEPT !["removes"] = @ + 1]
     /\ reply' = Reply("remove", "OK", NULL, NULL)
     /\ UNCHANGED <<configured, slots>>

Clear ==
  \/ ~configured /\ Refuse("clear", "INIT")
  \/ /\ configured
     /\ live' = [i \in Slots |-> FALSE]
     /\ stats' = [stats EXCEPT !["clears"] = @ + 1]
     /\ reply' = Reply("clear", "OK", NULL, NULL)
     /\ UNCHANGED <<configured, slots>>

(* Allowed on a context whose cache was never configured.                   *)
ResetStats ==
  /\ stats' = ZeroStats
  /\ reply' = Reply("reset_stats", "OK", NULL, NULL)
  /\ UNCHANGED <<configured, live, slots>>

Next ==
  \/ \E b \in Budgets : Configure(b)
  \/ \E k \in Keys \cup {NULL} :
       \/ \E cap \in Capacities \cup {NULL} : Lookup(k, cap)
       \/ \E v \in Values : Store(k, v)
       \/ \E n \in NullValueSizes : StoreNull(k, n)
       \/ Remove(k)
  \/ Clear
  \/ ResetStats

Spec == Init /\ [][Next]_vars

-----------------------------------------------------------------------------
TypeOK ==
  /\ configured \in BOOLEAN
  /\ live \in [Slots -> BOOLEAN]
  /\ slots \in [Slots -> Entry]
  /\ stats \in [Counters -> Nat]
  /\ reply \in Replies

(* Whatever has been stored, evicted, removed and stored again, the bytes   *)
(* of every live slot still spell a key that belongs in that slot, with the *)
(* hash of that key and sizes the slot has room for.  Lookup and remove     *)
(* trust all four when they compare and when they copy out.  No slot is     *)
(* live before the cache is configured.                                     *)
SlotIntegrity ==
  \A i \in Slots : live[i] =>
    /\ configured
    /\ \E k \in Keys :
         /\ HomeSlot(k) = i
         /\ Matches(slots[i], k)
         /\ Len(k) <= MaxKeySize
         /\ slots[i].payloadSize <= MaxPayloadSize

LiveSlots == {i \in Slots : live[i]}

(* The counters explain the occupancy of the table: between two resets of   *)
(* the statistics or clears, the number of live slots moves by exactly      *)
(* stores - updates - evictions - removes.  (Clearing drops every entry and *)
(* counts one clear.)                                                       *)
Net(s) == s["stores"] - s["updates"] - s["evictions"] - s["removes"]

OccupancyIsAccounted ==
  [][ stats'["clears"] = stats["clears"] /\ stats' # ZeroStats =>
        Cardinality(LiveSlots') - Cardinality(LiveSlots)
          = Net(stats') - Net(stats) ]_vars

(* No silent loss: whenever a key stops being retrievable, that very step   *)
(* is counted as an eviction, a remove or a clear.                          *)
EveryLossIsCounted ==
  [][ (\E k \in Keys : Resident(k) /\ ~Resident(k)') =>
        \/ stats'["evictions"] = stats["evictions"] + 1
        \/ stats'["removes"] = stats["removes"] + 1
        \/ stats'["clears"] = stats["clears"] + 1 ]_vars

(* The store that may forget but never lies; it does not tell an empty      *)
(* value from a NULL one.                                                   *)
contents ==
  [k \in Keys |-> IF Resident(k) THEN Payload(slots[HomeSlot(k)]) ELSE NULL]

Abstract ==
  INSTANCE LossyStore WITH
    ready   <- configured,
    content <- contents,
    reply   <- [reply EXCEPT !.op = IF @ = "store_null" THEN "store" ELSE @]

(* Replies do not name the key they are about, so a step of the store might *)
(* be that of another key: call by call, each does what the store does for  *)
(* the very arguments it was given.                                         *)
CallsKeepTheirPromise ==
  /\ \A k \in Keys \cup {NULL} :
       /\ \A cap \in Capacities \cup {NULL} : Lookup(k, cap) => Abstract!Lookup(k, cap)
       /\ \A v \in Values : Store(k, v) => Abstract!Store(k, v)
       /\ \A n \in NullValueSizes : StoreNull(k, n) => Abstract!Store(k, << >>)
       /\ Remove(k) => Abstract!Remove(k)
  /\ Clear => Abstract!Clear

(* The slots, hashes and bytes implement that store: a hit hands out the    *)
(* bytes stored last under the key asked for, never those of an earlier     *)
(* entry of the slot nor of memory nobody wrote, as long as a NULL value    *)
(* comes with size zero.                                                    *)
ForgetsButNeverLies == Abstract!Spec /\ [][CallsKeepTheirPromise]_vars
=============================================================================
