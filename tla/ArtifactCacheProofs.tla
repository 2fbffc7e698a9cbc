------------------------ MODULE ArtifactCacheProofs ------------------------
(***************************************************************************)
(* Theorems about the artifact cache, for every key set, hash function,    *)
(* slot geometry and sequence of calls.                                    *)
(***************************************************************************)
EXTENDS ArtifactCache, DirectMappedProofs, FiniteSetTheorems

(* TypeOK alone is not inductive: that a hit returns bytes depends on the   *)
(* sizes in the slot header being within the slot, which SlotIntegrity says.*)
IInv == TypeOK /\ SlotIntegrity

LEMMA ReplyIsReply ==
  ASSUME NEW op \in Ops, NEW rc \in Codes, NEW value \in Seq(Byte) \cup {NULL},
         NEW size \in Nat \cup {NULL}
  PROVE  Reply(op, rc, value, size) \in Replies
BY DEF Reply, Replies

LEMMA HitIsCounted ==
  ASSUME NEW s \in [Counters -> Nat], NEW n \in Nat
  PROVE  [s EXCEPT !["lookups"] = @ + 1, !["hits"] = @ + 1,
                   !["bytes_returned"] = @ + n] \in [Counters -> Nat]
BY DEF Counters

LEMMA RefusalIsCode ==
  ASSUME TypeOK, NEW k
  PROVE  KeyRefusal(k) \in {"INIT", "INVALID", "SIZE", "OK"}
BY DEF KeyRefusal, TypeOK

LEMMA AcceptedKey ==
  ASSUME TypeOK, NEW k \in Keys \cup {NULL}, KeyRefusal(k) = "OK"
  PROVE  configured /\ k \in Keys /\ Fits(k)
<1>1. configured /\ k # NULL /\ ~(Len(k) > MaxKeySize)
  BY DEF KeyRefusal, TypeOK
<1>2. Fits(k)
  BY <1>1, KeyFacts, GeometryAssumption DEF Fits
<1>3. QED
  BY <1>1, <1>2

LEMMA RefuseKeepsInvariant ==
  ASSUME IInv, NEW op \in Ops, NEW rc \in Codes, Refuse(op, rc)
  PROVE  IInv'
<1>1. TypeOK'
  BY ReplyIsReply DEF IInv, TypeOK, Refuse
<1>2. SlotIntegrity'
  BY DEF IInv, SlotIntegrity, Refuse
<1>3. QED
  BY <1>1, <1>2 DEF IInv

LEMMA InitInvariant == Init => IInv
<1> SUFFICES ASSUME Init PROVE IInv
  OBVIOUS
<1>1. \A b \in Uninitialized : EmptySlot(b) \in Entry
  BY ArtifactAssumption DEF EmptySlot, Entry
<1>2. slots \in [Slots -> Entry]
  BY <1>1 DEF Init
<1>3. TypeOK
  BY <1>2 DEF Init, TypeOK, ZeroStats, Reply, Replies, Ops, Codes
<1>4. SlotIntegrity
  BY DEF Init, SlotIntegrity
<1>5. QED
  BY <1>3, <1>4 DEF IInv

LEMMA ConfigureKeepsInvariant ==
  ASSUME IInv, NEW b \in Budgets, Configure(b)
  PROVE  IInv'
<1>1. CASE \E rc \in {"INVALID", "CAPACITY", "INIT"} : Refuse("configure", rc)
  BY <1>1, RefuseKeepsInvariant DEF Ops, Codes
<1>2. CASE /\ configured' = TRUE
           /\ live' = [i \in Slots |-> FALSE]
           /\ stats' = ZeroStats
           /\ reply' = Reply("configure", "OK", NULL, NULL)
           /\ UNCHANGED slots
  <2>1. TypeOK'
    BY <1>2 DEF IInv, TypeOK, ZeroStats, Reply, Replies, Ops, Codes
  <2>2. SlotIntegrity'
    BY <1>2 DEF SlotIntegrity
  <2>3. QED
    BY <2>1, <2>2 DEF IInv
<1>3. QED
  BY <1>1, <1>2 DEF Configure

LEMMA ResidentEntry ==
  ASSUME IInv, NEW k \in Keys, Resident(k)
  PROVE  LET e == slots[HomeSlot(k)] IN
         /\ e \in Entry
         /\ e.keySize <= MaxKeySize
         /\ e.payloadSize <= MaxPayloadSize
         /\ e.payloadSize \in Nat
         /\ Payload(e) \in Seq(Byte)
         /\ Len(Payload(e)) = e.payloadSize
<1> DEFINE e == slots[HomeSlot(k)]
<1>1. HomeSlot(k) \in Slots
  BY KeyFacts
<1>2. e \in Entry
  BY <1>1 DEF IInv, TypeOK
<1>3. PICK j \in Keys : /\ Matches(e, j)
                        /\ Len(j) <= MaxKeySize
                        /\ e.payloadSize <= MaxPayloadSize
  BY <1>1 DEF IInv, SlotIntegrity, Resident
<1>4. e.keySize <= MaxKeySize
  BY <1>3 DEF Matches
<1>5. e.payloadSize \in Nat
  BY <1>2 DEF Entry
<1>6. QED
  BY <1>2, <1>3, <1>4, <1>5, PayloadIsBytes

LEMMA LookupKeepsInvariant ==
  ASSUME IInv, NEW k \in Keys \cup {NULL}, NEW cap \in Capacities \cup {NULL},
         Lookup(k, cap)
  PROVE  IInv'
<1> DEFINE e == slots[HomeSlot(k)]
<1> USE DEF IInv
<1>1. CASE \E rc \in Codes : Refuse("lookup", rc)
  BY <1>1, RefuseKeepsInvariant DEF Ops
<1>2. CASE /\ KeyRefusal(k) = "OK"
           /\ Resident(k)
           /\ stats' = [stats EXCEPT !["lookups"] = @ + 1, !["hits"] = @ + 1,
                                     !["bytes_returned"] = @ + e.payloadSize]
           /\ reply' = IF cap < e.payloadSize
                         THEN Reply("lookup", "SIZE", NULL, e.payloadSize)
                         ELSE Reply("lookup", "OK", Payload(e), e.payloadSize)
           /\ UNCHANGED <<configured, live, slots>>
  <2>1. k \in Keys
    BY <1>2, AcceptedKey
  <2>2. e.payloadSize \in Nat /\ Payload(e) \in Seq(Byte)
    BY <1>2, <2>1, ResidentEntry
  <2>3. stats' \in [Counters -> Nat]
    <3>1. stats \in [Counters -> Nat]
      BY DEF TypeOK
    <3>2. QED
      BY <1>2, <2>2, <3>1, HitIsCounted
  <2>4. reply' \in Replies
    <3>1. /\ Reply("lookup", "SIZE", NULL, e.payloadSize) \in Replies
          /\ Reply("lookup", "OK", Payload(e), e.payloadSize) \in Replies
      BY <2>2, ReplyIsReply DEF Ops, Codes
    <3>2. QED
      BY <1>2, <3>1
  <2>5. TypeOK'
    BY <1>2, <2>3, <2>4 DEF TypeOK
  <2>6. QED
    BY <1>2, <2>5 DEF SlotIntegrity
<1>3. CASE /\ stats' = [stats EXCEPT !["lookups"] = @ + 1, !["misses"] = @ + 1]
           /\ reply' = Reply("lookup", "NOT_FOUND", NULL, 0)
           /\ UNCHANGED <<configured, live, slots>>
  <2>1. stats' \in [Counters -> Nat]
    <3>1. stats \in [Counters -> Nat]
      BY DEF TypeOK
    <3>2. QED
      BY <1>3, <3>1 DEF Counters
  <2>2. reply' \in Replies
    BY <1>3, ReplyIsReply DEF Ops, Codes
  <2>3. TypeOK'
    BY <1>3, <2>1, <2>2 DEF TypeOK
  <2>4. QED
    BY <1>3, <2>3 DEF SlotIntegrity
<1>4. QED
  BY <1>1, <1>2, <1>3, RefusalIsCode DEF Lookup, Codes

LEMMA StoreIsCounted ==
  ASSUME TypeOK, NEW k \in Keys, NEW n \in Nat
  PROVE  CountStore(k, n) \in [Counters -> Nat]
<1>1. stats \in [Counters -> Nat]
  BY DEF TypeOK
<1>2. QED
  BY <1>1 DEF CountStore, Counters

(* An accepted store writes a well-formed entry into the home slot of its   *)
(* key and leaves every other slot alone.                                   *)
LEMMA PutKeepsInvariant ==
  ASSUME IInv, configured, NEW k \in Keys, Fits(k), NEW n \in Nat,
         NEW entry \in Entry, Matches(entry, k), entry.payloadSize <= MaxPayloadSize,
         Put(k, n, entry), reply' \in Replies
  PROVE  IInv'
<1>1. HomeSlot(k) \in Slots
  BY KeyFacts
<1>2. TypeOK'
  <2>1. stats' \in [Counters -> Nat]
    BY StoreIsCounted DEF Put, IInv
  <2>2. slots' \in [Slots -> Entry] /\ live' \in [Slots -> BOOLEAN]
    BY <1>1 DEF Put, IInv, TypeOK
  <2>3. QED
    BY <2>1, <2>2 DEF Put, IInv, TypeOK
<1>3. SlotIntegrity'
  <2> SUFFICES ASSUME NEW i \in Slots, live'[i]
               PROVE  \E j \in Keys : /\ HomeSlot(j) = i
                                      /\ Matches(slots'[i], j)
                                      /\ Len(j) <= MaxKeySize
                                      /\ slots'[i].payloadSize <= MaxPayloadSize
    BY DEF SlotIntegrity, Put
  <2>1. CASE i = HomeSlot(k)
    <3>1. slots'[i] = entry
      BY <2>1, <1>1 DEF Put, IInv, TypeOK
    <3>2. QED
      BY <2>1, <3>1 DEF Fits
  <2>2. CASE i # HomeSlot(k)
    <3>1. slots'[i] = slots[i] /\ live[i]
      BY <2>2, <1>1 DEF Put, IInv, TypeOK
    <3>2. QED
      BY <3>1 DEF IInv, SlotIntegrity
  <2>3. QED
    BY <2>1, <2>2
<1>4. QED
  BY <1>2, <1>3 DEF IInv

LEMMA StoreKeepsInvariant ==
  ASSUME IInv, NEW k \in Keys \cup {NULL}, NEW v \in Values, Store(k, v)
  PROVE  IInv'
<1> USE DEF IInv
<1>1. CASE \E rc \in Codes : Refuse("store", rc)
  BY <1>1, RefuseKeepsInvariant DEF Ops
<1>2. CASE /\ KeyRefusal(k) = "OK" /\ Len(v) <= MaxPayloadSize
           /\ Put(k, Len(v), Written(slots[HomeSlot(k)], k, v))
           /\ reply' = Reply("store", "OK", NULL, NULL)
  <2>1. configured /\ k \in Keys /\ Fits(k)
    BY <1>2, AcceptedKey
  <2>2. slots[HomeSlot(k)] \in Entry
    BY <2>1, KeyFacts DEF TypeOK
  <2>3. v \in Seq(Byte) /\ Len(v) \in Nat
    BY ArtifactAssumption
  <2>4. reply' \in Replies
    BY <1>2, ReplyIsReply DEF Ops, Codes
  <2>5. QED
    BY <1>2, <2>1, <2>2, <2>3, <2>4, WrittenIsFaithful, PutKeepsInvariant
<1>3. QED
  BY <1>1, <1>2, RefusalIsCode DEF Store, Codes

LEMMA StoreNullKeepsInvariant ==
  ASSUME IInv, NEW k \in Keys \cup {NULL}, NEW n \in NullValueSizes,
         StoreNull(k, n)
  PROVE  IInv'
<1> USE DEF IInv
<1>1. CASE \E rc \in Codes : Refuse("store_null", rc)
  BY <1>1, RefuseKeepsInvariant DEF Ops
<1>2. CASE /\ KeyRefusal(k) = "OK" /\ n <= MaxPayloadSize
           /\ Put(k, n, WrittenWithoutPayload(slots[HomeSlot(k)], k, n))
           /\ reply' = Reply("store_null", "OK", NULL, NULL)
  <2>1. configured /\ k \in Keys /\ Fits(k)
    BY <1>2, AcceptedKey
  <2>2. slots[HomeSlot(k)] \in Entry /\ n \in Nat
    BY <2>1, KeyFacts, ArtifactAssumption DEF TypeOK
  <2>3. reply' \in Replies
    BY <1>2, ReplyIsReply DEF Ops, Codes
  <2>4. QED
    BY <1>2, <2>1, <2>2, <2>3, WrittenWithoutPayloadIsEntry, PutKeepsInvariant
<1>3. QED
  BY <1>1, <1>2, RefusalIsCode DEF StoreNull, Codes

LEMMA RemoveKeepsInvariant ==
  ASSUME IInv, NEW k \in Keys \cup {NULL}, Remove(k)
  PROVE  IInv'
<1> USE DEF IInv
<1>1. CASE \E rc \in Codes : Refuse("remove", rc)
  BY <1>1, RefuseKeepsInvariant DEF Ops
<1>2. CASE /\ KeyRefusal(k) = "OK" /\ Resident(k)
           /\ live' = [live EXCEPT ![HomeSlot(k)] = FALSE]
           /\ stats' = [stats EXCEPT !["removes"] = @ + 1]
           /\ reply' = Reply("remove", "OK", NULL, NULL)
           /\ UNCHANGED <<configured, slots>>
  <2>1. HomeSlot(k) \in Slots
    BY <1>2, AcceptedKey, KeyFacts
  <2>2. live' \in [Slots -> BOOLEAN] /\ stats' \in [Counters -> Nat]
    BY <1>2, <2>1 DEF TypeOK, Counters
  <2>3. reply' \in Replies
    BY <1>2, ReplyIsReply DEF Ops, Codes
  <2>4. TypeOK'
    BY <1>2, <2>2, <2>3 DEF TypeOK
  <2>5. \A i \in Slots : live'[i] => live[i]
    BY <1>2, <2>1 DEF TypeOK
  <2>6. SlotIntegrity'
    BY <1>2, <2>5 DEF SlotIntegrity
  <2>7. QED
    BY <2>4, <2>6
<1>3. QED
  BY <1>1, <1>2, RefusalIsCode DEF Remove, Codes

LEMMA ClearKeepsInvariant ==
  ASSUME IInv, Clear
  PROVE  IInv'
<1> USE DEF IInv
<1>1. CASE Refuse("clear", "INIT")
  BY <1>1, RefuseKeepsInvariant DEF Ops, Codes
<1>2. CASE /\ live' = [i \in Slots |-> FALSE]
           /\ stats' = [stats EXCEPT !["clears"] = @ + 1]
           /\ reply' = Reply("clear", "OK", NULL, NULL)
           /\ UNCHANGED <<configured, slots>>
  <2>1. stats' \in [Counters -> Nat]
    BY <1>2 DEF TypeOK, Counters
  <2>2. reply' \in Replies
    BY <1>2, ReplyIsReply DEF Ops, Codes
  <2>3. TypeOK'
    BY <1>2, <2>1, <2>2 DEF TypeOK
  <2>4. SlotIntegrity'
    BY <1>2 DEF SlotIntegrity
  <2>5. QED
    BY <2>3, <2>4
<1>3. QED
  BY <1>1, <1>2 DEF Clear

LEMMA ResetStatsKeepsInvariant ==
  ASSUME IInv, ResetStats
  PROVE  IInv'
<1>1. reply' \in Replies
  BY ReplyIsReply DEF ResetStats, Ops, Codes
<1>2. TypeOK'
  BY <1>1 DEF IInv, TypeOK, ResetStats, ZeroStats
<1>3. SlotIntegrity'
  BY DEF IInv, SlotIntegrity, ResetStats
<1>4. QED
  BY <1>2, <1>3 DEF IInv

LEMMA StepKeepsInvariant == IInv /\ [Next]_vars => IInv'
<1> SUFFICES ASSUME IInv, [Next]_vars
             PROVE  IInv'
  OBVIOUS
<1>1. CASE \E b \in Budgets : Configure(b)
  BY <1>1, ConfigureKeepsInvariant
<1>2. CASE \E k \in Keys \cup {NULL}, cap \in Capacities \cup {NULL} : Lookup(k, cap)
  BY <1>2, LookupKeepsInvariant
<1>3. CASE \E k \in Keys \cup {NULL}, v \in Values : Store(k, v)
  BY <1>3, StoreKeepsInvariant
<1>4. CASE \E k \in Keys \cup {NULL}, n \in NullValueSizes : StoreNull(k, n)
  BY <1>4, StoreNullKeepsInvariant
<1>5. CASE \E k \in Keys \cup {NULL} : Remove(k)
  BY <1>5, RemoveKeepsInvariant
<1>6. CASE Clear
  BY <1>6, ClearKeepsInvariant
<1>7. CASE ResetStats
  BY <1>7, ResetStatsKeepsInvariant
<1>8. CASE UNCHANGED vars
  BY <1>8 DEF vars, IInv, TypeOK, SlotIntegrity
<1>9. QED
  BY <1>1, <1>2, <1>3, <1>4, <1>5, <1>6, <1>7, <1>8 DEF Next

(* The inductive invariant holds throughout.                                *)
THEOREM InductiveInvariant == Spec => []IInv
BY InitInvariant, StepKeepsInvariant, PTL DEF Spec

(* Type correctness, down to the bytes of every reply.                      *)
THEOREM TypeCorrect == Spec => []TypeOK
<1>1. IInv => TypeOK
  BY DEF IInv
<1>2. QED
  BY <1>1, InductiveInvariant, PTL

(* Every live slot holds a well-formed entry of a key that belongs there.   *)
THEOREM SlotsStayWellFormed == Spec => []SlotIntegrity
<1>1. IInv => SlotIntegrity
  BY DEF IInv
<1>2. QED
  BY <1>1, InductiveInvariant, PTL

-----------------------------------------------------------------------------
(* Losses.                                                                  *)

LEMMA ResidencyIsSlotwise ==
  ASSUME NEW j \in Keys, live'[HomeSlot(j)] = live[HomeSlot(j)],
         slots'[HomeSlot(j)] = slots[HomeSlot(j)]
  PROVE  Resident(j)' <=> Resident(j)
BY DEF Resident, Matches, SameBytes, HomeSlot

(* Storing k makes k resident, and every other key of its slot not.         *)
LEMMA ResidencyAfterPut ==
  ASSUME IInv, NEW k \in Keys, NEW n \in Nat, NEW entry \in Entry,
         Matches(entry, k), Put(k, n, entry),
         NEW j \in Keys
  PROVE  /\ HomeSlot(j) # HomeSlot(k) =>
              /\ Resident(j)' <=> Resident(j)
              /\ slots'[HomeSlot(j)] = slots[HomeSlot(j)]
         /\ HomeSlot(j) = HomeSlot(k) =>
              /\ Resident(j)' <=> j = k
              /\ slots'[HomeSlot(j)] = entry
<1> USE DEF IInv
<1>1. HomeSlot(k) \in Slots /\ HomeSlot(j) \in Slots
  BY KeyFacts
<1>2. CASE HomeSlot(j) # HomeSlot(k)
  <2>1. live'[HomeSlot(j)] = live[HomeSlot(j)] /\ slots'[HomeSlot(j)] = slots[HomeSlot(j)]
    BY <1>1, <1>2 DEF Put, TypeOK
  <2>2. QED
    BY <1>2, <2>1, ResidencyIsSlotwise
<1>3. CASE HomeSlot(j) = HomeSlot(k)
  <2>1. live'[HomeSlot(j)] /\ slots'[HomeSlot(j)] = entry
    BY <1>1, <1>3 DEF Put, TypeOK
  <2>2. Resident(j)' <=> Matches(entry, j)
    BY <2>1 DEF Resident, Matches, SameBytes, HomeSlot
  <2>3. QED
    BY <1>3, <2>1, <2>2, MatchesIsExact
<1>4. QED
  BY <1>2, <1>3

LEMMA LossByPut ==
  ASSUME IInv, NEW k \in Keys, NEW n \in Nat, NEW entry \in Entry,
         Matches(entry, k), Put(k, n, entry),
         NEW j \in Keys, Resident(j), ~Resident(j)'
  PROVE  stats'["evictions"] = stats["evictions"] + 1
<1>1. HomeSlot(j) = HomeSlot(k) /\ j # k
  BY ResidencyAfterPut
<1>2. live[HomeSlot(k)] /\ ~Resident(k)
  BY <1>1, MatchesIsExact DEF Resident
<1>3. stats \in [Counters -> Nat]
  BY DEF IInv, TypeOK
<1>4. QED
  BY <1>2, <1>3 DEF Put, CountStore, Counters

(* No key is lost without being counted as evicted, removed or cleared.     *)
THEOREM NoSilentLoss == Spec => EveryLossIsCounted
<1> DEFINE Counted == \/ stats'["evictions"] = stats["evictions"] + 1
                      \/ stats'["removes"] = stats["removes"] + 1
                      \/ stats'["clears"] = stats["clears"] + 1
<1>1. ASSUME IInv, [Next]_vars, NEW j \in Keys, Resident(j), ~Resident(j)'
      PROVE  Counted
  <2> USE DEF IInv
  <2>1. stats \in [Counters -> Nat]
    BY <1>1 DEF TypeOK
  <2>2. configured /\ live[HomeSlot(j)]
    BY <1>1, KeyFacts DEF Resident, SlotIntegrity
  <2>3. ~UNCHANGED <<live, slots>>
    BY <1>1, ResidencyIsSlotwise
  <2>4. ASSUME NEW b \in Budgets, Configure(b)
        PROVE  Counted
    BY <2>2, <2>3, <2>4 DEF Configure, Refuse
  <2>5. ASSUME NEW k \in Keys \cup {NULL}, NEW cap, Lookup(k, cap)
        PROVE  Counted
    BY <2>3, <2>5 DEF Lookup, Refuse
  <2>6. ASSUME NEW k \in Keys \cup {NULL}, NEW v \in Values, Store(k, v)
        PROVE  Counted
    <3>1. /\ KeyRefusal(k) = "OK" /\ Len(v) <= MaxPayloadSize
          /\ Put(k, Len(v), Written(slots[HomeSlot(k)], k, v))
      BY <2>3, <2>6 DEF Store, Refuse
    <3>2. k \in Keys /\ Fits(k) /\ v \in Seq(Byte) /\ Len(v) \in Nat
      BY <1>1, <3>1, AcceptedKey, ArtifactAssumption
    <3>3. slots[HomeSlot(k)] \in Entry
      BY <1>1, <3>2, KeyFacts DEF TypeOK
    <3>4. QED
      BY <1>1, <3>1, <3>2, <3>3, WrittenIsFaithful, LossByPut
  <2>7. ASSUME NEW k \in Keys \cup {NULL}, NEW n \in NullValueSizes, StoreNull(k, n)
        PROVE  Counted
    <3>1. /\ KeyRefusal(k) = "OK" /\ n <= MaxPayloadSize
          /\ Put(k, n, WrittenWithoutPayload(slots[HomeSlot(k)], k, n))
      BY <2>3, <2>7 DEF StoreNull, Refuse
    <3>2. k \in Keys /\ Fits(k) /\ n \in Nat
      BY <1>1, <3>1, AcceptedKey, ArtifactAssumption
    <3>3. slots[HomeSlot(k)] \in Entry
      BY <1>1, <3>2, KeyFacts DEF TypeOK
    <3>4. QED
      BY <1>1, <3>1, <3>2, <3>3, WrittenWithoutPayloadIsEntry, LossByPut
  <2>8. ASSUME NEW k \in Keys \cup {NULL}, Remove(k)
        PROVE  Counted
    BY <2>1, <2>3, <2>8 DEF Remove, Refuse, Counters
  <2>9. ASSUME Clear
        PROVE  Counted
    BY <2>1, <2>3, <2>9 DEF Clear, Refuse, Counters
  <2>10. ~ResetStats
    BY <2>3 DEF ResetStats
  <2>11. QED
    BY <1>1, <2>3, <2>4, <2>5, <2>6, <2>7, <2>8, <2>9, <2>10 DEF Next, vars
<1>2. IInv /\ [Next]_vars =>
        [ (\E k \in Keys : Resident(k) /\ ~Resident(k)') => Counted ]_vars
  BY <1>1
<1>3. QED
  BY <1>2, InductiveInvariant, PTL DEF Spec, EveryLossIsCounted

-----------------------------------------------------------------------------
(* Occupancy.                                                               *)

LEMMA LiveSlotsAreFinite ==
  IsFiniteSet(LiveSlots) /\ Cardinality(LiveSlots) \in Nat
<1>1. IsFiniteSet(Slots)
  BY FS_Interval, GeometryAssumption DEF Slots
<1>2. LiveSlots \subseteq Slots
  BY DEF LiveSlots
<1>3. QED
  BY <1>1, <1>2, FS_Subset, FS_CardinalityType

Accounted ==
  Cardinality(LiveSlots') - Cardinality(LiveSlots) = Net(stats') - Net(stats)

LEMMA OccupancyAfterPut ==
  ASSUME IInv, NEW k \in Keys, NEW n \in Nat, NEW entry, Put(k, n, entry)
  PROVE  Accounted
<1> USE DEF IInv
<1>1. HomeSlot(k) \in Slots
  BY KeyFacts
<1>2. stats \in [Counters -> Nat]
  BY DEF TypeOK
<1>3. LiveSlots' = LiveSlots \cup {HomeSlot(k)}
  BY <1>1 DEF LiveSlots, Put, TypeOK
<1>4. CASE live[HomeSlot(k)]
  <2>1. Cardinality(LiveSlots') = Cardinality(LiveSlots)
    <3>1. LiveSlots' = LiveSlots
      BY <1>1, <1>3, <1>4 DEF LiveSlots
    <3>2. QED
      BY <3>1
  <2>2. Net(stats') = Net(stats)
    BY <1>2, <1>4 DEF Net, Put, CountStore, Counters
  <2>3. Cardinality(LiveSlots) \in Nat /\ Net(stats) \in Int
    BY <1>2, LiveSlotsAreFinite DEF Net, Counters
  <2>4. QED
    BY <2>1, <2>2, <2>3 DEF Accounted
<1>5. CASE ~live[HomeSlot(k)]
  <2>1. Cardinality(LiveSlots') = Cardinality(LiveSlots) + 1
    <3>1. HomeSlot(k) \notin LiveSlots
      BY <1>5 DEF LiveSlots
    <3>2. QED
      BY <1>3, <3>1, FS_AddElement, LiveSlotsAreFinite
  <2>2. Net(stats') = Net(stats) + 1
    BY <1>2, <1>5 DEF Net, Put, CountStore, Counters, Resident
  <2>3. Cardinality(LiveSlots) \in Nat /\ Net(stats) \in Int
    BY <1>2, LiveSlotsAreFinite DEF Net, Counters
  <2>4. QED
    BY <2>1, <2>2, <2>3 DEF Accounted
<1>6. QED
  BY <1>4, <1>5

LEMMA OccupancyAfterRemove ==
  ASSUME IInv, NEW k \in Keys, Resident(k),
         live' = [live EXCEPT ![HomeSlot(k)] = FALSE],
         stats' = [stats EXCEPT !["removes"] = @ + 1]
  PROVE  Accounted
<1> USE DEF IInv
<1>1. HomeSlot(k) \in Slots /\ HomeSlot(k) \in LiveSlots
  BY KeyFacts DEF Resident, LiveSlots
<1>2. stats \in [Counters -> Nat]
  BY DEF TypeOK
<1>3. LiveSlots' = LiveSlots \ {HomeSlot(k)}
  BY <1>1 DEF LiveSlots, TypeOK
<1>4. Cardinality(LiveSlots') = Cardinality(LiveSlots) - 1
  BY <1>1, <1>3, FS_RemoveElement, LiveSlotsAreFinite
<1>5. Net(stats') = Net(stats) - 1
  BY <1>2 DEF Net, Counters
<1>6. Cardinality(LiveSlots) \in Nat /\ Net(stats) \in Int
  BY <1>2, LiveSlotsAreFinite DEF Net, Counters
<1>7. QED
  BY <1>4, <1>5, <1>6 DEF Accounted

LEMMA OccupancyUndisturbed ==
  ASSUME IInv, live' = live,
         \A c \in {"stores", "updates", "evictions", "removes"} : stats'[c] = stats[c]
  PROVE  Accounted
<1>1. LiveSlots' = LiveSlots
  BY DEF LiveSlots
<1>2. stats \in [Counters -> Nat]
  BY DEF IInv, TypeOK
<1>3. Net(stats') = Net(stats) /\ Net(stats) \in Int
  BY <1>2 DEF Net, Counters
<1>4. Cardinality(LiveSlots) \in Nat
  BY LiveSlotsAreFinite
<1>5. QED
  BY <1>1, <1>3, <1>4 DEF Accounted

(* Between clears and resets, the counters explain how full the table is.   *)
THEOREM OccupancyAccounting == Spec => OccupancyIsAccounted
<1>1. ASSUME IInv, [Next]_vars, stats'["clears"] = stats["clears"],
             stats' # ZeroStats
      PROVE  Accounted
  <2> USE DEF IInv
  <2>1. stats \in [Counters -> Nat]
    BY <1>1 DEF TypeOK
  <2>2. ASSUME NEW op, NEW rc, Refuse(op, rc)
        PROVE  Accounted
    BY <1>1, <2>2, OccupancyUndisturbed DEF Refuse
  <2>3. ASSUME NEW b \in Budgets, Configure(b)
        PROVE  Accounted
    BY <1>1, <2>2, <2>3 DEF Configure
  <2>4. ASSUME NEW k \in Keys \cup {NULL}, NEW cap, Lookup(k, cap)
        PROVE  Accounted
    <3>1. CASE \E rc : Refuse("lookup", rc)
      BY <2>2, <3>1
    <3>2. CASE /\ live' = live
               /\ \/ stats' = [stats EXCEPT !["lookups"] = @ + 1, !["misses"] = @ + 1]
                  \/ stats' = [stats EXCEPT !["lookups"] = @ + 1, !["hits"] = @ + 1,
                        !["bytes_returned"] = @ + slots[HomeSlot(k)].payloadSize]
      <4>1. \A c \in {"stores", "updates", "evictions", "removes"} : stats'[c] = stats[c]
        BY <2>1, <3>2 DEF Counters
      <4>2. QED
        BY <1>1, <3>2, <4>1, OccupancyUndisturbed
    <3>3. QED
      BY <2>4, <3>1, <3>2 DEF Lookup
  <2>5. ASSUME NEW k \in Keys \cup {NULL}, NEW v \in Values, Store(k, v)
        PROVE  Accounted
    <3>1. CASE \E rc : Refuse("store", rc)
      BY <2>2, <3>1
    <3>2. CASE /\ KeyRefusal(k) = "OK"
               /\ Put(k, Len(v), Written(slots[HomeSlot(k)], k, v))
      <4>1. k \in Keys /\ Len(v) \in Nat
        BY <1>1, <3>2, AcceptedKey, ArtifactAssumption
      <4>2. QED
        BY <1>1, <3>2, <4>1, OccupancyAfterPut
    <3>3. QED
      BY <2>5, <3>1, <3>2 DEF Store
  <2>6. ASSUME NEW k \in Keys \cup {NULL}, NEW n \in NullValueSizes, StoreNull(k, n)
        PROVE  Accounted
    <3>1. CASE \E rc : Refuse("store_null", rc)
      BY <2>2, <3>1
    <3>2. CASE /\ KeyRefusal(k) = "OK"
               /\ Put(k, n, WrittenWithoutPayload(slots[HomeSlot(k)], k, n))
      <4>1. k \in Keys /\ n \in Nat
        BY <1>1, <3>2, AcceptedKey, ArtifactAssumption
      <4>2. QED
        BY <1>1, <3>2, <4>1, OccupancyAfterPut
    <3>3. QED
      BY <2>6, <3>1, <3>2 DEF StoreNull
  <2>7. ASSUME NEW k \in Keys \cup {NULL}, Remove(k)
        PROVE  Accounted
    <3>1. CASE \E rc : Refuse("remove", rc)
      BY <2>2, <3>1
    <3>2. CASE /\ KeyRefusal(k) = "OK" /\ Resident(k)
               /\ live' = [live EXCEPT ![HomeSlot(k)] = FALSE]
               /\ stats' = [stats EXCEPT !["removes"] = @ + 1]
      BY <1>1, <3>2, AcceptedKey, OccupancyAfterRemove
    <3>3. QED
      BY <2>7, <3>1, <3>2 DEF Remove
  <2>8. ASSUME Clear
        PROVE  Accounted
    <3>1. CASE Refuse("clear", "INIT")
      BY <2>2, <3>1
    <3>2. CASE stats' = [stats EXCEPT !["clears"] = @ + 1]
      BY <1>1, <2>1, <3>2 DEF Counters
    <3>3. QED
      BY <2>8, <3>1, <3>2 DEF Clear
  <2>9. ~ResetStats
    BY <1>1 DEF ResetStats
  <2>10. CASE UNCHANGED vars
    BY <1>1, <2>10, OccupancyUndisturbed DEF vars
  <2>11. QED
    BY <1>1, <2>3, <2>4, <2>5, <2>6, <2>7, <2>8, <2>9, <2>10 DEF Next
<1>2. IInv /\ [Next]_vars =>
        [ stats'["clears"] = stats["clears"] /\ stats' # ZeroStats => Accounted ]_vars
  BY <1>1
<1>3. QED
  BY <1>2, InductiveInvariant, PTL DEF Spec, OccupancyIsAccounted, Accounted

-----------------------------------------------------------------------------
(* The slots and bytes implement LossyStore.                                *)

(* The reply as LossyStore sees it.                                         *)
seen == [reply EXCEPT !.op = IF @ = "store_null" THEN "store" ELSE @]

LEMMA ReplyIsSeen ==
  ASSUME NEW op \in Ops, NEW rc, NEW value, NEW size,
         reply' = Reply(op, rc, value, size)
  PROVE  seen' = Abstract!Reply(IF op = "store_null" THEN "store" ELSE op,
                                rc, value, size)
BY DEF seen, Reply, Abstract!Reply

LEMMA RefusalIsAbstract ==
  ASSUME NEW k
  PROVE  KeyRefusal(k) = Abstract!KeyRefusal(k)
BY DEF KeyRefusal, Abstract!KeyRefusal

LEMMA ContentsFollowSlots ==
  ASSUME UNCHANGED <<live, slots>>
  PROVE  contents' = contents
BY DEF contents, Resident, Matches, SameBytes, HomeSlot, Payload

LEMMA RefuseImplements ==
  ASSUME NEW op \in Ops, NEW rc, Refuse(op, rc)
  PROVE  Abstract!Refuse(IF op = "store_null" THEN "store" ELSE op, rc)
<1>1. contents' = contents
  BY ContentsFollowSlots DEF Refuse
<1>2. seen' = Abstract!Reply(IF op = "store_null" THEN "store" ELSE op, rc, NULL, NULL)
  BY ReplyIsSeen DEF Refuse
<1>3. QED
  BY <1>1, <1>2 DEF Refuse, Abstract!Refuse, seen

LEMMA ContentsOfKey ==
  ASSUME IInv, NEW k \in Keys
  PROVE  /\ Resident(k) => /\ contents[k] = Payload(slots[HomeSlot(k)])
                            /\ contents[k] # NULL
                            /\ Len(contents[k]) = slots[HomeSlot(k)].payloadSize
         /\ ~Resident(k) => contents[k] = NULL
BY ResidentEntry, ArtifactAssumption DEF contents

LEMMA InitImplements == Init => Abstract!Init
<1> SUFFICES ASSUME Init PROVE Abstract!Init
  OBVIOUS
<1>1. \A k \in Keys : ~Resident(k)
  BY KeyFacts DEF Init, Resident
<1>2. contents = [k \in Keys |-> NULL]
  BY <1>1 DEF contents
<1>3. seen = Abstract!Reply("none", "OK", NULL, NULL)
  BY DEF Init, seen, Reply, Abstract!Reply
<1>4. QED
  BY <1>2, <1>3 DEF Init, Abstract!Init, seen

LEMMA ConfigureImplements ==
  ASSUME IInv, NEW b \in Budgets, Configure(b)
  PROVE  Abstract!Configure
<1> USE DEF IInv
<1>1. CASE configured /\ Refuse("configure", "INVALID")
  BY <1>1, RefuseImplements DEF Ops, Abstract!Configure
<1>2. CASE ~configured /\ \E rc \in {"CAPACITY", "INIT"} : Refuse("configure", rc)
  BY <1>2, RefuseImplements DEF Ops, Abstract!Configure
<1>3. CASE /\ ~configured
           /\ configured' = TRUE
           /\ live' = [i \in Slots |-> FALSE]
           /\ reply' = Reply("configure", "OK", NULL, NULL)
           /\ UNCHANGED slots
  <2>1. live' = live
    BY <1>3 DEF TypeOK, SlotIntegrity
  <2>2. contents' = contents
    BY <1>3, <2>1, ContentsFollowSlots
  <2>3. seen' = Abstract!Reply("configure", "OK", NULL, NULL)
    BY <1>3, ReplyIsSeen DEF Ops
  <2>4. QED
    BY <1>3, <2>2, <2>3 DEF Abstract!Configure, seen
<1>4. QED
  BY <1>1, <1>2, <1>3 DEF Configure

LEMMA LookupImplements ==
  ASSUME IInv, NEW k \in Keys \cup {NULL}, NEW cap \in Capacities \cup {NULL},
         Lookup(k, cap)
  PROVE  Abstract!Lookup(k, cap)
<1> DEFINE e == slots[HomeSlot(k)]
<1> USE DEF IInv
<1>1. CASE configured /\ cap = NULL /\ Refuse("lookup", "INVALID")
  BY <1>1, RefuseImplements DEF Ops, Abstract!Lookup
<1>2. CASE /\ ~configured \/ cap # NULL
           /\ KeyRefusal(k) # "OK"
           /\ Refuse("lookup", KeyRefusal(k))
  BY <1>2, RefuseImplements, RefusalIsAbstract DEF Ops, Abstract!Lookup
<1>3. CASE /\ KeyRefusal(k) = "OK" /\ cap # NULL /\ Resident(k)
           /\ reply' = IF cap < e.payloadSize
                         THEN Reply("lookup", "SIZE", NULL, e.payloadSize)
                         ELSE Reply("lookup", "OK", Payload(e), e.payloadSize)
           /\ UNCHANGED <<configured, live, slots>>
  <2>1. k \in Keys
    BY <1>3, AcceptedKey
  <2>2. contents[k] = Payload(e) /\ contents[k] # NULL /\ Len(contents[k]) = e.payloadSize
    BY <1>3, <2>1, ContentsOfKey
  <2>3. contents' = contents
    BY <1>3, ContentsFollowSlots
  <2>4. seen' = IF cap < e.payloadSize
                  THEN Abstract!Reply("lookup", "SIZE", NULL, e.payloadSize)
                  ELSE Abstract!Reply("lookup", "OK", Payload(e), e.payloadSize)
    BY <1>3, ReplyIsSeen DEF Ops
  <2>5. QED
    BY <1>3, <2>2, <2>3, <2>4, RefusalIsAbstract DEF Abstract!Lookup, seen
<1>4. CASE /\ KeyRefusal(k) = "OK" /\ cap # NULL /\ ~Resident(k)
           /\ reply' = Reply("lookup", "NOT_FOUND", NULL, 0)
           /\ UNCHANGED <<configured, live, slots>>
  <2>1. k \in Keys
    BY <1>4, AcceptedKey
  <2>2. contents[k] = NULL /\ contents' = contents
    BY <1>4, <2>1, ContentsOfKey, ContentsFollowSlots
  <2>3. seen' = Abstract!Reply("lookup", "NOT_FOUND", NULL, 0)
    BY <1>4, ReplyIsSeen DEF Ops
  <2>4. QED
    BY <1>4, <2>2, <2>3, RefusalIsAbstract DEF Abstract!Lookup, seen
<1>5. QED
  BY <1>1, <1>2, <1>3, <1>4 DEF Lookup

(* Storing v under k gives k the contents v and takes away at most the one  *)
(* key that held the slot.                                                  *)
LEMMA PutImplements ==
  ASSUME IInv, NEW k \in Keys, NEW n \in Nat, NEW entry \in Entry,
         Matches(entry, k), Put(k, n, entry),
         seen' = Abstract!Reply("store", "OK", NULL, NULL)
  PROVE  Abstract!Remember(k, Payload(entry))
<1> DEFINE lost == {j \in Keys \ {k} : Resident(j) /\ HomeSlot(j) = HomeSlot(k)}
<1>1. \A i, j \in lost : i = j
  BY MatchesIsExact DEF Resident
<1>2. lost \in {{}} \cup {{j} : j \in Keys \ {k}}
  BY <1>1
<1>3. ASSUME NEW j \in Keys
      PROVE  contents'[j] = IF j = k THEN Payload(entry)
                            ELSE IF j \in lost THEN NULL ELSE contents[j]
  <2>1. CASE HomeSlot(j) # HomeSlot(k)
    <3>1. (Resident(j)' <=> Resident(j)) /\ slots'[HomeSlot(j)] = slots[HomeSlot(j)]
      BY <2>1, ResidencyAfterPut
    <3>2. contents'[j] = contents[j]
      BY <3>1 DEF contents, Payload, HomeSlot
    <3>3. QED
      BY <2>1, <3>2
  <2>2. CASE HomeSlot(j) = HomeSlot(k) /\ j # k
    <3>1. ~Resident(j)'
      BY <2>2, ResidencyAfterPut
    <3>2. contents'[j] = NULL
      BY <3>1 DEF contents
    <3>3. j \notin lost => contents[j] = NULL
      BY <2>2, ContentsOfKey
    <3>4. QED
      BY <2>2, <3>2, <3>3
  <2>3. CASE j = k
    <3>1. Resident(j)' /\ slots'[HomeSlot(j)] = entry
      BY <2>3, ResidencyAfterPut
    <3>2. QED
      BY <2>3, <3>1 DEF contents, Payload, HomeSlot
  <2>4. QED
    BY <2>1, <2>2, <2>3
<1>4. contents' = [j \in Keys |-> IF j = k THEN Payload(entry)
                                 ELSE IF j \in lost THEN NULL ELSE contents[j]]
  BY <1>3 DEF contents
<1>5. configured' = configured
  BY DEF Put
<1>6. QED
  BY <1>2, <1>4, <1>5 DEF Abstract!Remember, seen

LEMMA StoreImplements ==
  ASSUME IInv, NEW k \in Keys \cup {NULL}, NEW v \in Values, Store(k, v)
  PROVE  Abstract!Store(k, v)
<1> USE DEF IInv
<1>1. CASE KeyRefusal(k) # "OK" /\ Refuse("store", KeyRefusal(k))
  BY <1>1, RefuseImplements, RefusalIsAbstract DEF Ops, Abstract!Store
<1>2. CASE /\ KeyRefusal(k) = "OK" /\ Len(v) > MaxPayloadSize
           /\ Refuse("store", "SIZE")
  BY <1>2, RefuseImplements, RefusalIsAbstract DEF Ops, Abstract!Store
<1>3. CASE /\ KeyRefusal(k) = "OK" /\ Len(v) <= MaxPayloadSize
           /\ Put(k, Len(v), Written(slots[HomeSlot(k)], k, v))
           /\ reply' = Reply("store", "OK", NULL, NULL)
  <2>1. k \in Keys /\ Fits(k) /\ v \in Seq(Byte) /\ Len(v) \in Nat
    BY <1>3, AcceptedKey, ArtifactAssumption
  <2>2. slots[HomeSlot(k)] \in Entry
    BY <2>1, KeyFacts DEF TypeOK
  <2>3. seen' = Abstract!Reply("store", "OK", NULL, NULL)
    BY <1>3, ReplyIsSeen DEF Ops
  <2>4. Abstract!Remember(k, v)
    BY <1>3, <2>1, <2>2, <2>3, WrittenIsFaithful, PutImplements
  <2>5. QED
    BY <1>3, <2>4, RefusalIsAbstract DEF Abstract!Store
<1>4. QED
  BY <1>1, <1>2, <1>3 DEF Store

LEMMA StoreNullImplements ==
  ASSUME IInv, NEW k \in Keys \cup {NULL}, StoreNull(k, 0)
  PROVE  Abstract!Store(k, << >>)
<1> USE DEF IInv
<1>0. Len(<< >>) = 0 /\ ~(0 > MaxPayloadSize) /\ 0 <= MaxPayloadSize
  BY GeometryAssumption
<1>1. CASE KeyRefusal(k) # "OK" /\ Refuse("store_null", KeyRefusal(k))
  BY <1>1, RefuseImplements, RefusalIsAbstract DEF Ops, Abstract!Store
<1>2. CASE /\ KeyRefusal(k) = "OK"
           /\ Put(k, 0, WrittenWithoutPayload(slots[HomeSlot(k)], k, 0))
           /\ reply' = Reply("store_null", "OK", NULL, NULL)
  <2>1. k \in Keys /\ Fits(k)
    BY <1>2, AcceptedKey
  <2>2. slots[HomeSlot(k)] \in Entry
    BY <2>1, KeyFacts DEF TypeOK
  <2>3. seen' = Abstract!Reply("store", "OK", NULL, NULL)
    BY <1>2, ReplyIsSeen DEF Ops
  <2>4. Abstract!Remember(k, << >>)
    BY <1>0, <1>2, <2>1, <2>2, <2>3, WrittenWithoutPayloadIsEntry, PutImplements
  <2>5. QED
    BY <1>0, <1>2, <2>4, RefusalIsAbstract DEF Abstract!Store
<1>3. QED
  BY <1>0, <1>1, <1>2 DEF StoreNull

LEMMA RemoveImplements ==
  ASSUME IInv, NEW k \in Keys \cup {NULL}, Remove(k)
  PROVE  Abstract!Remove(k)
<1> USE DEF IInv
<1>1. CASE KeyRefusal(k) # "OK" /\ Refuse("remove", KeyRefusal(k))
  BY <1>1, RefuseImplements, RefusalIsAbstract DEF Ops, Abstract!Remove
<1>2. CASE KeyRefusal(k) = "OK" /\ ~Resident(k) /\ Refuse("remove", "NOT_FOUND")
  BY <1>2, AcceptedKey, ContentsOfKey, RefuseImplements, RefusalIsAbstract
     DEF Ops, Abstract!Remove
<1>3. CASE /\ KeyRefusal(k) = "OK" /\ Resident(k)
           /\ live' = [live EXCEPT ![HomeSlot(k)] = FALSE]
           /\ reply' = Reply("remove", "OK", NULL, NULL)
           /\ UNCHANGED <<configured, slots>>
  <2>1. k \in Keys /\ HomeSlot(k) \in Slots
    BY <1>3, AcceptedKey, KeyFacts
  <2>2. ASSUME NEW j \in Keys
        PROVE  contents'[j] = IF j = k THEN NULL ELSE contents[j]
    <3>1. HomeSlot(j) \in Slots /\ slots' = slots
      BY <1>3, KeyFacts
    <3>2. CASE HomeSlot(j) = HomeSlot(k)
      <4>1. ~Resident(j)'
        BY <1>3, <2>1, <3>2 DEF Resident, HomeSlot, TypeOK
      <4>2. j # k => ~Resident(j)
        BY <1>3, <2>1, <3>2, MatchesIsExact DEF Resident
      <4>3. j # k => contents[j] = NULL
        BY <4>2, ContentsOfKey
      <4>4. QED
        BY <4>1, <4>3 DEF contents
    <3>3. CASE HomeSlot(j) # HomeSlot(k)
      <4>1. live'[HomeSlot(j)] = live[HomeSlot(j)]
        BY <1>3, <2>1, <3>1, <3>3 DEF TypeOK
      <4>2. Resident(j)' <=> Resident(j)
        BY <3>1, <4>1, ResidencyIsSlotwise
      <4>3. QED
        BY <3>1, <3>3, <4>2 DEF contents, Payload, HomeSlot
    <3>4. QED
      BY <3>2, <3>3
  <2>3. contents' = [contents EXCEPT ![k] = NULL]
    BY <2>2 DEF contents
  <2>4. seen' = Abstract!Reply("remove", "OK", NULL, NULL)
    BY <1>3, ReplyIsSeen DEF Ops
  <2>5. contents[k] # NULL
    BY <1>3, <2>1, ContentsOfKey
  <2>6. QED
    BY <1>3, <2>3, <2>4, <2>5, RefusalIsAbstract DEF Abstract!Remove, seen
<1>4. QED
  BY <1>1, <1>2, <1>3 DEF Remove

LEMMA ClearImplements ==
  ASSUME IInv, Clear
  PROVE  Abstract!Clear
<1>1. CASE ~configured /\ Refuse("clear", "INIT")
  BY <1>1, RefuseImplements DEF Ops, Abstract!Clear
<1>2. CASE /\ configured
           /\ live' = [i \in Slots |-> FALSE]
           /\ reply' = Reply("clear", "OK", NULL, NULL)
           /\ UNCHANGED <<configured, slots>>
  <2>1. \A k \in Keys : ~Resident(k)'
    BY <1>2, KeyFacts DEF Resident, HomeSlot
  <2>2. contents' = [k \in Keys |-> NULL]
    BY <2>1 DEF contents
  <2>3. seen' = Abstract!Reply("clear", "OK", NULL, NULL)
    BY <1>2, ReplyIsSeen DEF Ops
  <2>4. QED
    BY <1>2, <2>2, <2>3 DEF Abstract!Clear, seen
<1>3. QED
  BY <1>1, <1>2 DEF Clear

LEMMA ResetStatsImplements ==
  ASSUME ResetStats
  PROVE  Abstract!ResetStats
<1>1. contents' = contents
  BY ContentsFollowSlots DEF ResetStats
<1>2. seen' = Abstract!Reply("reset_stats", "OK", NULL, NULL)
  BY ReplyIsSeen DEF ResetStats, Ops
<1>3. QED
  BY <1>1, <1>2 DEF ResetStats, Abstract!ResetStats, Abstract!Refuse, seen

LEMMA StepImplements ==
  ASSUME NullValueSizes \subseteq {0}, IInv, [Next]_vars
  PROVE  [Abstract!Next]_(Abstract!avars)
<1>1. CASE \E b \in Budgets : Configure(b)
  BY <1>1, ConfigureImplements DEF Abstract!Next
<1>2. ASSUME NEW k \in Keys \cup {NULL}, NEW cap \in Capacities \cup {NULL},
             Lookup(k, cap)
      PROVE  Abstract!Next
  BY <1>2, LookupImplements DEF Abstract!Next
<1>3. ASSUME NEW k \in Keys \cup {NULL}, NEW v \in Values, Store(k, v)
      PROVE  Abstract!Next
  BY <1>3, StoreImplements DEF Abstract!Next
<1>4. ASSUME NEW k \in Keys \cup {NULL}, NEW n \in NullValueSizes, StoreNull(k, n)
      PROVE  Abstract!Next
  <2>1. n = 0
    OBVIOUS
  <2>2. QED
    BY <1>4, <2>1, StoreNullImplements DEF Abstract!Next
<1>5. ASSUME NEW k \in Keys \cup {NULL}, Remove(k)
      PROVE  Abstract!Next
  BY <1>5, RemoveImplements DEF Abstract!Next
<1>6. CASE Clear
  BY <1>6, ClearImplements DEF Abstract!Next
<1>7. CASE ResetStats
  BY <1>7, ResetStatsImplements DEF Abstract!Next
<1>8. CASE UNCHANGED vars
  <2>1. contents' = contents
    BY <1>8, ContentsFollowSlots DEF vars
  <2>2. QED
    BY <1>8, <2>1 DEF vars, Abstract!avars
<1>9. QED
  BY <1>1, <1>2, <1>3, <1>4, <1>5, <1>6, <1>7, <1>8 DEF Next

LEMMA CallsImplement ==
  ASSUME NullValueSizes \subseteq {0}, IInv
  PROVE  CallsKeepTheirPromise
<1>1. ASSUME NEW k \in Keys \cup {NULL}, NEW cap \in Capacities \cup {NULL},
             Lookup(k, cap)
      PROVE  Abstract!Lookup(k, cap)
  BY <1>1, LookupImplements
<1>2. ASSUME NEW k \in Keys \cup {NULL}, NEW v \in Values, Store(k, v)
      PROVE  Abstract!Store(k, v)
  BY <1>2, StoreImplements
<1>3. ASSUME NEW k \in Keys \cup {NULL}, NEW n \in NullValueSizes, StoreNull(k, n)
      PROVE  Abstract!Store(k, << >>)
  <2>1. n = 0
    OBVIOUS
  <2>2. QED
    BY <1>3, <2>1, StoreNullImplements
<1>4. ASSUME NEW k \in Keys \cup {NULL}, Remove(k)
      PROVE  Abstract!Remove(k)
  BY <1>4, RemoveImplements
<1>5. ASSUME Clear
      PROVE  Abstract!Clear
  BY <1>5, ClearImplements
<1>6. QED
  BY <1>1, <1>2, <1>3, <1>4, <1>5 DEF CallsKeepTheirPromise

(* Callers that give every non-empty value a pointer see a store that may   *)
(* forget but never lies.                                                   *)
THEOREM CacheImplementsLossyStore ==
  ASSUME NullValueSizes \subseteq {0}
  PROVE  Spec => ForgetsButNeverLies
<1>1. IInv /\ [Next]_vars => [Abstract!Next]_(Abstract!avars)
  BY StepImplements
<1>2. IInv => CallsKeepTheirPromise
  BY CallsImplement
<1>3. QED
  BY <1>1, <1>2, InitImplements, InductiveInvariant, PTL
     DEF Spec, ForgetsButNeverLies, Abstract!Spec
=============================================================================
