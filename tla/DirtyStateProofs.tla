-------------------------- MODULE DirtyStateProofs --------------------------
(***************************************************************************)
(* Theorems about the keyed dirty-state tracker, for every key set, hash   *)
(* function, slot geometry and sequence of calls.                          *)
(***************************************************************************)
EXTENDS DirtyState, DirectMappedProofs

(* The comparison of a check reads behind the stored key, so types alone    *)
(* are not inductive; the counters ride along, each step moving several.    *)
IInv == TypeOK /\ SlotIntegrity /\ CountersAgree

LEMMA CheckReplies ==
  ASSUME NEW op \in {"check", "check_null"}, NEW changed \in {0, 1}
  PROVE  Reply(op, "OK", changed) \in Replies
BY DEF Reply, Replies

LEMMA OtherReplies ==
  ASSUME NEW op \in Ops \ {"check", "check_null"}, NEW rc \in Codes
  PROVE  Reply(op, rc, NULL) \in Replies
BY DEF Reply, Replies

LEMMA RefusedReplies ==
  ASSUME NEW op \in Ops, NEW rc \in Codes \ {"OK"}
  PROVE  Reply(op, rc, NULL) \in Replies
BY DEF Reply, Replies

LEMMA RefusalIsCode ==
  ASSUME TypeOK, NEW k, NEW n, NEW out
  PROVE  Refusal(k, n, out) \in {"INIT", "INVALID", "SIZE", "OK"}
BY DEF Refusal, TypeOK

LEMMA AcceptedCheck ==
  ASSUME TypeOK, NEW k \in Keys \cup {NULL}, NEW n \in Nat, NEW out \in BOOLEAN,
         Refusal(k, n, out) = "OK"
  PROVE  configured /\ k \in Keys /\ Fits(k) /\ n <= MaxPayloadSize
<1>1. configured /\ k # NULL /\ ~(Len(k) > MaxKeySize \/ n > MaxPayloadSize)
  BY DEF Refusal, TypeOK
<1>2. k \in Keys /\ Len(k) \in Nat
  BY <1>1, KeyFacts
<1>3. QED
  BY <1>1, <1>2, GeometryAssumption DEF Fits

LEMMA RefuseKeepsInvariant ==
  ASSUME IInv, NEW op \in Ops, NEW rc \in Codes,
         rc # "OK" \/ op \notin {"check", "check_null"}, Refuse(op, rc)
  PROVE  IInv'
<1>1. reply' \in Replies
  BY OtherReplies, RefusedReplies DEF Refuse
<1>2. TypeOK'
  BY <1>1 DEF IInv, TypeOK, Refuse
<1>3. SlotIntegrity' /\ CountersAgree'
  BY DEF IInv, SlotIntegrity, CountersAgree, Refuse
<1>4. QED
  BY <1>2, <1>3 DEF IInv

LEMMA InitInvariant == Init => IInv
<1> SUFFICES ASSUME Init PROVE IInv
  OBVIOUS
<1>1. \A b \in Uninitialized : EmptySlot(b) \in Entry
  BY DirtyStateAssumption DEF EmptySlot, Entry
<1>2. slots \in [Slots -> Entry]
  BY <1>1 DEF Init
<1>3. reply \in Replies
  BY OtherReplies DEF Init, Ops, Codes
<1>4. TypeOK
  BY <1>2, <1>3 DEF Init, TypeOK, ZeroStats
<1>5. SlotIntegrity /\ CountersAgree
  BY DEF Init, SlotIntegrity, CountersAgree, ZeroStats, Counters
<1>6. QED
  BY <1>4, <1>5 DEF IInv

LEMMA ConfigureKeepsInvariant ==
  ASSUME IInv, NEW b \in Budgets, Configure(b)
  PROVE  IInv'
<1>1. CASE \E rc \in {"INVALID", "CAPACITY", "INIT"} : Refuse("configure", rc)
  BY <1>1, RefuseKeepsInvariant DEF Ops, Codes
<1>2. CASE /\ configured' = TRUE
           /\ live' = [i \in Slots |-> FALSE]
           /\ stats' = ZeroStats
           /\ reply' = Reply("configure", "OK", NULL)
           /\ UNCHANGED slots
  <2>1. reply' \in Replies
    BY <1>2, OtherReplies DEF Ops, Codes
  <2>2. TypeOK'
    BY <1>2, <2>1 DEF IInv, TypeOK, ZeroStats
  <2>3. SlotIntegrity' /\ CountersAgree'
    BY <1>2 DEF SlotIntegrity, CountersAgree, ZeroStats, Counters
  <2>4. QED
    BY <2>2, <2>3 DEF IInv
<1>3. QED
  BY <1>1, <1>2 DEF Configure

(* The counters agree after an answer, whichever it is.                     *)
LEMMA UnchangedIsCounted ==
  ASSUME stats \in [Counters -> Nat], CountersAgree, NEW n \in Nat,
         stats' = Count(n, {"checks", "unchanged"})
  PROVE  stats' \in [Counters -> Nat] /\ CountersAgree'
BY DEF Count, Counters, CountersAgree

LEMMA ChangedIsCounted ==
  ASSUME stats \in [Counters -> Nat], CountersAgree, NEW n \in Nat,
         NEW lost \in {{}, {"evictions"}},
         stats' = Count(n, {"checks", "changed", "stores"} \cup lost)
  PROVE  stats' \in [Counters -> Nat] /\ CountersAgree'
BY DEF Count, Counters, CountersAgree

LEMMA AnswerUnchangedKeepsInvariant ==
  ASSUME IInv, NEW op \in {"check", "check_null"}, NEW n \in Nat,
         AnswerUnchanged(op, n)
  PROVE  IInv'
<1>1. reply' \in Replies
  BY CheckReplies DEF AnswerUnchanged
<1>2. stats' \in [Counters -> Nat] /\ CountersAgree'
  BY UnchangedIsCounted DEF AnswerUnchanged, IInv, TypeOK
<1>3. TypeOK' /\ SlotIntegrity'
  BY <1>1, <1>2 DEF AnswerUnchanged, IInv, TypeOK, SlotIntegrity
<1>4. QED
  BY <1>2, <1>3 DEF IInv

(* A changed answer writes a well-formed entry into the home slot of its    *)
(* key and leaves every other slot alone.                                   *)
LEMMA AnswerChangedKeepsInvariant ==
  ASSUME IInv, configured, NEW op \in {"check", "check_null"},
         NEW k \in Keys, Fits(k), NEW n \in Nat,
         NEW entry \in Entry, Matches(entry, k), entry.payloadSize <= MaxPayloadSize,
         AnswerChanged(op, k, n, entry)
  PROVE  IInv'
<1>1. HomeSlot(k) \in Slots
  BY KeyFacts
<1>2. stats' \in [Counters -> Nat] /\ CountersAgree'
  <2>1. stats \in [Counters -> Nat] /\ CountersAgree
    BY DEF IInv, TypeOK
  <2>2. PICK lost \in {{}, {"evictions"}} :
          stats' = Count(n, {"checks", "changed", "stores"} \cup lost)
    BY DEF AnswerChanged
  <2>3. QED
    BY <2>1, <2>2, ChangedIsCounted
<1>3. TypeOK'
  <2>1. slots' \in [Slots -> Entry] /\ live' \in [Slots -> BOOLEAN]
    BY <1>1 DEF AnswerChanged, IInv, TypeOK
  <2>2. reply' \in Replies
    BY CheckReplies DEF AnswerChanged
  <2>3. QED
    BY <1>2, <2>1, <2>2 DEF AnswerChanged, IInv, TypeOK
<1>4. SlotIntegrity'
  <2> SUFFICES ASSUME NEW i \in Slots, live'[i]
               PROVE  \E j \in Keys : /\ HomeSlot(j) = i
                                      /\ Matches(slots'[i], j)
                                      /\ Len(j) <= MaxKeySize
                                      /\ slots'[i].payloadSize <= MaxPayloadSize
    BY DEF SlotIntegrity, AnswerChanged
  <2>1. CASE i = HomeSlot(k)
    <3>1. slots'[i] = entry
      BY <2>1, <1>1 DEF AnswerChanged, IInv, TypeOK
    <3>2. QED
      BY <2>1, <3>1 DEF Fits
  <2>2. CASE i # HomeSlot(k)
    <3>1. slots'[i] = slots[i] /\ live[i]
      BY <2>2, <1>1 DEF AnswerChanged, IInv, TypeOK
    <3>2. QED
      BY <3>1 DEF IInv, SlotIntegrity
  <2>3. QED
    BY <2>1, <2>2
<1>5. QED
  BY <1>2, <1>3, <1>4 DEF IInv

LEMMA CheckKeepsInvariant ==
  ASSUME IInv, NEW k \in Keys \cup {NULL}, NEW s \in States, NEW out \in BOOLEAN,
         Check(k, s, out)
  PROVE  IInv'
<1>1. s \in Seq(Byte) /\ Len(s) \in Nat
  BY DirtyStateAssumption
<1>2. CASE /\ Refusal(k, Len(s), out) # "OK"
           /\ Refuse("check", Refusal(k, Len(s), out))
  BY <1>2, RefusalIsCode, RefuseKeepsInvariant DEF IInv, Ops, Codes
<1>3. CASE AnswerUnchanged("check", Len(s))
  BY <1>1, <1>3, AnswerUnchangedKeepsInvariant
<1>4. CASE /\ Refusal(k, Len(s), out) = "OK"
           /\ AnswerChanged("check", k, Len(s), Written(slots[HomeSlot(k)], k, s))
  <2>1. configured /\ k \in Keys /\ Fits(k) /\ Len(s) <= MaxPayloadSize
    BY <1>1, <1>4, AcceptedCheck DEF IInv
  <2>2. slots[HomeSlot(k)] \in Entry
    BY <2>1, KeyFacts DEF IInv, TypeOK
  <2>3. QED
    BY <1>1, <1>4, <2>1, <2>2, WrittenIsFaithful, AnswerChangedKeepsInvariant
<1>5. QED
  BY <1>2, <1>3, <1>4 DEF Check

LEMMA CheckNullKeepsInvariant ==
  ASSUME IInv, NEW k \in Keys \cup {NULL}, NEW n \in NullStateSizes,
         CheckNull(k, n)
  PROVE  IInv'
<1>1. n \in Nat
  BY DirtyStateAssumption
<1>2. CASE /\ Refusal(k, n, TRUE) # "OK"
           /\ Refuse("check_null", Refusal(k, n, TRUE))
  BY <1>2, RefusalIsCode, RefuseKeepsInvariant DEF IInv, Ops, Codes
<1>3. CASE AnswerUnchanged("check_null", n)
  BY <1>1, <1>3, AnswerUnchangedKeepsInvariant
<1>4. CASE /\ Refusal(k, n, TRUE) = "OK"
           /\ AnswerChanged("check_null", k, n,
                            WrittenWithoutPayload(slots[HomeSlot(k)], k, n))
  <2>1. configured /\ k \in Keys /\ Fits(k) /\ n <= MaxPayloadSize
    BY <1>1, <1>4, AcceptedCheck DEF IInv
  <2>2. slots[HomeSlot(k)] \in Entry
    BY <2>1, KeyFacts DEF IInv, TypeOK
  <2>3. QED
    BY <1>1, <1>4, <2>1, <2>2, WrittenWithoutPayloadIsEntry,
       AnswerChangedKeepsInvariant
<1>5. QED
  BY <1>2, <1>3, <1>4 DEF CheckNull

LEMMA ClearKeepsInvariant ==
  ASSUME IInv, Clear
  PROVE  IInv'
<1>1. CASE Refuse("clear", "INIT")
  BY <1>1, RefuseKeepsInvariant DEF Ops, Codes
<1>2. CASE /\ live' = [i \in Slots |-> FALSE]
           /\ reply' = Reply("clear", "OK", NULL)
           /\ UNCHANGED <<configured, slots, stats>>
  <2>1. reply' \in Replies
    BY <1>2, OtherReplies DEF Ops, Codes
  <2>2. TypeOK' /\ SlotIntegrity' /\ CountersAgree'
    BY <1>2, <2>1 DEF IInv, TypeOK, SlotIntegrity, CountersAgree
  <2>3. QED
    BY <2>2 DEF IInv
<1>3. QED
  BY <1>1, <1>2 DEF Clear

LEMMA ResetStatsKeepsInvariant ==
  ASSUME IInv, ResetStats
  PROVE  IInv'
<1>1. reply' \in Replies
  BY OtherReplies DEF ResetStats, Ops, Codes
<1>2. TypeOK'
  BY <1>1 DEF IInv, TypeOK, ResetStats, ZeroStats
<1>3. SlotIntegrity' /\ CountersAgree'
  BY DEF IInv, SlotIntegrity, CountersAgree, ResetStats, ZeroStats, Counters
<1>4. QED
  BY <1>2, <1>3 DEF IInv

LEMMA StepKeepsInvariant == IInv /\ [Next]_vars => IInv'
<1> SUFFICES ASSUME IInv, [Next]_vars
             PROVE  IInv'
  OBVIOUS
<1>1. CASE \E b \in Budgets : Configure(b)
  BY <1>1, ConfigureKeepsInvariant
<1>2. CASE \E k \in Keys \cup {NULL}, s \in States, out \in BOOLEAN : Check(k, s, out)
  BY <1>2, CheckKeepsInvariant
<1>3. CASE \E k \in Keys \cup {NULL}, n \in NullStateSizes : CheckNull(k, n)
  BY <1>3, CheckNullKeepsInvariant
<1>4. CASE Clear
  BY <1>4, ClearKeepsInvariant
<1>5. CASE ResetStats
  BY <1>5, ResetStatsKeepsInvariant
<1>6. CASE UNCHANGED vars
  BY <1>6 DEF vars, IInv, TypeOK, SlotIntegrity, CountersAgree
<1>7. QED
  BY <1>1, <1>2, <1>3, <1>4, <1>5, <1>6 DEF Next

(* The inductive invariant holds throughout.                                *)
THEOREM InductiveInvariant == Spec => []IInv
BY InitInvariant, StepKeepsInvariant, PTL DEF Spec

(* Type correctness, down to the bytes of every slot.                       *)
THEOREM TypeCorrect == Spec => []TypeOK
<1>1. IInv => TypeOK
  BY DEF IInv
<1>2. QED
  BY <1>1, InductiveInvariant, PTL

(* Every live slot holds a well-formed entry of a key that belongs there.   *)
THEOREM SlotsStayWellFormed == Spec => []SlotIntegrity
<1>1. IInv => SlotIntegrity
  BY DEF IInv
<1>2. QED
  BY <1>1, InductiveInvariant, PTL

(* Every accepted check is accounted for once, every change is a store, and *)
(* only stores evict.                                                       *)
THEOREM CountersStayInAgreement == Spec => []CountersAgree
<1>1. IInv => CountersAgree
  BY DEF IInv
<1>2. QED
  BY <1>1, InductiveInvariant, PTL

-----------------------------------------------------------------------------
(* Forgetting.                                                              *)

LEMMA TrackingIsSlotwise ==
  ASSUME NEW j \in Keys, live'[HomeSlot(j)] = live[HomeSlot(j)],
         slots'[HomeSlot(j)] = slots[HomeSlot(j)]
  PROVE  Tracked(j)' <=> Tracked(j)
BY DEF Tracked, Matches, SameBytes, HomeSlot

(* Observing k makes k tracked, and every other key of its slot not.        *)
LEMMA TrackingAfterChange ==
  ASSUME IInv, NEW op, NEW k \in Keys, NEW n \in Nat, NEW entry \in Entry,
         Matches(entry, k), AnswerChanged(op, k, n, entry),
         NEW j \in Keys
  PROVE  /\ HomeSlot(j) # HomeSlot(k) =>
              /\ Tracked(j)' <=> Tracked(j)
              /\ slots'[HomeSlot(j)] = slots[HomeSlot(j)]
         /\ HomeSlot(j) = HomeSlot(k) =>
              /\ Tracked(j)' <=> j = k
              /\ slots'[HomeSlot(j)] = entry
<1> USE DEF IInv
<1>1. HomeSlot(k) \in Slots /\ HomeSlot(j) \in Slots
  BY KeyFacts
<1>2. CASE HomeSlot(j) # HomeSlot(k)
  <2>1. live'[HomeSlot(j)] = live[HomeSlot(j)] /\ slots'[HomeSlot(j)] = slots[HomeSlot(j)]
    BY <1>1, <1>2 DEF AnswerChanged, TypeOK
  <2>2. QED
    BY <1>2, <2>1, TrackingIsSlotwise
<1>3. CASE HomeSlot(j) = HomeSlot(k)
  <2>1. live'[HomeSlot(j)] /\ slots'[HomeSlot(j)] = entry
    BY <1>1, <1>3 DEF AnswerChanged, TypeOK
  <2>2. Tracked(j)' <=> Matches(entry, j)
    BY <2>1 DEF Tracked, Matches, SameBytes, HomeSlot
  <2>3. QED
    BY <1>3, <2>1, <2>2, MatchesIsExact
<1>4. QED
  BY <1>2, <1>3

LEMMA ForgottenByChange ==
  ASSUME IInv, NEW op, NEW k \in Keys, NEW n \in Nat, NEW entry \in Entry,
         Matches(entry, k), AnswerChanged(op, k, n, entry),
         NEW j \in Keys, Tracked(j), ~Tracked(j)'
  PROVE  stats'["evictions"] = stats["evictions"] + 1
<1>1. HomeSlot(j) = HomeSlot(k) /\ j # k
  BY TrackingAfterChange
<1>2. Collision(k)
  BY <1>1, MatchesIsExact DEF Tracked, Collision
<1>3. QED
  BY <1>2 DEF AnswerChanged, Count, Counters

(* A key the tracker forgets was evicted, and counted, or cleared.          *)
THEOREM ForgettingIsCounted == Spec => EveryForgottenKeyIsCounted
<1> DEFINE Counted == \/ stats'["evictions"] = stats["evictions"] + 1
                      \/ reply'.op = "clear"
<1>1. ASSUME IInv, [Next]_vars, NEW j \in Keys, Tracked(j), ~Tracked(j)'
      PROVE  Counted
  <2> USE DEF IInv
  <2>1. configured /\ live[HomeSlot(j)]
    BY <1>1, KeyFacts DEF Tracked, SlotIntegrity
  <2>2. ~UNCHANGED <<live, slots>>
    BY <1>1, TrackingIsSlotwise
  <2>3. ASSUME NEW b \in Budgets, Configure(b)
        PROVE  Counted
    BY <2>1, <2>2, <2>3 DEF Configure, Refuse
  <2>4. ASSUME NEW k \in Keys \cup {NULL}, NEW s \in States, NEW out \in BOOLEAN,
               Check(k, s, out)
        PROVE  Counted
    <3>1. /\ Refusal(k, Len(s), out) = "OK"
          /\ AnswerChanged("check", k, Len(s), Written(slots[HomeSlot(k)], k, s))
      BY <2>2, <2>4 DEF Check, Refuse, AnswerUnchanged
    <3>2. s \in Seq(Byte) /\ Len(s) \in Nat
      BY DirtyStateAssumption
    <3>3. k \in Keys /\ Fits(k) /\ Len(s) <= MaxPayloadSize
      BY <1>1, <3>1, <3>2, AcceptedCheck
    <3>4. slots[HomeSlot(k)] \in Entry
      BY <1>1, <3>3, KeyFacts DEF TypeOK
    <3>5. QED
      BY <1>1, <3>1, <3>2, <3>3, <3>4, WrittenIsFaithful, ForgottenByChange
  <2>5. ASSUME NEW k \in Keys \cup {NULL}, NEW n \in NullStateSizes, CheckNull(k, n)
        PROVE  Counted
    <3>1. /\ Refusal(k, n, TRUE) = "OK"
          /\ AnswerChanged("check_null", k, n,
                           WrittenWithoutPayload(slots[HomeSlot(k)], k, n))
      BY <2>2, <2>5 DEF CheckNull, Refuse, AnswerUnchanged
    <3>2. n \in Nat
      BY DirtyStateAssumption
    <3>3. k \in Keys /\ Fits(k) /\ n <= MaxPayloadSize
      BY <1>1, <3>1, <3>2, AcceptedCheck
    <3>4. slots[HomeSlot(k)] \in Entry
      BY <1>1, <3>3, KeyFacts DEF TypeOK
    <3>5. QED
      BY <1>1, <3>1, <3>2, <3>3, <3>4, WrittenWithoutPayloadIsEntry, ForgottenByChange
  <2>6. ASSUME Clear
        PROVE  Counted
    BY <2>2, <2>6 DEF Clear, Refuse, Reply
  <2>7. ~ResetStats
    BY <2>2 DEF ResetStats
  <2>8. QED
    BY <1>1, <2>2, <2>3, <2>4, <2>5, <2>6, <2>7 DEF Next, vars
<1>2. IInv /\ [Next]_vars =>
        [ (\E k \in Keys : Tracked(k) /\ ~Tracked(k)') => Counted ]_vars
  BY <1>1
<1>3. QED
  BY <1>2, InductiveInvariant, PTL DEF Spec, EveryForgottenKeyIsCounted

-----------------------------------------------------------------------------
(* The slots and bytes implement ChangeDetector.                            *)

(* The reply as ChangeDetector sees it.                                     *)
seen == [reply EXCEPT !.op = IF @ = "check_null" THEN "check" ELSE @]

LEMMA ReplyIsSeen ==
  ASSUME NEW op \in Ops, NEW rc, NEW changed, reply' = Reply(op, rc, changed)
  PROVE  seen' = Abstract!Reply(IF op = "check_null" THEN "check" ELSE op,
                                rc, changed)
BY DEF seen, Reply, Abstract!Reply

LEMMA RefusalIsAbstract ==
  ASSUME NEW k, NEW s, NEW out
  PROVE  Refusal(k, Len(s), out) = Abstract!Refusal(k, s, out)
BY DEF Refusal, Abstract!Refusal

LEMMA ObservationsFollowSlots ==
  ASSUME UNCHANGED <<live, slots>>
  PROVE  observations' = observations
BY DEF observations, Tracked, Matches, SameBytes, HomeSlot, Payload

LEMMA RefuseImplements ==
  ASSUME NEW op \in Ops, NEW rc, Refuse(op, rc)
  PROVE  Abstract!Refuse(IF op = "check_null" THEN "check" ELSE op, rc)
<1>1. observations' = observations
  BY ObservationsFollowSlots DEF Refuse
<1>2. seen' = Abstract!Reply(IF op = "check_null" THEN "check" ELSE op, rc, NULL)
  BY ReplyIsSeen DEF Refuse
<1>3. QED
  BY <1>1, <1>2 DEF Refuse, Abstract!Refuse, seen

LEMMA TrackedEntry ==
  ASSUME IInv, NEW k \in Keys, Tracked(k)
  PROVE  LET e == slots[HomeSlot(k)] IN
         /\ e \in Entry
         /\ e.payloadSize \in Nat
         /\ Payload(e) \in Seq(Byte)
         /\ Len(Payload(e)) = e.payloadSize
<1> DEFINE e == slots[HomeSlot(k)]
<1>1. HomeSlot(k) \in Slots
  BY KeyFacts
<1>2. e \in Entry
  BY <1>1 DEF IInv, TypeOK
<1>3. PICK j \in Keys : /\ Matches(e, j)
                        /\ Len(j) <= MaxKeySize
                        /\ e.payloadSize <= MaxPayloadSize
  BY <1>1 DEF IInv, SlotIntegrity, Tracked
<1>4. e.keySize <= MaxKeySize
  BY <1>3 DEF Matches
<1>5. e.payloadSize \in Nat
  BY <1>2 DEF Entry
<1>6. QED
  BY <1>2, <1>3, <1>4, <1>5, PayloadIsBytes

(* Comparing sizes and bytes decides equality of the payload.               *)
LEMMA SameStateIsEquality ==
  ASSUME NEW e, NEW s \in Seq(Byte), Payload(e) \in Seq(Byte),
         Len(Payload(e)) = e.payloadSize
  PROVE  SameState(e, s) <=> Payload(e) = s
<1>1. ASSUME SameState(e, s)
      PROVE  Payload(e) = s
  <2>1. Len(Payload(e)) = Len(s)
    BY <1>1 DEF SameState
  <2>2. \A i \in 1 .. Len(s) : Payload(e)[i] = s[i]
    BY <1>1 DEF SameState, Payload
  <2>3. QED
    BY <2>1, <2>2
<1>2. ASSUME Payload(e) = s
      PROVE  SameState(e, s)
  <2>1. e.payloadSize = Len(s)
    BY <1>2
  <2>2. \A i \in 1 .. e.payloadSize : Payload(e)[i] = e.bytes[e.keySize + i]
    BY DEF Payload
  <2>3. QED
    BY <1>2, <2>1, <2>2 DEF SameState
<1>3. QED
  BY <1>1, <1>2

LEMMA ObservationOfKey ==
  ASSUME IInv, NEW k \in Keys
  PROVE  /\ Tracked(k) => /\ observations[k] = Payload(slots[HomeSlot(k)])
                           /\ observations[k] # NULL
         /\ ~Tracked(k) => observations[k] = NULL
BY TrackedEntry, DirtyStateAssumption DEF observations

LEMMA InitImplements == Init => Abstract!Init
<1> SUFFICES ASSUME Init PROVE Abstract!Init
  OBVIOUS
<1>1. \A k \in Keys : ~Tracked(k)
  BY KeyFacts DEF Init, Tracked
<1>2. observations = [k \in Keys |-> NULL]
  BY <1>1 DEF observations
<1>3. seen = Abstract!Reply("none", "OK", NULL)
  BY DEF Init, seen, Reply, Abstract!Reply
<1>4. QED
  BY <1>2, <1>3 DEF Init, Abstract!Init, seen

LEMMA ConfigureImplements ==
  ASSUME IInv, NEW b \in Budgets, Configure(b)
  PROVE  Abstract!Configure
<1> USE DEF IInv
<1>1. CASE configured /\ Refuse("configure", "INVALID")
  BY <1>1, RefuseImplements DEF Ops, Abstract!Configure
<1>2. CASE ~configured /\ \E rc \in {"CAPACITY", "INIT"} : Refuse("configure", rc)
  BY <1>2, RefuseImplements DEF Ops, Abstract!Configure
<1>3. CASE /\ ~configured
           /\ configured' = TRUE
           /\ live' = [i \in Slots |-> FALSE]
           /\ reply' = Reply("configure", "OK", NULL)
           /\ UNCHANGED slots
  <2>1. live' = live
    BY <1>3 DEF TypeOK, SlotIntegrity
  <2>2. observations' = observations
    BY <1>3, <2>1, ObservationsFollowSlots
  <2>3. seen' = Abstract!Reply("configure", "OK", NULL)
    BY <1>3, ReplyIsSeen DEF Ops
  <2>4. QED
    BY <1>3, <2>2, <2>3 DEF Abstract!Configure, seen
<1>4. QED
  BY <1>1, <1>2, <1>3 DEF Configure

(* An unchanged answer is given only for the state last observed.           *)
LEMMA UnchangedImplements ==
  ASSUME IInv, NEW op \in {"check", "check_null"}, NEW n, NEW k \in Keys,
         NEW s, Tracked(k), Payload(slots[HomeSlot(k)]) = s,
         AnswerUnchanged(op, n)
  PROVE  Abstract!Unchanged(k, s)
<1>1. observations[k] = s
  BY ObservationOfKey
<1>2. observations' = observations
  BY ObservationsFollowSlots DEF AnswerUnchanged
<1>3. seen' = Abstract!Reply("check", "OK", 0)
  BY ReplyIsSeen DEF AnswerUnchanged, Ops
<1>4. QED
  BY <1>1, <1>2, <1>3 DEF Abstract!Unchanged, AnswerUnchanged, seen

(* A changed answer records the state under k and takes away at most the    *)
(* one key that held the slot.                                              *)
LEMMA ChangedImplements ==
  ASSUME IInv, NEW op \in {"check", "check_null"}, NEW k \in Keys, NEW n \in Nat,
         NEW entry \in Entry, Matches(entry, k),
         Payload(entry) # observations[k],
         AnswerChanged(op, k, n, entry)
  PROVE  Abstract!Changed(k, Payload(entry))
<1> DEFINE lost == {j \in Keys \ {k} : Tracked(j) /\ HomeSlot(j) = HomeSlot(k)}
<1>1. \A i, j \in lost : i = j
  BY MatchesIsExact DEF Tracked
<1>2. lost \in {{}} \cup {{j} : j \in Keys \ {k}}
  BY <1>1
<1>3. ASSUME NEW j \in Keys
      PROVE  observations'[j] = IF j = k THEN Payload(entry)
                                ELSE IF j \in lost THEN NULL ELSE observations[j]
  <2>1. CASE HomeSlot(j) # HomeSlot(k)
    <3>1. (Tracked(j)' <=> Tracked(j)) /\ slots'[HomeSlot(j)] = slots[HomeSlot(j)]
      BY <2>1, TrackingAfterChange
    <3>2. observations'[j] = observations[j]
      BY <3>1 DEF observations, Payload, HomeSlot
    <3>3. QED
      BY <2>1, <3>2
  <2>2. CASE HomeSlot(j) = HomeSlot(k) /\ j # k
    <3>1. ~Tracked(j)'
      BY <2>2, TrackingAfterChange
    <3>2. observations'[j] = NULL
      BY <3>1 DEF observations
    <3>3. j \notin lost => observations[j] = NULL
      BY <2>2, ObservationOfKey
    <3>4. QED
      BY <2>2, <3>2, <3>3
  <2>3. CASE j = k
    <3>1. Tracked(j)' /\ slots'[HomeSlot(j)] = entry
      BY <2>3, TrackingAfterChange
    <3>2. QED
      BY <2>3, <3>1 DEF observations, Payload, HomeSlot
  <2>4. QED
    BY <2>1, <2>2, <2>3
<1>4. observations' = [j \in Keys |-> IF j = k THEN Payload(entry)
                                      ELSE IF j \in lost THEN NULL
                                      ELSE observations[j]]
  BY <1>3 DEF observations
<1>5. seen' = Abstract!Reply("check", "OK", 1)
  BY ReplyIsSeen DEF AnswerChanged, Ops
<1>6. configured' = configured
  BY DEF AnswerChanged
<1>7. QED
  BY <1>2, <1>4, <1>5, <1>6 DEF Abstract!Changed, seen

LEMMA CheckImplements ==
  ASSUME IInv, NEW k \in Keys \cup {NULL}, NEW s \in States, NEW out \in BOOLEAN,
         Check(k, s, out)
  PROVE  Abstract!Check(k, s, out)
<1> DEFINE e == slots[HomeSlot(k)]
<1>1. s \in Seq(Byte) /\ Len(s) \in Nat
  BY DirtyStateAssumption
<1>2. CASE /\ Refusal(k, Len(s), out) # "OK"
           /\ Refuse("check", Refusal(k, Len(s), out))
  BY <1>2, RefuseImplements, RefusalIsAbstract DEF Ops, Abstract!Check
<1>3. CASE /\ Refusal(k, Len(s), out) = "OK"
           /\ Tracked(k) /\ SameState(e, s)
           /\ AnswerUnchanged("check", Len(s))
  <2>1. k \in Keys
    BY <1>1, <1>3, AcceptedCheck DEF IInv
  <2>2. Payload(e) = s
    BY <1>1, <1>3, <2>1, TrackedEntry, SameStateIsEquality
  <2>3. Abstract!Unchanged(k, s)
    BY <1>3, <2>1, <2>2, UnchangedImplements
  <2>4. QED
    BY <1>3, <2>3, RefusalIsAbstract DEF Abstract!Check
<1>4. CASE /\ Refusal(k, Len(s), out) = "OK"
           /\ ~(Tracked(k) /\ SameState(e, s))
           /\ AnswerChanged("check", k, Len(s), Written(e, k, s))
  <2>1. k \in Keys /\ Fits(k) /\ Len(s) <= MaxPayloadSize
    BY <1>1, <1>4, AcceptedCheck DEF IInv
  <2>2. e \in Entry
    BY <2>1, KeyFacts DEF IInv, TypeOK
  <2>3. observations[k] # s
    <3>1. CASE Tracked(k)
      <4>1. Payload(e) # s
        BY <1>1, <1>4, <2>1, <3>1, TrackedEntry, SameStateIsEquality
      <4>2. QED
        BY <2>1, <3>1, <4>1, ObservationOfKey
    <3>2. CASE ~Tracked(k)
      <4>1. observations[k] = NULL
        BY <2>1, <3>2, ObservationOfKey
      <4>2. QED
        BY <1>1, <4>1, DirtyStateAssumption
    <3>3. QED
      BY <3>1, <3>2
  <2>4. /\ Written(e, k, s) \in Entry
        /\ Matches(Written(e, k, s), k)
        /\ Payload(Written(e, k, s)) = s
    BY <1>1, <2>1, <2>2, WrittenIsFaithful
  <2>5. Abstract!Changed(k, s)
    BY <1>1, <1>4, <2>1, <2>3, <2>4, ChangedImplements
  <2>6. QED
    BY <1>4, <2>5, RefusalIsAbstract DEF Abstract!Check
<1>5. QED
  BY <1>2, <1>3, <1>4 DEF Check

LEMMA CheckNullImplements ==
  ASSUME IInv, NEW k \in Keys \cup {NULL}, CheckNull(k, 0)
  PROVE  Abstract!Check(k, << >>, TRUE)
<1> DEFINE e == slots[HomeSlot(k)]
<1>0. Refusal(k, 0, TRUE) = "OK" => /\ k \in Keys
                                    /\ Fits(k)
                                    /\ 0 <= MaxPayloadSize
  <2>1. TypeOK /\ 0 \in Nat /\ TRUE \in BOOLEAN
    BY DEF IInv
  <2>2. QED
    BY <2>1, AcceptedCheck
<1>1. Refusal(k, 0, TRUE) = Abstract!Refusal(k, << >>, TRUE)
  BY RefusalIsAbstract
<1>2. CASE /\ Refusal(k, 0, TRUE) # "OK"
           /\ Refuse("check_null", Refusal(k, 0, TRUE))
  BY <1>1, <1>2, RefuseImplements DEF Ops, Abstract!Check
<1>3. CASE /\ Refusal(k, 0, TRUE) = "OK"
           /\ Tracked(k) /\ e.payloadSize = 0
           /\ AnswerUnchanged("check_null", 0)
  <2>1. k \in Keys
    BY <1>0, <1>3
  <2>2. Payload(e) = << >>
    BY <1>3 DEF Payload
  <2>3. Abstract!Unchanged(k, << >>)
    BY <1>3, <2>1, <2>2, UnchangedImplements
  <2>4. QED
    BY <1>1, <1>3, <2>3 DEF Abstract!Check
<1>4. CASE /\ Refusal(k, 0, TRUE) = "OK"
           /\ ~(Tracked(k) /\ e.payloadSize = 0)
           /\ AnswerChanged("check_null", k, 0, WrittenWithoutPayload(e, k, 0))
  <2>1. k \in Keys /\ Fits(k) /\ 0 <= MaxPayloadSize
    BY <1>0, <1>4
  <2>2. e \in Entry
    BY <2>1, KeyFacts DEF IInv, TypeOK
  <2>3. observations[k] # << >>
    <3>1. CASE Tracked(k)
      <4>1. Len(Payload(e)) # 0
        BY <1>4, <2>1, <3>1, TrackedEntry
      <4>2. QED
        BY <2>1, <3>1, <4>1, ObservationOfKey
    <3>2. CASE ~Tracked(k)
      <4>1. observations[k] = NULL
        BY <2>1, <3>2, ObservationOfKey
      <4>2. << >> \in Seq(Byte)
        OBVIOUS
      <4>3. QED
        BY <4>1, <4>2, DirtyStateAssumption
    <3>3. QED
      BY <3>1, <3>2
  <2>4. /\ WrittenWithoutPayload(e, k, 0) \in Entry
        /\ Matches(WrittenWithoutPayload(e, k, 0), k)
        /\ Payload(WrittenWithoutPayload(e, k, 0)) = << >>
    BY <2>1, <2>2, WrittenWithoutPayloadIsEntry
  <2>5. Abstract!Changed(k, << >>)
    BY <1>4, <2>1, <2>3, <2>4, ChangedImplements
  <2>6. QED
    BY <1>1, <1>4, <2>5 DEF Abstract!Check
<1>5. QED
  BY <1>2, <1>3, <1>4 DEF CheckNull

LEMMA ClearImplements ==
  ASSUME Clear
  PROVE  Abstract!Clear
<1>1. CASE ~configured /\ Refuse("clear", "INIT")
  BY <1>1, RefuseImplements DEF Ops, Abstract!Clear
<1>2. CASE /\ configured
           /\ live' = [i \in Slots |-> FALSE]
           /\ reply' = Reply("clear", "OK", NULL)
           /\ UNCHANGED <<configured, slots, stats>>
  <2>1. \A k \in Keys : ~Tracked(k)'
    BY <1>2, KeyFacts DEF Tracked, HomeSlot
  <2>2. observations' = [k \in Keys |-> NULL]
    BY <2>1 DEF observations
  <2>3. seen' = Abstract!Reply("clear", "OK", NULL)
    BY <1>2, ReplyIsSeen DEF Ops
  <2>4. QED
    BY <1>2, <2>2, <2>3 DEF Abstract!Clear, seen
<1>3. QED
  BY <1>1, <1>2 DEF Clear

LEMMA ResetStatsImplements ==
  ASSUME ResetStats
  PROVE  Abstract!ResetStats
<1>1. observations' = observations
  BY ObservationsFollowSlots DEF ResetStats
<1>2. seen' = Abstract!Reply("reset_stats", "OK", NULL)
  BY ReplyIsSeen DEF ResetStats, Ops
<1>3. QED
  BY <1>1, <1>2 DEF ResetStats, Abstract!ResetStats, Abstract!Refuse, seen

LEMMA StepImplements ==
  ASSUME NullStateSizes \subseteq {0}, IInv, [Next]_vars
  PROVE  [Abstract!Next]_(Abstract!avars)
<1>1. CASE \E b \in Budgets : Configure(b)
  BY <1>1, ConfigureImplements DEF Abstract!Next
<1>2. ASSUME NEW k \in Keys \cup {NULL}, NEW s \in States, NEW out \in BOOLEAN,
             Check(k, s, out)
      PROVE  Abstract!Next
  BY <1>2, CheckImplements DEF Abstract!Next
<1>3. ASSUME NEW k \in Keys \cup {NULL}, NEW n \in NullStateSizes, CheckNull(k, n)
      PROVE  Abstract!Next
  <2>1. n = 0
    OBVIOUS
  <2>2. QED
    BY <1>3, <2>1, CheckNullImplements DEF Abstract!Next
<1>4. CASE Clear
  BY <1>4, ClearImplements DEF Abstract!Next
<1>5. CASE ResetStats
  BY <1>5, ResetStatsImplements DEF Abstract!Next
<1>6. CASE UNCHANGED vars
  <2>1. observations' = observations
    BY <1>6, ObservationsFollowSlots DEF vars
  <2>2. QED
    BY <1>6, <2>1 DEF vars, Abstract!avars
<1>7. QED
  BY <1>1, <1>2, <1>3, <1>4, <1>5, <1>6 DEF Next

LEMMA ChecksImplement ==
  ASSUME NullStateSizes \subseteq {0}, IInv
  PROVE  ChecksKeepTheirPromise
<1>1. ASSUME NEW k \in Keys \cup {NULL}, NEW s \in States, NEW out \in BOOLEAN,
             Check(k, s, out)
      PROVE  Abstract!Check(k, s, out)
  BY <1>1, CheckImplements
<1>2. ASSUME NEW k \in Keys \cup {NULL}, NEW n \in NullStateSizes, CheckNull(k, n)
      PROVE  Abstract!Check(k, << >>, TRUE)
  <2>1. n = 0
    OBVIOUS
  <2>2. QED
    BY <1>2, <2>1, CheckNullImplements
<1>3. ASSUME Clear
      PROVE  Abstract!Clear
  BY <1>3, ClearImplements
<1>4. QED
  BY <1>1, <1>2, <1>3 DEF ChecksKeepTheirPromise

(* Callers that give every non-empty state a pointer are never told         *)
(* "unchanged" about a state that differs from the last one they presented. *)
THEOREM TrackerImplementsChangeDetector ==
  ASSUME NullStateSizes \subseteq {0}
  PROVE  Spec => NeverMissesAChange
<1>1. IInv /\ [Next]_vars => [Abstract!Next]_(Abstract!avars)
  BY StepImplements
<1>2. IInv => ChecksKeepTheirPromise
  BY ChecksImplement
<1>3. QED
  BY <1>1, <1>2, InitImplements, InductiveInvariant, PTL
     DEF Spec, NeverMissesAChange, Abstract!Spec
=============================================================================
