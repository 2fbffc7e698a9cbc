----------------------------- MODULE DirtyState -----------------------------
(***************************************************************************)
(* The keyed dirty-state tracker of a context: smc_state_configure,        *)
(* _changed, _clear and _reset_stats, down to the bytes of the slots.      *)
(* Like the artifact cache it is a direct-mapped table (DirectMapped); the *)
(* payload of an entry is the state observed last under its key.  A check  *)
(* compares and updates in one call.                                       *)
(*                                                                         *)
(* entries[i] # NULL is written live[i]; slots[i].occupied mirrors it and  *)
(* is never read.                                                          *)
(***************************************************************************)
EXTENDS DirectMapped

CONSTANTS
  States,          \* the states callers present
  NullStateSizes,  \* sizes a caller passes together with a NULL state pointer
  Budgets,         \* memory_budget_bytes in a configuration; 0 is "no limit"
  HeaderSize,      \* sizeof(smc_state_entry_t)
  Uninitialized,   \* what malloc may leave in the bytes of a slot
  NULL             \* a NULL pointer, or an output left unwritten

ASSUME DirtyStateAssumption ==
  /\ States \subseteq Seq(Byte)
  /\ NullStateSizes \subseteq Nat
  /\ Budgets \subseteq Nat
  /\ HeaderSize \in Nat
  /\ Uninitialized \subseteq [Offsets -> Byte]
  /\ NULL \notin Seq(Byte)

VARIABLES
  configured,  \* state_configured of the context
  live,        \* live[i]: entries[i] points at slot i
  slots,       \* the preallocated slot memory
  stats,       \* state_stats of the context
  reply        \* what the last call returned: code and *out_changed

vars == <<configured, live, slots, stats, reply>>

Counters == {"checks", "changed", "unchanged", "stores", "evictions",
             "bytes_compared"}

ZeroStats == [c \in Counters |-> 0]

Ops   == {"none", "configure", "check", "check_null", "clear", "reset_stats"}
Codes == {"OK", "INIT", "INVALID", "SIZE", "CAPACITY"}

Reply(op, rc, changed) == [op |-> op, rc |-> rc, changed |-> changed]

(* A check that succeeds answers 0 or 1; no other call writes an answer.    *)
Replies ==
  [op : {"check", "check_null"}, rc : {"OK"}, changed : {0, 1}]
    \cup [op : Ops \ {"check", "check_null"}, rc : Codes, changed : {NULL}]
    \cup [op : Ops, rc : Codes \ {"OK"}, changed : {NULL}]

(* An early return: nothing changes but the code handed back.               *)
Refuse(op, rc) ==
  /\ reply' = Reply(op, rc, NULL)
  /\ UNCHANGED <<configured, live, slots, stats>>

EmptySlot(bytes) ==
  [hash |-> 0, keySize |-> 0, payloadSize |-> 0, bytes |-> bytes]

Init ==
  /\ configured = FALSE
  /\ live = [i \in Slots |-> FALSE]
  /\ slots \in [Slots -> {EmptySlot(b) : b \in Uninitialized}]
  /\ stats = ZeroStats
  /\ reply = Reply("none", "OK", NULL)

-----------------------------------------------------------------------------
BufferSize == EntryCount * (HeaderSize + MaxKeySize + MaxPayloadSize)

Configure(budget) ==
  \/ configured /\ Refuse("configure", "INVALID")
  \/ /\ ~configured
     /\ budget # 0 /\ BufferSize > budget
     /\ Refuse("configure", "CAPACITY")
  \/ /\ ~configured
     /\ budget = 0 \/ BufferSize <= budget
     /\ \/ Refuse("configure", "INIT")
        \/ /\ configured' = TRUE
           /\ live' = [i \in Slots |-> FALSE]
           /\ stats' = ZeroStats
           /\ reply' = Reply("configure", "OK", NULL)
           /\ UNCHANGED slots

(* Faulty: a state larger than max_state_size gets through.                 *)
RefusalOfKeyOnly(k, n, out) ==
  IF ~configured THEN "INIT"
  ELSE IF k = NULL \/ ~out THEN "INVALID"
  ELSE IF Len(k) > MaxKeySize THEN "SIZE" ELSE "OK"

(* The refusals of a check, in the order they are made; out tells whether   *)
(* the caller gave a place for the answer.                                  *)
Refusal(k, n, out) ==
  IF ~configured THEN "INIT"
  ELSE IF k = NULL \/ ~out THEN "INVALID"
  ELSE IF Len(k) > MaxKeySize \/ n > MaxPayloadSize THEN "SIZE" ELSE "OK"

(* The key's slot is live and holds this very key.                          *)
Tracked(k) == live[HomeSlot(k)] /\ Matches(slots[HomeSlot(k)], k)

(* Faulty: a state that is a prefix of the stored one, or of which it is a  *)
(* prefix, passes for the same.                                             *)
SameStatePrefix(e, s) ==
  \A i \in 1 .. Len(s) : i <= e.payloadSize => e.bytes[e.keySize + i] = s[i]

(* The state stored behind the key has the size and the bytes of s.         *)
SameState(e, s) ==
  /\ e.payloadSize = Len(s)
  /\ \A i \in 1 .. Len(s) : e.bytes[e.keySize + i] = s[i]

Count(n, counters) ==
  [c \in Counters |->
     IF c = "bytes_compared" THEN stats[c] + n
     ELSE IF c \in counters THEN stats[c] + 1 ELSE stats[c]]

(* Nothing is written when the state is the one already stored.             *)
AnswerUnchanged(op, n) ==
  /\ stats' = Count(n, {"checks", "unchanged"})
  /\ reply' = Reply(op, "OK", 0)
  /\ UNCHANGED <<configured, live, slots>>

(* Faulty: only keys with the same full hash are taken to collide.          *)
CollisionOnHash(k) ==
  live[HomeSlot(k)] /\ ~Tracked(k) /\ slots[HomeSlot(k)].hash = Hash[k]

(* A live slot that holds another key is about to lose it.                  *)
Collision(k) == live[HomeSlot(k)] /\ ~Tracked(k)

(* Faulty: the answer is written only for a key seen before.                *)
AnswerChangedOnUpdateOnly(op, k, n, entry) ==
  /\ stats' = Count(n, {"checks", "changed", "stores"} \cup
                       (IF Collision(k) THEN {"evictions"} ELSE {}))
  /\ slots' = [slots EXCEPT ![HomeSlot(k)] = entry]
  /\ live' = [live EXCEPT ![HomeSlot(k)] = TRUE]
  /\ reply' = Reply(op, "OK", IF Tracked(k) THEN 1 ELSE NULL)
  /\ UNCHANGED configured

(* Faulty: an update in place is counted as a change but not as a store.    *)
AnswerChangedWithoutStore(op, k, n, entry) ==
  /\ stats' = Count(n, {"checks", "changed"} \cup
                       (IF Tracked(k) THEN {} ELSE {"stores"}))
  /\ slots' = [slots EXCEPT ![HomeSlot(k)] = entry]
  /\ live' = [live EXCEPT ![HomeSlot(k)] = TRUE]
  /\ reply' = Reply(op, "OK", 1)
  /\ UNCHANGED configured

AnswerChanged(op, k, n, entry) ==
  /\ stats' = Count(n, {"checks", "changed", "stores"} \cup
                       (IF Collision(k) THEN {"evictions"} ELSE {}))
  /\ slots' = [slots EXCEPT ![HomeSlot(k)] = entry]
  /\ live' = [live EXCEPT ![HomeSlot(k)] = TRUE]
  /\ reply' = Reply(op, "OK", 1)
  /\ UNCHANGED configured

Check(k, s, out) ==
  LET e == slots[HomeSlot(k)] IN
  \/ Refusal(k, Len(s), out) # "OK" /\ Refuse("check", Refusal(k, Len(s), out))
  \/ /\ Refusal(k, Len(s), out) = "OK"
     /\ Tracked(k) /\ SameState(e, s)
     /\ AnswerUnchanged("check", Len(s))
  \/ /\ Refusal(k, Len(s), out) = "OK"
     /\ ~(Tracked(k) /\ SameState(e, s))
     /\ AnswerChanged("check", k, Len(s), Written(e, k, s))

(* A check with a NULL state: the size is taken at its word and no byte is  *)
(* copied.  A NULL state of the stored size, if that is not zero, would be  *)
(* read by memcmp: that crash is left out.                                  *)
CheckNull(k, n) ==
  LET e == slots[HomeSlot(k)] IN
  \/ Refusal(k, n, TRUE) # "OK" /\ Refuse("check_null", Refusal(k, n, TRUE))
  \/ /\ Refusal(k, n, TRUE) = "OK"
     /\ Tracked(k) /\ e.payloadSize = 0 /\ n = 0
     /\ AnswerUnchanged("check_null", n)
  \/ /\ Refusal(k, n, TRUE) = "OK"
     /\ ~(Tracked(k) /\ e.payloadSize = n)
     /\ AnswerChanged("check_null", k, n, WrittenWithoutPayload(e, k, n))

(* Clearing is not counted.                                                 *)
Clear ==
  \/ ~configured /\ Refuse("clear", "INIT")
  \/ /\ configured
     /\ live' = [i \in Slots |-> FALSE]
     /\ reply' = Reply("clear", "OK", NULL)
     /\ UNCHANGED <<configured, slots, stats>>

(* Allowed on a context whose tracker was never configured.                 *)
ResetStats ==
  /\ stats' = ZeroStats
  /\ reply' = Reply("reset_stats", "OK", NULL)
  /\ UNCHANGED <<configured, live, slots>>

Next ==
  \/ \E b \in Budgets : Configure(b)
  \/ \E k \in Keys \cup {NULL} :
       \/ \E s \in States, out \in BOOLEAN : Check(k, s, out)
       \/ \E n \in NullStateSizes : CheckNull(k, n)
  \/ Clear
  \/ ResetStats

Spec == Init /\ [][Next]_vars

-----------------------------------------------------------------------------
TypeOK ==
  /\ configured \in BOOLEAN
  /\ live \in [Slots -> BOOLEAN]
  /\ slots \in [Slots -> Entry]
  /\ stats \in [Counters -> Nat]
  /\ reply \in Replies

(* The bytes of every live slot spell a key that belongs in that slot, with *)
(* that key's hash and sizes the slot has room for: what a check trusts     *)
(* when it compares states behind a key of the recorded length.             *)
SlotIntegrity ==
  \A i \in Slots : live[i] =>
    /\ configured
    /\ \E k \in Keys :
         /\ HomeSlot(k) = i
         /\ Matches(slots[i], k)
         /\ Len(k) <= MaxKeySize
         /\ slots[i].payloadSize <= MaxPayloadSize

(* The counters, bumped on three separate paths, agree with each other at   *)
(* every moment: each accepted check was answered one way or the other,     *)
(* every change was stored, and only a store can evict.                     *)
CountersAgree ==
  /\ stats["checks"] = stats["changed"] + stats["unchanged"]
  /\ stats["stores"] = stats["changed"]
  /\ stats["evictions"] <= stats["stores"]

(* A key the tracker stops knowing, whose next check is therefore a false   *)
(* alarm, is counted as an eviction, unless everything was cleared.         *)
EveryForgottenKeyIsCounted ==
  [][ (\E k \in Keys : Tracked(k) /\ ~Tracked(k)') =>
        \/ stats'["evictions"] = stats["evictions"] + 1
        \/ reply'.op = "clear" ]_vars

(* The detector that never misses a change; a NULL state is the empty one.  *)
observations ==
  [k \in Keys |-> IF Tracked(k) THEN Payload(slots[HomeSlot(k)]) ELSE NULL]

Abstract ==
  INSTANCE ChangeDetector WITH
    ready    <- configured,
    observed <- observations,
    reply    <- [reply EXCEPT !.op = IF @ = "check_null" THEN "check" ELSE @]

(* Replies do not name the key or state they are about, so a step of the    *)
(* detector might be that of another: call by call, a check answers what    *)
(* the detector answers to the very arguments it was given.                 *)
ChecksKeepTheirPromise ==
  /\ \A k \in Keys \cup {NULL} :
       /\ \A s \in States, out \in BOOLEAN :
            Check(k, s, out) => Abstract!Check(k, s, out)
       /\ \A n \in NullStateSizes : CheckNull(k, n) => Abstract!Check(k, << >>, TRUE)
  /\ Clear => Abstract!Clear

(* The table implements that detector: "unchanged" is answered only to a    *)
(* state that is, byte for byte, the one presented last under that key, as  *)
(* long as a NULL state comes with size zero.                               *)
NeverMissesAChange == Abstract!Spec /\ [][ChecksKeepTheirPromise]_vars
=============================================================================
