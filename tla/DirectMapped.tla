---------------------------- MODULE DirectMapped ----------------------------
(***************************************************************************)
(* The slot layout shared by the artifact cache (smc_artifact.c) and the   *)
(* keyed dirty-state tracker (smc_state.c).                                *)
(*                                                                         *)
(* Both tables are direct-mapped: a key has exactly one home slot, and a   *)
(* slot is a fixed stretch of one preallocated buffer.  A slot begins with *)
(* a header (hash, key size, payload size); the key bytes follow, and the  *)
(* payload (the artifact's value, or the observed state) is written right  *)
(* behind the key, so where a payload starts depends on the key's length.  *)
(* The buffer is never scrubbed: writing a short entry over a long one     *)
(* leaves the tail of the old bytes in place.                              *)
(***************************************************************************)
EXTENDS Integers, Sequences

CONSTANTS
  Byte,            \* the values of a byte
  Keys,            \* the non-empty keys callers present, sequences of bytes
  Hash,            \* the 32-bit FNV-1a hash of every such key
  EntryCount,      \* max_entries: the number of slots
  MaxKeySize,      \* max_key_size, in bytes
  MaxPayloadSize   \* max_value_size or max_state_size, in bytes

ASSUME GeometryAssumption ==
  /\ EntryCount \in Nat \ {0}
  /\ MaxKeySize \in Nat \ {0}
  /\ MaxPayloadSize \in Nat

ASSUME KeyAssumption ==
  /\ Byte # {}
  /\ Keys \subseteq Seq(Byte) \ {<< >>}
  /\ Hash \in [Keys -> Nat]

Slots   == 0 .. EntryCount - 1

(* The bytes of a slot behind its header, counted from 1.                  *)
Offsets == 1 .. MaxKeySize + MaxPayloadSize

Entry == [hash : Nat, keySize : Nat, payloadSize : Nat,
          bytes : [Offsets -> Byte]]

-----------------------------------------------------------------------------
HomeSlot(k) == Hash[k] % EntryCount

SameBytes(e, k) == \A i \in 1 .. Len(k) : e.bytes[i] = k[i]

(* Faulty: the byte comparison left out.                                    *)
MatchesOnHash(e, k) == e.hash = Hash[k] /\ e.keySize = Len(k)

(* The comparison every operation makes before it trusts a slot.  The full *)
(* hash is only a filter: two keys may share it, and one key may be a      *)
(* prefix of another.                                                      *)
Matches(e, k) ==
  /\ e.hash = Hash[k]
  /\ e.keySize = Len(k)
  /\ SameBytes(e, k)

(* The payload as memcpy reads it: payloadSize bytes behind the key.       *)
Payload(e) == [i \in 1 .. e.payloadSize |-> e.bytes[e.keySize + i]]

(* The slot after an entry for key k with payload p has been written.      *)
Written(e, k, p) ==
  [hash        |-> Hash[k],
   keySize     |-> Len(k),
   payloadSize |-> Len(p),
   bytes       |-> [i \in Offsets |->
                      IF i <= Len(k) THEN k[i]
                      ELSE IF i <= Len(k) + Len(p) THEN p[i - Len(k)]
                      ELSE e.bytes[i]]]

(* The slot when the caller passes a size but a NULL payload pointer: the  *)
(* size is recorded and the payload bytes are whatever the slot held.      *)
WrittenWithoutPayload(e, k, n) ==
  [hash        |-> Hash[k],
   keySize     |-> Len(k),
   payloadSize |-> n,
   bytes       |-> [i \in Offsets |-> IF i <= Len(k) THEN k[i] ELSE e.bytes[i]]]
=============================================================================
