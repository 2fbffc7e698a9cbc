------------------------- MODULE DirectMappedProofs -------------------------
(***************************************************************************)
(* Facts about the slot layout, for every key set, hash function and       *)
(* geometry, on which the proofs about both direct-mapped tables rest.     *)
(***************************************************************************)
EXTENDS DirectMapped, TLAPS

(* A key fits its slot.                                                     *)
Fits(k) == Len(k) <= MaxKeySize

LEMMA KeyFacts ==
  ASSUME NEW k \in Keys
  PROVE  /\ k \in Seq(Byte)
         /\ Len(k) \in Nat \ {0}
         /\ \A i \in 1 .. Len(k) : k[i] \in Byte
         /\ Hash[k] \in Nat
         /\ HomeSlot(k) \in Slots
<1>1. k \in Seq(Byte) /\ k # << >>
  BY KeyAssumption
<1>2. Len(k) \in Nat /\ Len(k) # 0
  BY <1>1
<1>3. \A i \in 1 .. Len(k) : k[i] \in Byte
  BY <1>1
<1>4. Hash[k] \in Nat
  BY KeyAssumption
<1>5. HomeSlot(k) \in Slots
  BY <1>4, GeometryAssumption DEF HomeSlot, Slots
<1>6. QED
  BY <1>1, <1>2, <1>3, <1>4, <1>5

(* The comparison is exact: an entry is taken for at most one key, whatever *)
(* the hash function does.                                                  *)
LEMMA MatchesIsExact ==
  ASSUME NEW e, NEW j \in Keys, NEW k \in Keys, Matches(e, j), Matches(e, k)
  PROVE  j = k
<1>1. j \in Seq(Byte) /\ k \in Seq(Byte)
  BY KeyFacts
<1>2. Len(j) = Len(k)
  BY DEF Matches
<1>3. \A i \in 1 .. Len(j) : j[i] = k[i]
  BY <1>2 DEF Matches, SameBytes
<1>4. QED
  BY <1>1, <1>2, <1>3

(* Writing an entry leaves an entry for that key, holding that payload.     *)
LEMMA WrittenIsFaithful ==
  ASSUME NEW e \in Entry, NEW k \in Keys, Fits(k),
         NEW p \in Seq(Byte), Len(p) <= MaxPayloadSize
  PROVE  /\ Written(e, k, p) \in Entry
         /\ Matches(Written(e, k, p), k)
         /\ Written(e, k, p).payloadSize = Len(p)
         /\ Payload(Written(e, k, p)) = p
<1> DEFINE w == Written(e, k, p)
<1>1. /\ k \in Seq(Byte) /\ Len(k) \in Nat \ {0} /\ Hash[k] \in Nat
      /\ \A i \in 1 .. Len(k) : k[i] \in Byte
  BY KeyFacts
<1>2. Len(p) \in Nat /\ \A i \in 1 .. Len(p) : p[i] \in Byte
  OBVIOUS
<1>3. Len(k) + Len(p) <= MaxKeySize + MaxPayloadSize
  BY <1>1, <1>2, GeometryAssumption DEF Fits
<1>4. w.bytes \in [Offsets -> Byte]
  <2>1. \A i \in Offsets : i \in Nat /\ i >= 1 /\ e.bytes[i] \in Byte
    BY GeometryAssumption DEF Offsets, Entry
  <2>2. ASSUME NEW i \in Offsets
        PROVE  w.bytes[i] \in Byte
    <3>1. CASE i <= Len(k)
      BY <1>1, <2>1, <3>1 DEF Written
    <3>2. CASE ~(i <= Len(k)) /\ i <= Len(k) + Len(p)
      <4>1. i - Len(k) \in 1 .. Len(p)
        BY <1>1, <1>2, <2>1, <3>2
      <4>2. QED
        BY <1>2, <3>2, <4>1 DEF Written
    <3>3. CASE ~(i <= Len(k)) /\ ~(i <= Len(k) + Len(p))
      BY <2>1, <3>3 DEF Written
    <3>4. QED
      BY <3>1, <3>2, <3>3
  <2>3. QED
    BY <2>2 DEF Written
<1>5. w \in Entry
  BY <1>1, <1>2, <1>4 DEF Written, Entry
<1>6. Matches(w, k)
  BY <1>1, <1>2, <1>3, GeometryAssumption DEF Written, Matches, SameBytes, Offsets
<1>7. w.payloadSize = Len(p) /\ w.keySize = Len(k)
  BY DEF Written
<1>8. \A i \in 1 .. Len(p) : w.bytes[Len(k) + i] = p[i]
  BY <1>1, <1>2, <1>3, GeometryAssumption DEF Written, Offsets
<1>9. Payload(w) = p
  BY <1>2, <1>7, <1>8 DEF Payload
<1>10. QED
  BY <1>5, <1>6, <1>7, <1>9

(* A NULL payload of size n leaves an entry of the key, with that size and  *)
(* unspecified bytes; for size zero the payload is empty.                   *)
LEMMA WrittenWithoutPayloadIsEntry ==
  ASSUME NEW e \in Entry, NEW k \in Keys, Fits(k),
         NEW n \in Nat, n <= MaxPayloadSize
  PROVE  /\ WrittenWithoutPayload(e, k, n) \in Entry
         /\ Matches(WrittenWithoutPayload(e, k, n), k)
         /\ WrittenWithoutPayload(e, k, n).payloadSize = n
         /\ n = 0 => Payload(WrittenWithoutPayload(e, k, n)) = << >>
<1> DEFINE w == WrittenWithoutPayload(e, k, n)
<1>1. /\ k \in Seq(Byte) /\ Len(k) \in Nat \ {0} /\ Hash[k] \in Nat
      /\ \A i \in 1 .. Len(k) : k[i] \in Byte
  BY KeyFacts
<1>2. w.bytes \in [Offsets -> Byte]
  <2>1. \A i \in Offsets : i \in Nat /\ i >= 1 /\ e.bytes[i] \in Byte
    BY GeometryAssumption DEF Offsets, Entry
  <2>2. ASSUME NEW i \in Offsets
        PROVE  w.bytes[i] \in Byte
    BY <1>1, <2>1 DEF WrittenWithoutPayload
  <2>3. QED
    BY <2>2 DEF WrittenWithoutPayload
<1>3. w \in Entry
  BY <1>1, <1>2 DEF WrittenWithoutPayload, Entry
<1>4. Matches(w, k)
  BY <1>1, GeometryAssumption
     DEF WrittenWithoutPayload, Matches, SameBytes, Offsets, Fits
<1>5. w.payloadSize = n
  BY DEF WrittenWithoutPayload
<1>6. n = 0 => Payload(w) = << >>
  BY <1>5 DEF Payload
<1>7. QED
  BY <1>3, <1>4, <1>5, <1>6

(* What an entry of admissible sizes holds is a sequence of bytes of the    *)
(* recorded length.                                                         *)
LEMMA PayloadIsBytes ==
  ASSUME NEW e \in Entry, e.keySize <= MaxKeySize,
         e.payloadSize <= MaxPayloadSize
  PROVE  Payload(e) \in Seq(Byte) /\ Len(Payload(e)) = e.payloadSize
<1>1. e.keySize \in Nat /\ e.payloadSize \in Nat /\ e.bytes \in [Offsets -> Byte]
  BY DEF Entry
<1>2. \A i \in 1 .. e.payloadSize : e.keySize + i \in Offsets
  BY <1>1, GeometryAssumption DEF Offsets
<1>3. \A i \in 1 .. e.payloadSize : e.bytes[e.keySize + i] \in Byte
  BY <1>1, <1>2
<1>4. QED
  BY <1>1, <1>3 DEF Payload
=============================================================================
