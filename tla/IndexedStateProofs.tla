------------------------- MODULE IndexedStateProofs -------------------------
(***************************************************************************)
(* Theorems about the indexed dirty-state tracker, for every number of     *)
(* indices, record size, batch and stream layout.                          *)
(***************************************************************************)
EXTENDS IndexedState, FiniteSetTheorems, WellFoundedInduction, TLAPS

IInv == TypeOK /\ CountersAgree

-----------------------------------------------------------------------------
(* Arithmetic of the layouts.                                               *)

LEMMA ProductIsMonotone ==
  ASSUME NEW i \in Nat, NEW n \in Nat, i < n, NEW stride \in Nat
  PROVE  /\ i * stride \in Nat
         /\ i * stride <= (n - 1) * stride
         /\ (n - 1) * stride \in Nat
OBVIOUS

LEMMA WithinReach ==
  ASSUME NEW p \in Nat, NEW q \in Nat, p <= q, NEW size \in Nat, NEW len \in Nat,
         q + size <= len, NEW x \in Nat, x < size
  PROVE  /\ p + x + 1 \in 1 .. len
         /\ p + (x + 1) \in 1 .. len
OBVIOUS

LEMMA ProductDistributes ==
  ASSUME NEW a \in Nat, NEW b \in Nat, NEW s \in Nat
  PROVE  (a + b) * s = a * s + b * s
OBVIOUS

(* An address lies in the slot of one index, at one place in its record.    *)
LEMMA AddressFacts ==
  ASSUME NEW a \in Addresses
  PROVE  /\ StateSize \in Nat \ {0}
         /\ a \in Nat
         /\ a \div StateSize \in Nat
         /\ a % StateSize \in 0 .. StateSize - 1
<1>1. a \in Nat /\ a < Count * StateSize
  BY IndexedAssumption DEF Addresses
<1>2. StateSize \in Nat /\ StateSize # 0
  BY <1>1, IndexedAssumption
<1>3. QED
  BY <1>1, <1>2

(* The bytes of record i of a batch, where the caller's memory has them.    *)
LEMMA BatchBytes ==
  ASSUME NEW b \in Batches, NEW i \in 0 .. b.count - 1, NEW j \in 1 .. StateSize,
         b.data # NULL
  PROVE  b.data[i * b.stride + j] \in Byte
<1>1. /\ b.count \in Nat /\ b.stride \in Nat /\ b.data \in Seq(Byte)
      /\ Readable(b.data, b.count, b.stride, StateSize)
      /\ StateSize \in Nat
  BY IndexedAssumption DEF BatchType
<1>2. (b.count - 1) * b.stride + StateSize <= Len(b.data)
  BY <1>1 DEF Readable
<1>3. i \in Nat /\ i < b.count
  BY <1>1
<1>4. /\ i * b.stride \in Nat /\ (b.count - 1) * b.stride \in Nat
      /\ i * b.stride <= (b.count - 1) * b.stride
  BY <1>1, <1>3, ProductIsMonotone
<1>5. i * b.stride + j \in 1 .. Len(b.data)
  <2>1. j - 1 \in Nat /\ j - 1 < StateSize /\ (j - 1) + 1 = j /\ Len(b.data) \in Nat
    BY <1>1
  <2>2. i * b.stride + ((j - 1) + 1) \in 1 .. Len(b.data)
    BY <1>1, <1>2, <1>4, <2>1, WithinReach
  <2>3. QED
    BY <2>1, <2>2
<1>6. QED
  BY <1>1, <1>5

(* Byte x of the field of record i in stream s.                             *)
LEMMA StreamBytes ==
  ASSUME NEW c \in StreamCalls, NEW s \in 1 .. Len(c.streams),
         NEW i \in 0 .. c.count - 1, NEW x \in 0 .. c.streams[s].fieldSize - 1
  PROVE  c.streams[s].data[i * c.streams[s].stride + x + 1] \in Byte
<1> DEFINE t == c.streams[s]
<1>1. c.streams \in Seq(StreamType) /\ c.count \in Nat
  BY IndexedAssumption
<1>2. t \in StreamType /\ s \in DOMAIN c.streams
  BY <1>1
<1>3. Readable(t.data, c.count, t.stride, t.fieldSize)
  BY <1>2, IndexedAssumption
<1>4. t.stride \in Nat /\ t.fieldSize \in Nat /\ t.fieldSize > 0 /\ c.count > 0
  BY <1>1, <1>2 DEF StreamType
<1>5. t.data \in Seq(Byte) /\ (c.count - 1) * t.stride + t.fieldSize <= Len(t.data)
  BY <1>2, <1>3, <1>4 DEF Readable, StreamType
<1>6. i \in Nat /\ i < c.count
  BY <1>1
<1>7. /\ i * t.stride \in Nat /\ (c.count - 1) * t.stride \in Nat
      /\ i * t.stride <= (c.count - 1) * t.stride
  BY <1>1, <1>4, <1>6, ProductIsMonotone
<1>8. i * t.stride + x + 1 \in 1 .. Len(t.data)
  <2>1. x \in Nat /\ x < t.fieldSize /\ Len(t.data) \in Nat
    BY <1>4, <1>5
  <2>2. QED
    BY <1>4, <1>5, <1>7, <2>1, WithinReach
<1>9. QED
  BY <1>5, <1>8

-----------------------------------------------------------------------------
(* The buffer stays a buffer of bytes.                                      *)

LEMMA OverwriteIsMemory ==
  ASSUME TypeOK, NEW i, NEW s \in Seq(Byte), Len(s) = StateSize
  PROVE  Overwrite(i, s) \in [Addresses -> Byte]
<1>1. ASSUME NEW a \in Addresses
      PROVE  s[(a % StateSize) + 1] \in Byte /\ memory[a] \in Byte
  <2>1. (a % StateSize) + 1 \in 1 .. Len(s)
    BY <1>1, AddressFacts
  <2>2. QED
    BY <1>1, <2>1 DEF TypeOK
<1>2. QED
  BY <1>1 DEF Overwrite

LEMMA BatchCopiedIsMemory ==
  ASSUME TypeOK, NEW b \in Batches, NEW cap, NEW out,
         BatchRefusal(b, cap, out) = "OK"
  PROVE  BatchCopied(b) \in [Addresses -> Byte]
<1>1. b.count > 0 /\ StateSize > 0 => b.data # NULL
  BY DEF BatchRefusal, TypeOK
<1>2. ASSUME NEW a \in Addresses, a \div StateSize \in BatchDirty(b)
      PROVE  BatchRecord(b, a \div StateSize)[(a % StateSize) + 1] \in Byte
  <2>1. a \div StateSize \in 0 .. b.count - 1
    BY <1>2 DEF BatchDirty
  <2>2. StateSize > 0 /\ (a % StateSize) + 1 \in 1 .. StateSize
    BY <1>2, AddressFacts
  <2>3. b.count \in Nat /\ b.count > 0
    BY <2>1, IndexedAssumption DEF BatchType
  <2>4. QED
    BY <1>1, <2>1, <2>2, <2>3, BatchBytes DEF BatchRecord
<1>3. QED
  BY <1>2 DEF BatchCopied, TypeOK

LEMMA StreamCopiedIsMemory ==
  ASSUME TypeOK, NEW c \in StreamCalls
  PROVE  StreamCopied(c) \in [Addresses -> Byte]
<1> DEFINE new(a) ==
      LET i == a \div StateSize
          b == a % StateSize
      IN  IF i \in StreamDirty(c) /\ FieldAt(c.streams, b) # {}
            THEN LET s == CHOOSE s \in FieldAt(c.streams, b) : TRUE
                 IN  c.streams[s].data[i * c.streams[s].stride
                                         + (b - FieldOffset(c.streams, s)) + 1]
            ELSE memory[a]
<1>1. ASSUME NEW a \in Addresses
      PROVE  new(a) \in Byte
  <2> DEFINE i == a \div StateSize
             b == a % StateSize
             s == CHOOSE s \in FieldAt(c.streams, b) : TRUE
  <2>1. CASE i \in StreamDirty(c) /\ FieldAt(c.streams, b) # {}
    <3>1. i \in 0 .. c.count - 1
      BY <2>1 DEF StreamDirty
    <3>2. s \in FieldAt(c.streams, b)
      BY <2>1
    <3>3. /\ s \in 1 .. Len(c.streams)
          /\ b - FieldOffset(c.streams, s) \in 0 .. c.streams[s].fieldSize - 1
      BY <3>2 DEF FieldAt
    <3> HIDE DEF i, b, s
    <3>4. c.streams[s].data[i * c.streams[s].stride
                              + (b - FieldOffset(c.streams, s)) + 1] \in Byte
      BY <3>1, <3>3, StreamBytes
    <3>5. QED
      BY <2>1, <3>4 DEF i, b, s
  <2>2. CASE ~(i \in StreamDirty(c) /\ FieldAt(c.streams, b) # {})
    BY <1>1, <2>2 DEF TypeOK
  <2>3. QED
    BY <2>1, <2>2
<1>2. StreamCopied(c) = [a \in Addresses |-> new(a)]
  BY DEF StreamCopied
<1>3. QED
  BY <1>1, <1>2

-----------------------------------------------------------------------------
(* The counters.                                                            *)

LEMMA ZeroStatsAgree == stats = ZeroStats => stats \in [Counters -> Nat] /\ CountersAgree
<1>1. 0 = 0 * StateSize
  BY IndexedAssumption
<1>2. QED
  BY <1>1 DEF ZeroStats, Counters, CountersAgree

(* Comparing n records, some of them changed, keeps the counters agreeing.  *)
LEMMA ChecksAreCounted ==
  ASSUME stats \in [Counters -> Nat], CountersAgree,
         NEW n \in Nat, NEW changed \in Nat, changed <= n,
         stats' = CountChecks(n, changed)
  PROVE  stats' \in [Counters -> Nat] /\ CountersAgree'
<1>1. StateSize \in Nat /\ n * StateSize \in Nat
  BY IndexedAssumption
<1>2. stats' \in [Counters -> Nat]
  BY <1>1 DEF CountChecks, Counters
<1>3. /\ stats'["checks"] = stats["checks"] + n
      /\ stats'["changed"] = stats["changed"] + changed
      /\ stats'["unchanged"] = stats["unchanged"] + (n - changed)
      /\ stats'["stores"] = stats["stores"] + changed
      /\ stats'["bytes_compared"] = stats["bytes_compared"] + n * StateSize
  BY <1>1 DEF CountChecks, Counters
<1>4. \A c \in Counters : stats[c] \in Nat
  OBVIOUS
<1>5. stats'["bytes_compared"] = stats'["checks"] * StateSize
  <2>1. stats["checks"] \in Nat
    BY <1>4 DEF Counters
  <2>2. (stats["checks"] + n) * StateSize = stats["checks"] * StateSize + n * StateSize
    BY <1>1, <2>1, ProductDistributes
  <2>3. QED
    BY <1>3, <2>2 DEF CountersAgree
<1>6. /\ stats'["checks"] = stats'["changed"] + stats'["unchanged"]
      /\ stats'["stores"] = stats'["changed"]
  BY <1>3, <1>4 DEF CountersAgree, Counters
<1>7. QED
  BY <1>2, <1>5, <1>6 DEF CountersAgree

(* Counting calls that compare nothing does not disturb the agreement.      *)
LEMMA OthersAreCounted ==
  ASSUME stats \in [Counters -> Nat], CountersAgree,
         NEW c \in {"out_of_range", "clears"},
         stats' = [stats EXCEPT ![c] = @ + 1]
  PROVE  stats' \in [Counters -> Nat] /\ CountersAgree'
<1>1. stats' \in [Counters -> Nat]
  BY DEF Counters
<1>2. \A d \in {"checks", "changed", "unchanged", "stores", "bytes_compared"} :
        stats'[d] = stats[d]
  BY DEF Counters
<1>3. QED
  BY <1>1, <1>2 DEF CountersAgree

(* Of n records, at most n are dirty.                                       *)
LEMMA DirtyIsBounded ==
  ASSUME NEW n \in Nat, NEW dirty \in SUBSET (0 .. n - 1)
  PROVE  /\ IsFiniteSet(dirty)
         /\ Cardinality(dirty) \in Nat
         /\ Cardinality(dirty) <= n
<1>1. IsFiniteSet(0 .. n - 1) /\ Cardinality(0 .. n - 1) = n
  BY FS_Interval
<1>2. IsFiniteSet(dirty) /\ Cardinality(dirty) <= Cardinality(0 .. n - 1)
  BY <1>1, FS_Subset
<1>3. QED
  BY <1>1, <1>2, FS_CardinalityType

-----------------------------------------------------------------------------
(* The inductive invariant.                                                 *)

LEMMA ReplyFields ==
  ASSUME NEW op, NEW rc, NEW answer
  PROVE  Reply(op, rc, answer).op = op /\ Reply(op, rc, answer).rc = rc
BY DEF Reply

LEMMA RefuseKeepsInvariant ==
  ASSUME IInv, NEW op \in Ops, NEW rc \in Codes, Refuse(op, rc)
  PROVE  IInv'
BY ReplyFields DEF IInv, TypeOK, CountersAgree, Refuse

LEMMA InitInvariant == Init => IInv
<1> SUFFICES ASSUME Init PROVE IInv
  OBVIOUS
<1>1. memory \in [Addresses -> Byte]
  BY IndexedAssumption DEF Init
<1>2. stats \in [Counters -> Nat] /\ CountersAgree
  BY ZeroStatsAgree DEF Init
<1>3. reply.op \in Ops /\ reply.rc \in Codes
  BY ReplyFields DEF Init, Ops, Codes
<1>4. configured \in BOOLEAN /\ valid \in [Indices -> BOOLEAN]
  BY DEF Init
<1>5. QED
  BY <1>1, <1>2, <1>3, <1>4 DEF IInv, TypeOK

LEMMA ConfigureKeepsInvariant ==
  ASSUME IInv, NEW b \in Budgets, Configure(b)
  PROVE  IInv'
<1>1. CASE \E rc \in {"INVALID", "CAPACITY", "INIT"} : Refuse("configure", rc)
  BY <1>1, RefuseKeepsInvariant DEF Ops, Codes
<1>2. CASE /\ configured' = TRUE
           /\ valid' = [i \in Indices |-> FALSE]
           /\ stats' = ZeroStats
           /\ reply' = Reply("configure", "OK", NULL)
           /\ UNCHANGED memory
  <2>1. stats' \in [Counters -> Nat] /\ CountersAgree'
    <3>1. 0 = 0 * StateSize
      BY IndexedAssumption
    <3>2. QED
      BY <1>2, <3>1 DEF ZeroStats, Counters, CountersAgree
  <2>2. reply'.op \in Ops /\ reply'.rc \in Codes
    BY <1>2, ReplyFields DEF Ops, Codes
  <2>3. QED
    BY <1>2, <2>1, <2>2 DEF IInv, TypeOK
<1>3. QED
  BY <1>1, <1>2 DEF Configure

LEMMA CheckRefusalIsCode ==
  ASSUME TypeOK, NEW s, NEW out
  PROVE  CheckRefusal(s, out) \in {"INIT", "INVALID", "SIZE", "OK"}
BY DEF CheckRefusal, TypeOK

LEMMA CheckKeepsInvariant ==
  ASSUME IInv, NEW s \in GivenStates, NEW out \in BOOLEAN, NEW i \in GivenIndices,
         \/ CheckRefused(s, out)
         \/ CheckOutOfRange(i, s, out)
         \/ CheckUnchanged(i, s, out)
         \/ CheckChanged(i, s, out)
  PROVE  IInv'
<1>1. stats \in [Counters -> Nat] /\ CountersAgree
  BY DEF IInv, TypeOK
<1>2. CASE CheckRefused(s, out)
  BY <1>2, CheckRefusalIsCode, RefuseKeepsInvariant DEF CheckRefused, IInv, Ops, Codes
<1>3. CASE CheckOutOfRange(i, s, out)
  <2>1. stats' \in [Counters -> Nat] /\ CountersAgree'
    BY <1>1, <1>3, OthersAreCounted DEF CheckOutOfRange
  <2>2. reply'.op \in Ops /\ reply'.rc \in Codes
    BY <1>3, ReplyFields DEF CheckOutOfRange, Ops, Codes
  <2>3. QED
    BY <1>3, <2>1, <2>2 DEF CheckOutOfRange, IInv, TypeOK
<1>4. CASE CheckUnchanged(i, s, out)
  <2>1. stats' \in [Counters -> Nat] /\ CountersAgree'
    BY <1>1, <1>4, ChecksAreCounted DEF CheckUnchanged
  <2>2. reply'.op \in Ops /\ reply'.rc \in Codes
    BY <1>4, ReplyFields DEF CheckUnchanged, Ops, Codes
  <2>3. QED
    BY <1>4, <2>1, <2>2 DEF CheckUnchanged, IInv, TypeOK
<1>5. CASE CheckChanged(i, s, out)
  <2>1. stats' \in [Counters -> Nat] /\ CountersAgree'
    BY <1>1, <1>5, ChecksAreCounted DEF CheckChanged
  <2>2. reply'.op \in Ops /\ reply'.rc \in Codes
    BY <1>5, ReplyFields DEF CheckChanged, Ops, Codes
  <2>3. memory' \in [Addresses -> Byte]
    <3>1. CASE s # NULL /\ StateSize > 0
      <4>1. s \in Seq(Byte)
        BY <3>1, IndexedAssumption DEF GivenStates
      <4>2. Len(s) = StateSize
        BY <1>5, <3>1 DEF CheckChanged, CheckRefusal, IInv, TypeOK
      <4>3. QED
        BY <1>5, <3>1, <4>1, <4>2, OverwriteIsMemory DEF CheckChanged, IInv
    <3>2. CASE ~(s # NULL /\ StateSize > 0)
      BY <1>5, <3>2 DEF CheckChanged, IInv, TypeOK
    <3>3. QED
      BY <3>1, <3>2
  <2>4. valid' \in [Indices -> BOOLEAN] /\ configured' \in BOOLEAN
    BY <1>5 DEF CheckChanged, IInv, TypeOK
  <2>5. QED
    BY <2>1, <2>2, <2>3, <2>4 DEF IInv, TypeOK
<1>6. QED
  BY <1>2, <1>3, <1>4, <1>5

LEMMA DiffedKeepsInvariant ==
  ASSUME IInv, NEW n \in Nat, NEW dirty \in SUBSET (0 .. n - 1),
         NEW copied \in [Addresses -> Byte], NEW cap,
         Diffed(n, dirty, copied, cap)
  PROVE  IInv'
<1>1. stats' \in [Counters -> Nat] /\ CountersAgree'
  BY DirtyIsBounded, ChecksAreCounted DEF Diffed, IInv, TypeOK
<1>2. reply'.op \in Ops /\ reply'.rc \in Codes
  BY ReplyFields DEF Diffed, Ops, Codes
<1>3. valid' \in [Indices -> BOOLEAN]
  BY DEF Diffed, IInv, TypeOK
<1>4. QED
  BY <1>1, <1>2, <1>3 DEF Diffed, IInv, TypeOK

LEMMA DiffBatchKeepsInvariant ==
  ASSUME IInv, NEW b \in Batches, NEW cap, NEW out, DiffBatch(b, cap, out)
  PROVE  IInv'
<1>1. CASE /\ BatchRefusal(b, cap, out) # "OK"
           /\ Refuse("diff", BatchRefusal(b, cap, out))
  <2>1. BatchRefusal(b, cap, out) \in Codes
    BY DEF BatchRefusal, Codes, IInv, TypeOK
  <2>2. QED
    BY <1>1, <2>1, RefuseKeepsInvariant DEF Ops
<1>2. CASE /\ BatchRefusal(b, cap, out) = "OK"
           /\ Diffed(b.count, BatchDirty(b), BatchCopied(b), cap)
  <2>1. b.count \in Nat
    BY IndexedAssumption DEF BatchType
  <2>2. BatchDirty(b) \in SUBSET (0 .. b.count - 1)
    BY DEF BatchDirty
  <2>3. BatchCopied(b) \in [Addresses -> Byte]
    BY <1>2, BatchCopiedIsMemory DEF IInv
  <2>4. QED
    BY <1>2, <2>1, <2>2, <2>3, DiffedKeepsInvariant
<1>3. QED
  BY <1>1, <1>2 DEF DiffBatch

LEMMA StreamRefusalIsCode ==
  ASSUME TypeOK, NEW c, NEW cap, NEW out
  PROVE  StreamRefusal(c, cap, out) \in Codes
BY DEF StreamRefusal, Codes, TypeOK

LEMMA DiffStreamsKeepsInvariant ==
  ASSUME IInv, NEW c \in StreamCalls, NEW cap, NEW out, DiffStreams(c, cap, out)
  PROVE  IInv'
<1>1. CASE /\ StreamRefusal(c, cap, out) # "OK"
           /\ Refuse("diff", StreamRefusal(c, cap, out))
  BY <1>1, StreamRefusalIsCode, RefuseKeepsInvariant DEF Ops, IInv
<1>2. CASE Diffed(c.count, StreamDirty(c), StreamCopied(c), cap)
  <2>1. c.count \in Nat
    BY IndexedAssumption
  <2>2. StreamDirty(c) \in SUBSET (0 .. c.count - 1)
    BY DEF StreamDirty
  <2>3. StreamCopied(c) \in [Addresses -> Byte]
    BY StreamCopiedIsMemory DEF IInv
  <2>4. QED
    BY <1>2, <2>1, <2>2, <2>3, DiffedKeepsInvariant
<1>3. CASE OffsetsLost(c, cap, out)
  <2>1. reply'.op \in Ops /\ reply'.rc \in Codes
    BY <1>3, ReplyFields DEF OffsetsLost, Ops, Codes
  <2>2. QED
    BY <1>3, <2>1 DEF OffsetsLost, IInv, TypeOK, CountersAgree
<1>4. QED
  BY <1>1, <1>2, <1>3 DEF DiffStreams

LEMMA ClearKeepsInvariant ==
  ASSUME IInv, Clear
  PROVE  IInv'
<1>1. CASE Refuse("clear", "INIT")
  BY <1>1, RefuseKeepsInvariant DEF Ops, Codes
<1>2. CASE /\ valid' = [i \in Indices |-> FALSE]
           /\ stats' = [stats EXCEPT !["clears"] = @ + 1]
           /\ reply' = Reply("clear", "OK", NULL)
           /\ UNCHANGED <<configured, memory>>
  <2>1. stats' \in [Counters -> Nat] /\ CountersAgree'
    BY <1>2, OthersAreCounted DEF IInv, TypeOK
  <2>2. reply'.op \in Ops /\ reply'.rc \in Codes
    BY <1>2, ReplyFields DEF Ops, Codes
  <2>3. QED
    BY <1>2, <2>1, <2>2 DEF IInv, TypeOK
<1>3. QED
  BY <1>1, <1>2 DEF Clear

LEMMA ResetStatsKeepsInvariant ==
  ASSUME IInv, ResetStats
  PROVE  IInv'
<1>1. stats' \in [Counters -> Nat] /\ CountersAgree'
  <2>1. 0 = 0 * StateSize
    BY IndexedAssumption
  <2>2. QED
    BY <2>1 DEF ResetStats, ZeroStats, Counters, CountersAgree
<1>2. reply'.op \in Ops /\ reply'.rc \in Codes
  BY ReplyFields DEF ResetStats, Ops, Codes
<1>3. QED
  BY <1>1, <1>2 DEF IInv, TypeOK, ResetStats

LEMMA StepKeepsInvariant == IInv /\ [Next]_vars => IInv'
<1> SUFFICES ASSUME IInv, [Next]_vars
             PROVE  IInv'
  OBVIOUS
<1>1. CASE \E b \in Budgets : Configure(b)
  BY <1>1, ConfigureKeepsInvariant
<1>2. CASE \E s \in GivenStates, out \in BOOLEAN : CheckRefused(s, out)
  BY <1>2, CheckRefusalIsCode, RefuseKeepsInvariant DEF CheckRefused, IInv, Ops, Codes
<1>3. CASE \E s \in GivenStates, out \in BOOLEAN, i \in GivenIndices :
             \/ CheckOutOfRange(i, s, out)
             \/ CheckUnchanged(i, s, out)
             \/ CheckChanged(i, s, out)
  BY <1>3, CheckKeepsInvariant
<1>4. CASE \E cap \in Capacities \cup {NULL}, out \in BOOLEAN, b \in Batches :
             DiffBatch(b, cap, out)
  BY <1>4, DiffBatchKeepsInvariant
<1>5. CASE \E cap \in Capacities \cup {NULL}, out \in BOOLEAN, c \in StreamCalls :
             DiffStreams(c, cap, out)
  BY <1>5, DiffStreamsKeepsInvariant
<1>6. CASE Clear
  BY <1>6, ClearKeepsInvariant
<1>7. CASE ResetStats
  BY <1>7, ResetStatsKeepsInvariant
<1>8. CASE UNCHANGED vars
  BY <1>8 DEF vars, IInv, TypeOK, CountersAgree
<1>9. QED
  BY <1>1, <1>2, <1>3, <1>4, <1>5, <1>6, <1>7, <1>8 DEF Next

(* The inductive invariant holds throughout.                                *)
THEOREM InductiveInvariant == Spec => []IInv
BY InitInvariant, StepKeepsInvariant, PTL DEF Spec

(* Type correctness: whatever batches and streams are read, the snapshot    *)
(* buffer holds bytes at every address.                                     *)
THEOREM TypeCorrect == Spec => []TypeOK
<1>1. IInv => TypeOK
  BY DEF IInv
<1>2. QED
  BY <1>1, InductiveInvariant, PTL

(* Every record compared is accounted for once, with all its bytes.         *)
THEOREM CountersStayInAgreement == Spec => []CountersAgree
<1>1. IInv => CountersAgree
  BY DEF IInv
<1>2. QED
  BY <1>1, InductiveInvariant, PTL

-----------------------------------------------------------------------------
(* Forgetting.  A configuration wipes the validity flags without counting a *)
(* clear; it forgets nothing, because nothing is observed before it.        *)

Dormant == ~configured => \A i \in Indices : ~valid[i]

LEMMA AcceptedMeansConfigured ==
  ASSUME NEW s, NEW out, NEW cap, NEW b, NEW c
  PROVE  /\ CheckRefusal(s, out) = "OK" => configured
         /\ BatchRefusal(b, cap, out) = "OK" => configured
         /\ StreamRefusal(c, cap, out) = "OK" => configured
BY DEF CheckRefusal, BatchRefusal, StreamRefusal

(* What a step other than a configuration or a clear does to the flags.     *)
LEMMA FlagsOnlyRise ==
  ASSUME TypeOK, Next,
         \A b \in Budgets : ~Configure(b),
         ~Clear
  PROVE  /\ configured' = configured
         /\ \A i \in Indices : valid[i] => valid'[i]
         /\ configured \/ valid' = valid
<1>1. ASSUME NEW s \in GivenStates, NEW out \in BOOLEAN, NEW i \in GivenIndices,
             \/ CheckRefused(s, out)
             \/ CheckOutOfRange(i, s, out)
             \/ CheckUnchanged(i, s, out)
      PROVE  configured' = configured /\ valid' = valid
  BY <1>1 DEF CheckRefused, Refuse, CheckOutOfRange, CheckUnchanged
<1>2. ASSUME NEW s \in GivenStates, NEW out \in BOOLEAN, NEW i \in GivenIndices,
             CheckChanged(i, s, out)
      PROVE  /\ configured' = configured
             /\ \A j \in Indices : valid[j] => valid'[j]
             /\ configured \/ valid' = valid
  BY <1>2, AcceptedMeansConfigured DEF CheckChanged, TypeOK
<1>3. ASSUME NEW n, NEW dirty, NEW copied, NEW cap, configured,
             Diffed(n, dirty, copied, cap)
      PROVE  /\ configured' = configured
             /\ \A j \in Indices : valid[j] => valid'[j]
             /\ configured \/ valid' = valid
  BY <1>3 DEF Diffed, TypeOK
<1>4. ASSUME NEW b \in Batches, NEW cap, NEW out, DiffBatch(b, cap, out)
      PROVE  /\ configured' = configured
             /\ \A j \in Indices : valid[j] => valid'[j]
             /\ configured \/ valid' = valid
  BY <1>3, <1>4, AcceptedMeansConfigured DEF DiffBatch, Refuse
<1>5. ASSUME NEW c \in StreamCalls, NEW cap, NEW out, DiffStreams(c, cap, out)
      PROVE  /\ configured' = configured
             /\ \A j \in Indices : valid[j] => valid'[j]
             /\ configured \/ valid' = valid
  BY <1>3, <1>5, AcceptedMeansConfigured DEF DiffStreams, OffsetsLost, Refuse
<1>6. CASE \E s \in GivenStates, out \in BOOLEAN : CheckRefused(s, out)
  BY <1>6 DEF CheckRefused, Refuse
<1>7. CASE \E s \in GivenStates, out \in BOOLEAN, i \in GivenIndices :
             \/ CheckOutOfRange(i, s, out)
             \/ CheckUnchanged(i, s, out)
             \/ CheckChanged(i, s, out)
  BY <1>1, <1>2, <1>7
<1>8. CASE \E cap \in Capacities \cup {NULL}, out \in BOOLEAN :
             \/ \E b \in Batches : DiffBatch(b, cap, out)
             \/ \E c \in StreamCalls : DiffStreams(c, cap, out)
  BY <1>4, <1>5, <1>8
<1>9. CASE ResetStats
  BY <1>9 DEF ResetStats
<1>10. QED
  BY <1>6, <1>7, <1>8, <1>9 DEF Next

LEMMA StepKeepsDormant ==
  ASSUME TypeOK, Dormant, [Next]_vars
  PROVE  Dormant'
<1>1. CASE \E b \in Budgets : Configure(b)
  BY <1>1 DEF Dormant, Configure, Refuse
<1>2. CASE Clear
  BY <1>2 DEF Dormant, Clear, Refuse
<1>3. CASE UNCHANGED vars
  BY <1>3 DEF Dormant, vars
<1>4. CASE Next /\ (\A b \in Budgets : ~Configure(b)) /\ ~Clear
  BY <1>4, FlagsOnlyRise DEF Dormant
<1>5. QED
  BY <1>1, <1>2, <1>3, <1>4

(* Nothing but a counted clear makes the tracker forget.                    *)
THEOREM OnlyClearsForget == Spec => OnlyClearForgets
<1> DEFINE Forgot  == \E i \in Indices : valid[i] /\ ~valid'[i]
           Counted == stats'["clears"] = stats["clears"] + 1
<1>1. Init => Dormant
  BY DEF Init, Dormant
<1>2. TypeOK /\ Dormant /\ [Next]_vars => Dormant'
  BY StepKeepsDormant
<1>3. TypeOK /\ Dormant /\ [Next]_vars => [Forgot => Counted]_vars
  <2> SUFFICES ASSUME TypeOK, Dormant, Next, Forgot
               PROVE  Counted
    OBVIOUS
  <2>1. PICK i \in Indices : valid[i] /\ ~valid'[i]
    OBVIOUS
  <2>2. configured
    BY <2>1 DEF Dormant
  <2>3. ASSUME NEW b \in Budgets
        PROVE  ~Configure(b)
    BY <2>1, <2>2 DEF Configure, Refuse
  <2>4. Clear
    BY <2>1, <2>3, FlagsOnlyRise
  <2>5. stats' = [stats EXCEPT !["clears"] = @ + 1]
    BY <2>1, <2>4 DEF Clear, Refuse
  <2>6. QED
    BY <2>5 DEF TypeOK, Counters
<1>4. QED
  BY <1>1, <1>2, <1>3, TypeCorrect, PTL DEF Spec, OnlyClearForgets

-----------------------------------------------------------------------------
(* Reports.                                                                 *)

Honest == reply'.op = "diff" /\ reply'.rc = "OK" =>
            reply'.answer.count = stats'["changed"] - stats["changed"]

LEMMA DiffedIsHonest ==
  ASSUME TypeOK, NEW n \in Nat, NEW dirty \in SUBSET (0 .. n - 1),
         NEW copied, NEW cap, Diffed(n, dirty, copied, cap)
  PROVE  Honest
<1>1. Cardinality(dirty) \in Nat
  BY DirtyIsBounded
<1>2. stats'["changed"] = stats["changed"] + Cardinality(dirty)
  BY <1>1 DEF Diffed, CountChecks, TypeOK, Counters
<1>3. reply'.answer.count = Cardinality(dirty)
  BY DEF Diffed, Reply, Report
<1>4. stats["changed"] \in Nat
  BY DEF TypeOK, Counters
<1>5. QED
  BY <1>1, <1>2, <1>3, <1>4 DEF Honest

LEMMA RefusedIsHonest ==
  ASSUME NEW op, NEW rc, Refuse(op, rc), op # "diff" \/ rc # "OK"
  PROVE  Honest
BY ReplyFields DEF Refuse, Honest, Reply

LEMMA DiffsAreHonest ==
  ASSUME TypeOK, NEW cap, NEW out,
         \/ \E b \in Batches : DiffBatch(b, cap, out)
         \/ \E c \in StreamCalls : DiffStreams(c, cap, out)
  PROVE  Honest
<1>1. ASSUME NEW b \in Batches, DiffBatch(b, cap, out)
      PROVE  Honest
  <2>1. b.count \in Nat
    BY IndexedAssumption DEF BatchType
  <2>2. BatchDirty(b) \in SUBSET (0 .. b.count - 1)
    BY DEF BatchDirty
  <2>3. QED
    BY <1>1, <2>1, <2>2, DiffedIsHonest, RefusedIsHonest DEF DiffBatch
<1>2. ASSUME NEW c \in StreamCalls, DiffStreams(c, cap, out)
      PROVE  Honest
  <2>1. c.count \in Nat
    BY IndexedAssumption
  <2>2. StreamDirty(c) \in SUBSET (0 .. c.count - 1)
    BY DEF StreamDirty
  <2>3. CASE OffsetsLost(c, cap, out)
    <3>1. stats["changed"] \in Nat
      BY DEF TypeOK, Counters
    <3>2. reply'.answer.count = 0
      BY <2>3, FS_EmptySet DEF OffsetsLost, Reply, Report
    <3>3. QED
      BY <2>3, <3>1, <3>2 DEF OffsetsLost, Honest
  <2>4. QED
    BY <1>2, <2>1, <2>2, <2>3, DiffedIsHonest, RefusedIsHonest DEF DiffStreams
<1>3. QED
  BY <1>1, <1>2

(* The count a diff reports is the number of changes it added to the        *)
(* statistics.                                                              *)
THEOREM ReportsAreHonest == Spec => ReportsAgreeWithCounters
<1>1. TypeOK /\ [Next]_vars => [Honest]_vars
  <2> SUFFICES ASSUME TypeOK, Next
               PROVE  Honest
    OBVIOUS
  <2>1. CASE \E b \in Budgets : Configure(b)
    BY <2>1, RefusedIsHonest DEF Configure, Honest, Reply
  <2>2. CASE \E s \in GivenStates, out \in BOOLEAN :
               \/ CheckRefused(s, out)
               \/ \E i \in GivenIndices :
                    \/ CheckOutOfRange(i, s, out)
                    \/ CheckUnchanged(i, s, out)
                    \/ CheckChanged(i, s, out)
    BY <2>2, RefusedIsHonest
       DEF CheckRefused, CheckOutOfRange, CheckUnchanged, CheckChanged, Honest, Reply
  <2>3. CASE \E cap \in Capacities \cup {NULL}, out \in BOOLEAN :
               \/ \E b \in Batches : DiffBatch(b, cap, out)
               \/ \E c \in StreamCalls : DiffStreams(c, cap, out)
    BY <2>3, DiffsAreHonest
  <2>4. CASE Clear \/ ResetStats
    BY <2>4, RefusedIsHonest DEF Clear, ResetStats, Honest, Reply
  <2>5. QED
    BY <2>1, <2>2, <2>3, <2>4 DEF Next
<1>2. QED
  BY <1>1, TypeCorrect, PTL DEF Spec, ReportsAgreeWithCounters, Honest

-----------------------------------------------------------------------------
(* Every non-empty set of natural numbers has a least element.  The theorem *)
(* on finite subsets gives it, where the library's own takes an operator.   *)
LEMMA LeastNatural ==
  ASSUME NEW T \in SUBSET Nat, T # {}
  PROVE  \E x \in T : \A y \in T : x <= y
<1> DEFINE K == {0 .. n - 1 : n \in T}
<1>1. IsWellFoundedOn(StrictSubsetOrdering(Nat), FiniteSubsetsOf(Nat))
  BY FS_StrictSubsetOrderingWellFounded
<1>2. \A n \in T : IsFiniteSet(0 .. n - 1) /\ 0 .. n - 1 \in SUBSET Nat
  BY FS_Interval
<1>3. K \subseteq FiniteSubsetsOf(Nat) /\ K # {}
  BY <1>2 DEF FiniteSubsetsOf
<1> HIDE DEF K
<1>4. PICK k \in K : \A l \in K : ~(<<l, k>> \in StrictSubsetOrdering(Nat))
  BY <1>1, <1>3, WFMin
<1>5. PICK x \in T : k = 0 .. x - 1
  BY DEF K
<1>6. ASSUME NEW y \in T, y < x
      PROVE  FALSE
  <2>1. 0 .. y - 1 \in K /\ ~(<<0 .. y - 1, k>> \in StrictSubsetOrdering(Nat))
    BY <1>4 DEF K
  <2>2. 0 .. y - 1 \in SUBSET Nat /\ k \in SUBSET Nat /\ 0 .. y - 1 \subseteq k
    BY <1>5, <1>6
  <2>3. y \in k /\ y \notin 0 .. y - 1
    BY <1>5, <1>6
  <2>4. QED
    BY <2>1, <2>2, <2>3 DEF StrictSubsetOrdering
<1>7. QED
  BY <1>6

-----------------------------------------------------------------------------
(* The fields of a record.                                                  *)

Field(streams, s) == {s} \X (1 .. streams[s].fieldSize)

Cells(streams, n) == UNION {Field(streams, s) : s \in 1 .. n}

LEMMA FieldIsFinite ==
  ASSUME NEW streams \in Seq(StreamType), NEW s \in 1 .. Len(streams)
  PROVE  /\ IsFiniteSet(Field(streams, s))
         /\ Cardinality(Field(streams, s)) = streams[s].fieldSize
         /\ streams[s].fieldSize \in Nat
<1> DEFINE size == streams[s].fieldSize
<1>1. size \in Nat
  <2>1. streams[s] \in StreamType
    OBVIOUS
  <2>2. QED
    BY <2>1 DEF StreamType
<1> HIDE DEF size
<1>2. IsFiniteSet(1 .. size) /\ Cardinality(1 .. size) = size
  BY <1>1, FS_Interval
<1>3. IsFiniteSet({s}) /\ Cardinality({s}) = 1
  BY FS_Singleton
<1>4. IsFiniteSet({s} \X (1 .. size)) /\ Cardinality({s} \X (1 .. size)) = 1 * size
  BY <1>2, <1>3, FS_Product
<1>5. 1 * size = size
  BY <1>1
<1>6. QED
  BY <1>1, <1>4, <1>5 DEF Field, size

LEMMA CellsAreFinite ==
  ASSUME NEW streams \in Seq(StreamType), NEW n \in 0 .. Len(streams)
  PROVE  /\ IsFiniteSet(Cells(streams, n))
         /\ FieldBytes(streams, n) = Cardinality(Cells(streams, n))
         /\ FieldBytes(streams, n) \in Nat
<1> DEFINE T == {Field(streams, s) : s \in 1 .. n}
           f == [s \in 1 .. n |-> Field(streams, s)]
<1>1. f \in Surjection(1 .. n, T)
  BY DEF Surjection
<1>2. IsFiniteSet(1 .. n)
  BY FS_Interval
<1>3. IsFiniteSet(T)
  BY <1>1, <1>2, FS_Surjection
<1>4. \A t \in T : IsFiniteSet(t)
  BY FieldIsFinite
<1>5. IsFiniteSet(UNION T)
  BY <1>3, <1>4, FS_UNION
<1>6. FieldBytes(streams, n) = Cardinality(Cells(streams, n))
  BY DEF FieldBytes, Cells, Field
<1>7. QED
  BY <1>5, <1>6, FS_CardinalityType DEF Cells

(* The bytes before a field, and those up to its end.                       *)
LEMMA NextField ==
  ASSUME NEW streams \in Seq(StreamType), NEW s \in 1 .. Len(streams)
  PROVE  /\ FieldBytes(streams, s) = FieldBytes(streams, s - 1) + streams[s].fieldSize
         /\ FieldBytes(streams, s - 1) \in Nat
         /\ streams[s].fieldSize \in Nat
<1>1. s - 1 \in 0 .. Len(streams) /\ s \in 0 .. Len(streams)
  OBVIOUS
<1>2. Cells(streams, s) = Cells(streams, s - 1) \cup Field(streams, s)
  <2>1. 1 .. s = (1 .. s - 1) \cup {s}
    OBVIOUS
  <2>2. QED
    BY <2>1 DEF Cells
<1>3. Cells(streams, s - 1) \cap Field(streams, s) = {}
  <2>1. s \notin 1 .. s - 1
    OBVIOUS
  <2>2. QED
    BY <2>1 DEF Cells, Field
<1>4. /\ IsFiniteSet(Cells(streams, s - 1)) /\ IsFiniteSet(Field(streams, s))
      /\ FieldBytes(streams, s - 1) = Cardinality(Cells(streams, s - 1))
      /\ FieldBytes(streams, s) = Cardinality(Cells(streams, s))
      /\ FieldBytes(streams, s - 1) \in Nat
      /\ Cardinality(Field(streams, s)) = streams[s].fieldSize
      /\ streams[s].fieldSize \in Nat
  BY <1>1, CellsAreFinite, FieldIsFinite
<1>5. Cardinality(Cells(streams, s)) =
        Cardinality(Cells(streams, s - 1)) + Cardinality(Field(streams, s)) - Cardinality({})
  BY <1>2, <1>3, <1>4, FS_Union
<1>6. QED
  BY <1>4, <1>5, FS_EmptySet

LEMMA FieldsInOrder ==
  ASSUME NEW streams \in Seq(StreamType),
         NEW n \in 0 .. Len(streams), NEW m \in 0 .. n
  PROVE  FieldBytes(streams, m) <= FieldBytes(streams, n)
<1>1. m \in 0 .. Len(streams)
  OBVIOUS
<1>2. Cells(streams, m) \in SUBSET Cells(streams, n)
  BY DEF Cells
<1>3. QED
  BY <1>1, <1>2, CellsAreFinite, FS_Subset

LEMMA NoFields ==
  ASSUME NEW streams
  PROVE  FieldBytes(streams, 0) = 0
<1>1. 1 .. 0 = {}
  OBVIOUS
<1>2. UNION {{s} \X (1 .. streams[s].fieldSize) : s \in 1 .. 0} = {}
  BY <1>1
<1>3. QED
  BY <1>2, FS_EmptySet DEF FieldBytes

(* The offsets written out in the kernels for seven-byte records are the    *)
(* running sums of the generic kernel.                                      *)
LEMMA OffsetsAreSums ==
  ASSUME NEW streams \in Seq(StreamType), NEW s \in 1 .. Len(streams)
  PROVE  FieldOffset(streams, s) = FieldBytes(streams, s - 1)
<1> DEFINE F(n) == FieldBytes(streams, n)
           sizes == FieldSizes(streams)
<1>1. sizes = [t \in 1 .. Len(streams) |-> streams[t].fieldSize]
  BY DEF FieldSizes
<1>2. Len(streams) \in Nat /\ DOMAIN sizes = 1 .. Len(streams)
  BY <1>1
<1>3. \A n \in 1 .. Len(streams) : F(n) = F(n - 1) + sizes[n] /\ F(n - 1) \in Nat
  BY <1>1, NextField
<1>4. F(0) = 0
  BY NoFields
<1> HIDE DEF F, sizes
<1>5. CASE sizes = <<1, 1, 1, 1, 1, 1, 1>>
  <2>1. DOMAIN sizes = 1 .. 7
    BY <1>5
  <2>2. Len(streams) = 7
    BY <1>2, <2>1
  <2>3. \A n \in 1 .. 7 : F(n) = F(n - 1) + 1
    <3>1. \A n \in 1 .. 7 : <<1, 1, 1, 1, 1, 1, 1>>[n] = 1
      OBVIOUS
    <3>2. QED
      BY <1>3, <1>5, <2>2, <3>1
  <2>4. F(0) = 0 /\ F(1) = 1 /\ F(2) = 2 /\ F(3) = 3
    BY <1>4, <2>3
  <2>5. F(4) = 4 /\ F(5) = 5 /\ F(6) = 6
    BY <2>3, <2>4
  <2>6. F(s - 1) = s - 1
    BY <2>2, <2>4, <2>5
  <2>7. FieldOffset(streams, s) = s - 1
    BY <1>5 DEF FieldOffset, sizes
  <2>8. QED
    BY <2>6, <2>7 DEF F
<1>6. CASE sizes = <<1, 3, 3>>
  <2>1. DOMAIN sizes = 1 .. 3
    BY <1>6
  <2>2. Len(streams) = 3
    BY <1>2, <2>1
  <2>3. F(1) = F(0) + 1 /\ F(2) = F(1) + 3
    BY <1>3, <1>6, <2>2
  <2>4. F(0) = 0 /\ F(1) = 1 /\ F(2) = 4
    BY <1>4, <2>3
  <2>5. F(s - 1) = <<0, 1, 4>>[s]
    BY <2>2, <2>4
  <2>6. sizes # <<1, 1, 1, 1, 1, 1, 1>>
    BY <1>6
  <2>7. FieldOffset(streams, s) = <<0, 1, 4>>[s]
    BY <1>6, <2>6 DEF FieldOffset, sizes
  <2>8. QED
    BY <2>5, <2>7 DEF F
<1>7. CASE sizes = <<1, 2, 4>>
  <2>1. DOMAIN sizes = 1 .. 3
    BY <1>7
  <2>2. Len(streams) = 3
    BY <1>2, <2>1
  <2>3. F(1) = F(0) + 1 /\ F(2) = F(1) + 2
    BY <1>3, <1>7, <2>2
  <2>4. F(0) = 0 /\ F(1) = 1 /\ F(2) = 3
    BY <1>4, <2>3
  <2>5. F(s - 1) = <<0, 1, 3>>[s]
    BY <2>2, <2>4
  <2>6. sizes # <<1, 1, 1, 1, 1, 1, 1>> /\ sizes # <<1, 3, 3>>
    BY <1>7
  <2>7. FieldOffset(streams, s) = <<0, 1, 3>>[s]
    BY <1>7, <2>6 DEF FieldOffset, sizes
  <2>8. QED
    BY <2>5, <2>7 DEF F
<1>8. CASE sizes \notin {<<1, 1, 1, 1, 1, 1, 1>>, <<1, 3, 3>>, <<1, 2, 4>>}
  BY <1>8 DEF FieldOffset, sizes
<1>9. QED
  BY <1>5, <1>6, <1>7, <1>8

(* Byte b of a record belongs to exactly one field.                         *)
LEMMA FieldsTile ==
  ASSUME NEW streams \in Seq(StreamType),
         FieldBytes(streams, Len(streams)) = StateSize,
         NEW b \in 0 .. StateSize - 1
  PROVE  \E s \in 1 .. Len(streams) :
           /\ FieldAt(streams, b) = {s}
           /\ FieldBytes(streams, s - 1) <= b /\ b < FieldBytes(streams, s)
           /\ \A r \in 1 .. Len(streams) :
                FieldBytes(streams, r - 1) < b + 1 /\ b + 1 <= FieldBytes(streams, r) => r = s
<1> DEFINE n == Len(streams)
           F(m) == FieldBytes(streams, m)
           T == {m \in 0 .. n : b < F(m)}
<1>1. n \in Nat /\ StateSize \in Nat /\ b \in Nat /\ b < StateSize
  BY IndexedAssumption
<1>2. n \in T /\ T \in SUBSET Nat
  BY <1>1
<1>3. PICK s \in T : \A m \in T : s <= m
  <2> HIDE DEF T
  <2>1. T # {}
    BY <1>2
  <2>2. QED
    BY <1>2, <2>1, LeastNatural
<1>4. \A m \in 0 .. n : F(m) \in Nat
  BY CellsAreFinite
<1>5. s # 0
  BY <1>1, <1>3, NoFields
<1>6. s \in 1 .. n /\ s - 1 \in 0 .. n /\ s - 1 \notin T
  BY <1>1, <1>3, <1>5
<1>7. F(s - 1) <= b /\ b < F(s)
  BY <1>1, <1>3, <1>4, <1>6
<1>8. ASSUME NEW r \in 1 .. n, F(r - 1) <= b, b < F(r)
      PROVE  r = s
  <2>1. r - 1 \in 0 .. n /\ r \in 0 .. n
    BY <1>1
  <2>2. ASSUME r < s PROVE FALSE
    BY <1>3, <1>8, <2>1, <2>2, <1>1
  <2>3. ASSUME s < r PROVE FALSE
    <3>1. s \in 0 .. r - 1
      BY <1>1, <1>6, <2>3
    <3>2. F(s) <= F(r - 1)
      BY <2>1, <3>1, FieldsInOrder
    <3>3. F(s) \in Nat /\ F(r - 1) \in Nat
      BY <1>4, <1>6, <2>1
    <3>4. QED
      BY <1>1, <1>7, <1>8, <3>2, <3>3
  <2>4. QED
    BY <1>1, <1>6, <2>2, <2>3
<1>9. \A r \in 1 .. n :
        b - FieldOffset(streams, r) \in 0 .. streams[r].fieldSize - 1
          <=> F(r - 1) <= b /\ b < F(r)
  <2> SUFFICES ASSUME NEW r \in 1 .. n
               PROVE  b - FieldOffset(streams, r) \in 0 .. streams[r].fieldSize - 1
                        <=> F(r - 1) <= b /\ b < F(r)
    OBVIOUS
  <2>1. FieldOffset(streams, r) = F(r - 1)
    BY OffsetsAreSums
  <2>2. /\ F(r) = F(r - 1) + streams[r].fieldSize
        /\ F(r - 1) \in Nat /\ streams[r].fieldSize \in Nat
    BY NextField
  <2> HIDE DEF F
  <2>3. QED
    BY <1>1, <2>1, <2>2
<1>10. FieldAt(streams, b) = {s}
  BY <1>6, <1>7, <1>8, <1>9 DEF FieldAt
<1>11. \A r \in 1 .. n : F(r - 1) < b + 1 /\ b + 1 <= F(r) => r = s
  <2> SUFFICES ASSUME NEW r \in 1 .. n, F(r - 1) < b + 1, b + 1 <= F(r)
               PROVE  r = s
    OBVIOUS
  <2>1. F(r - 1) \in Nat /\ F(r) \in Nat
    BY <1>1, <1>4
  <2> HIDE DEF F
  <2>2. F(r - 1) <= b /\ b < F(r)
    BY <1>1, <2>1
  <2>3. QED
    BY <1>8, <2>2
<1>12. QED
  BY <1>6, <1>7, <1>10, <1>11

-----------------------------------------------------------------------------
(* Record i of an accepted stream call, byte by byte.                       *)
LEMMA StreamRecordBytes ==
  ASSUME NEW c \in StreamCalls, NEW i \in 0 .. c.count - 1,
         FieldBytes(c.streams, Len(c.streams)) = StateSize
  PROVE  /\ StreamRecord(c, i) \in [1 .. StateSize -> Byte]
         /\ \A b \in 0 .. StateSize - 1, s \in 1 .. Len(c.streams) :
              FieldAt(c.streams, b) = {s} =>
                StreamRecord(c, i)[b + 1] =
                  c.streams[s].data[i * c.streams[s].stride
                                      + (b - FieldOffset(c.streams, s)) + 1]
<1> DEFINE str == c.streams
           owner(b) == CHOOSE s \in 1 .. Len(str) :
                         FieldBytes(str, s - 1) < b /\ b <= FieldBytes(str, s)
           byte(b) == str[owner(b)].data[i * str[owner(b)].stride
                                          + (b - FieldBytes(str, owner(b) - 1))]
<1>1. str \in Seq(StreamType) /\ StateSize \in Nat /\ c.count \in Nat
  BY IndexedAssumption
<1>2. StreamRecord(c, i) = [b \in 1 .. StateSize |-> byte(b)]
  BY DEF StreamRecord
<1>3. ASSUME NEW b \in 0 .. StateSize - 1
      PROVE  \E s \in 1 .. Len(str) :
               /\ FieldAt(str, b) = {s}
               /\ StreamRecord(c, i)[b + 1] =
                    str[s].data[i * str[s].stride + (b - FieldOffset(str, s)) + 1]
               /\ str[s].data[i * str[s].stride + (b - FieldOffset(str, s)) + 1] \in Byte
  <2>1. PICK s \in 1 .. Len(str) :
          /\ FieldAt(str, b) = {s}
          /\ FieldBytes(str, s - 1) <= b /\ b < FieldBytes(str, s)
          /\ \A r \in 1 .. Len(str) :
               FieldBytes(str, r - 1) < b + 1 /\ b + 1 <= FieldBytes(str, r) => r = s
    BY <1>1, FieldsTile
  <2>2. /\ FieldBytes(str, s - 1) \in Nat /\ str[s].fieldSize \in Nat
        /\ FieldBytes(str, s) = FieldBytes(str, s - 1) + str[s].fieldSize
    BY <1>1, NextField
  <2>3. FieldBytes(str, s - 1) < b + 1 /\ b + 1 <= FieldBytes(str, s)
    BY <2>1, <2>2
  <2>4. owner(b + 1) = s
    BY <2>1, <2>3
  <2>5. FieldOffset(str, s) = FieldBytes(str, s - 1)
    BY <1>1, OffsetsAreSums
  <2>6. b - FieldOffset(str, s) \in 0 .. str[s].fieldSize - 1
    BY <2>1, <2>2, <2>5
  <2>7. str[s].data[i * str[s].stride + (b - FieldOffset(str, s)) + 1] \in Byte
    BY <2>6, StreamBytes
  <2>8. b + 1 \in 1 .. StateSize
    BY <1>1
  <2>9. StreamRecord(c, i)[b + 1] =
          str[s].data[i * str[s].stride + ((b + 1) - FieldBytes(str, s - 1))]
    BY <1>2, <2>4, <2>8
  <2>10. i * str[s].stride + ((b + 1) - FieldBytes(str, s - 1))
           = i * str[s].stride + (b - FieldBytes(str, s - 1)) + 1
    <3>1. str[s] \in StreamType
      BY <1>1
    <3>2. i * str[s].stride \in Int
      BY <1>1, <3>1 DEF StreamType
    <3>3. QED
      BY <2>2, <3>2
  <2>11. QED
    BY <2>1, <2>5, <2>7, <2>9, <2>10
<1> HIDE DEF str
<1>4. StreamRecord(c, i) \in [1 .. StateSize -> Byte]
  <2>1. \A b \in 1 .. StateSize : b - 1 \in 0 .. StateSize - 1 /\ (b - 1) + 1 = b
    BY <1>1
  <2>2. \A b \in 1 .. StateSize : StreamRecord(c, i)[b] \in Byte
    BY <1>3, <2>1
  <2>3. \A b \in 1 .. StateSize : byte(b) \in Byte
    BY <1>2, <2>2
  <2> HIDE DEF byte
  <2>4. QED
    BY <1>2, <2>3
<1>5. QED
  BY <1>3, <1>4 DEF str

LEMMA SlotBytes ==
  ASSUME NEW i \in Nat, i < Count, NEW k \in 0 .. StateSize - 1
  PROVE  /\ i * StateSize + k \in Addresses
         /\ (i * StateSize + k) \div StateSize = i
         /\ (i * StateSize + k) % StateSize = k
<1>1. StateSize \in Nat \ {0} /\ Count \in Nat \ {0}
  BY IndexedAssumption
<1>2. i * StateSize \in Nat /\ (i + 1) * StateSize = i * StateSize + StateSize
  BY <1>1
<1>3. (i + 1) * StateSize <= Count * StateSize
  BY <1>1, <1>2
<1>4. i * StateSize + k \in 0 .. Count * StateSize - 1
  BY <1>1, <1>2, <1>3
<1>5. /\ (i * StateSize + k) \div StateSize = i
      /\ (i * StateSize + k) % StateSize = k
  BY <1>1, <1>2
<1>6. QED
  BY <1>4, <1>5 DEF Addresses

-----------------------------------------------------------------------------
(* The buffer implements IndexedDetector.                                   *)

Records == [1 .. StateSize -> Byte]

LEMMA SnapshotIsRecord ==
  ASSUME TypeOK, NEW i \in Indices
  PROVE  /\ Snapshot(i) \in Records
         /\ \A r \in Records : r # NULL
<1>1. StateSize \in Nat /\ i \in Nat /\ i < Count
  BY IndexedAssumption DEF Indices
<1>2. \A j \in 1 .. StateSize : memory[i * StateSize + j - 1] \in Byte
  <2> SUFFICES ASSUME NEW j \in 1 .. StateSize
               PROVE  memory[i * StateSize + j - 1] \in Byte
    OBVIOUS
  <2>1. j - 1 \in 0 .. StateSize - 1
    BY <1>1
  <2>2. i * StateSize + (j - 1) \in Addresses
    BY <1>1, <2>1, SlotBytes
  <2>3. i * StateSize + (j - 1) = i * StateSize + j - 1
    BY <1>1
  <2>4. QED
    BY <2>2, <2>3 DEF TypeOK
<1>3. Records \subseteq Seq(Byte)
  BY <1>1 DEF Records
<1>4. QED
  BY <1>2, <1>3, IndexedAssumption DEF Snapshot, Records

(* What the detector has seen under an index.                               *)
LEMMA ObservedAt ==
  ASSUME TypeOK, NEW i \in Indices
  PROVE  /\ valid[i] => observed[i] = Snapshot(i)
         /\ ~valid[i] => observed[i] = NULL
         /\ valid[i] => observed[i] # NULL
BY SnapshotIsRecord DEF observed

LEMMA ObservedFollowsMemory ==
  ASSUME UNCHANGED <<valid, memory>>
  PROVE  observed' = observed
BY DEF observed, Snapshot

LEMMA RefuseImplements ==
  ASSUME NEW op, NEW rc, Refuse(op, rc)
  PROVE  Abstract!Refuse(op, rc)
BY ObservedFollowsMemory DEF Refuse, Abstract!Refuse, Reply, Abstract!Reply

LEMMA InitImplements == Init => Abstract!Init
BY DEF Init, Abstract!Init, observed, Reply, Abstract!Reply, Indices, Abstract!Indices

LEMMA ConfigureImplements ==
  ASSUME TypeOK, Dormant, NEW b \in Budgets, Configure(b)
  PROVE  Abstract!Configure
<1>1. CASE Refuse("configure", "INVALID")
  BY <1>1, RefuseImplements DEF Abstract!Configure
<1>2. CASE ~configured /\ \E rc \in {"CAPACITY", "INIT"} : Refuse("configure", rc)
  BY <1>2, RefuseImplements DEF Abstract!Configure
<1>3. CASE /\ ~configured
           /\ configured' = TRUE
           /\ valid' = [i \in Indices |-> FALSE]
           /\ reply' = Reply("configure", "OK", NULL)
           /\ UNCHANGED memory
  <2>1. valid' = valid
    BY <1>3 DEF TypeOK, Dormant
  <2>2. observed' = observed
    BY <1>3, <2>1, ObservedFollowsMemory
  <2>3. QED
    BY <1>3, <2>2 DEF Abstract!Configure, Reply, Abstract!Reply
<1>4. QED
  BY <1>1, <1>2, <1>3 DEF Configure

(* A refusal the detector makes as well.                                    *)
LEMMA TurnDownImplements ==
  ASSUME TypeOK, NEW op, NEW rc, Refuse(op, rc),
         IF configured THEN rc \in {"INVALID", "SIZE"} ELSE rc = "INIT"
  PROVE  Abstract!TurnDown(op)
BY RefuseImplements DEF Abstract!TurnDown, TypeOK

LEMMA ClearImplements ==
  ASSUME Clear
  PROVE  Abstract!Clear \/ Abstract!TurnDown("clear")
<1>1. CASE ~configured /\ Refuse("clear", "INIT")
  BY <1>1, RefuseImplements DEF Abstract!TurnDown
<1>2. CASE /\ configured
           /\ valid' = [i \in Indices |-> FALSE]
           /\ reply' = Reply("clear", "OK", NULL)
           /\ UNCHANGED <<configured, memory>>
  <2>1. observed' = [i \in Indices |-> NULL]
    BY <1>2 DEF observed
  <2>2. QED
    BY <1>2, <2>1 DEF Abstract!Clear, Reply, Abstract!Reply, Indices, Abstract!Indices
<1>3. QED
  BY <1>1, <1>2 DEF Clear

LEMMA ResetStatsImplements ==
  ASSUME ResetStats
  PROVE  Abstract!ResetStats
BY ObservedFollowsMemory
   DEF ResetStats, Abstract!ResetStats, Abstract!Refuse, Reply, Abstract!Reply

-----------------------------------------------------------------------------
(* Checks.                                                                  *)

(* Writing one slot leaves the others alone.                                *)
LEMMA OverwrittenSnapshots ==
  ASSUME TypeOK, NEW i \in Indices, NEW s \in Records, StateSize > 0,
         memory' = Overwrite(i, s)
  PROVE  \A j \in Indices : Snapshot(j)' = IF j = i THEN s ELSE Snapshot(j)
<1> SUFFICES ASSUME NEW j \in Indices
             PROVE  Snapshot(j)' = IF j = i THEN s ELSE Snapshot(j)
  OBVIOUS
<1>1. StateSize \in Nat /\ j \in Nat /\ j < Count
  BY IndexedAssumption DEF Indices
<1>2. ASSUME NEW k \in 1 .. StateSize
      PROVE  memory'[j * StateSize + k - 1]
               = IF j = i THEN s[k] ELSE memory[j * StateSize + k - 1]
  <2>1. k - 1 \in 0 .. StateSize - 1 /\ (k - 1) + 1 = k
    BY <1>1
  <2>2. /\ j * StateSize + (k - 1) \in Addresses
        /\ (j * StateSize + (k - 1)) \div StateSize = j
        /\ (j * StateSize + (k - 1)) % StateSize = k - 1
    BY <1>1, <2>1, SlotBytes
  <2>3. j * StateSize + (k - 1) = j * StateSize + k - 1
    BY <1>1
  <2> DEFINE a == j * StateSize + (k - 1)
  <2> HIDE DEF a
  <2>4. memory'[a] = IF a \div StateSize = i THEN s[(a % StateSize) + 1] ELSE memory[a]
    BY <2>2 DEF Overwrite, a
  <2>5. QED
    BY <2>1, <2>2, <2>3, <2>4 DEF a
<1>3. CASE j = i
  BY <1>2, <1>3 DEF Snapshot, Records
<1>4. CASE j # i
  BY <1>2, <1>4 DEF Snapshot
<1>5. QED
  BY <1>3, <1>4

LEMMA CheckUnchangedImplements ==
  ASSUME TypeOK, NEW s \in GivenStates, NEW out \in BOOLEAN, NEW i \in GivenIndices,
         CheckUnchanged(i, s, out)
  PROVE  /\ ~(s = NULL /\ StateSize > 0)
         /\ i \in Indices
         /\ (IF s = NULL THEN << >> ELSE s) \in Records
         /\ Abstract!Observe(i, IF s = NULL THEN << >> ELSE s)
<1> DEFINE r == IF s = NULL THEN << >> ELSE s
<1>1. StateSize \in Nat /\ i \in Indices /\ configured
  BY IndexedAssumption, AcceptedMeansConfigured DEF CheckUnchanged, Indices
<1>2. valid[i]
  BY DEF CheckUnchanged
<1>3. r = Snapshot(i)
  <2>1. CASE StateSize = 0
    <3>1. r = << >>
      <4>1. CASE s # NULL
        <5>1. s \in Seq(Byte)
          BY <4>1, IndexedAssumption DEF GivenStates
        <5>2. Len(s) = 0
          BY <2>1, <4>1, <1>1 DEF CheckUnchanged, CheckRefusal
        <5>3. QED
          BY <4>1, <5>1, <5>2
      <4>2. QED
        BY <4>1
    <3>2. Snapshot(i) = << >>
      BY <2>1 DEF Snapshot
    <3>3. QED
      BY <3>1, <3>2
  <2>2. CASE StateSize # 0
    BY <2>2 DEF CheckUnchanged
  <2>3. QED
    BY <2>1, <2>2
<1>4. ~(s = NULL /\ StateSize > 0)
  BY <1>1 DEF CheckUnchanged
<1>5. observed[i] = r
  BY <1>1, <1>2, <1>3, ObservedAt
<1>6. observed' = observed
  BY ObservedFollowsMemory DEF CheckUnchanged
<1>7. observed' = [observed EXCEPT ![i] = r]
  BY <1>1, <1>5, <1>6 DEF observed
<1>8. Abstract!Observe(i, r)
  BY <1>1, <1>5, <1>7 DEF CheckUnchanged, Abstract!Observe, Reply, Abstract!Reply
<1>9. QED
  BY <1>1, <1>3, <1>4, <1>8, SnapshotIsRecord

(* A check that finds a change leaves the record presented as the one seen; *)
(* one without a record, whatever the slot held.                            *)
LEMMA CheckChangedImplements ==
  ASSUME TypeOK, NEW s \in GivenStates, NEW out \in BOOLEAN, NEW i \in GivenIndices,
         CheckChanged(i, s, out)
  PROVE  /\ i \in Indices
         /\ IF s = NULL /\ StateSize > 0 THEN Abstract!Claim(i)
            ELSE /\ (IF s = NULL THEN << >> ELSE s) \in Records
                 /\ Abstract!Observe(i, IF s = NULL THEN << >> ELSE s)
<1> DEFINE r == IF s = NULL THEN << >> ELSE s
<1>1. StateSize \in Nat /\ i \in Indices /\ configured
  BY IndexedAssumption, AcceptedMeansConfigured DEF CheckChanged, Indices
<1>2. valid' = [valid EXCEPT ![i] = TRUE] /\ valid'[i]
  BY <1>1 DEF CheckChanged, TypeOK
<1>3. reply' = Abstract!Reply("check", "OK", [changed |-> 1]) /\ configured' = configured
  BY DEF CheckChanged, Reply, Abstract!Reply
<1>4. CASE s = NULL /\ StateSize > 0
  <2>1. ~valid[i] /\ memory' = memory
    BY <1>4 DEF CheckChanged
  <2>2. \A j \in Indices : Snapshot(j)' = Snapshot(j)
    BY <2>1 DEF Snapshot
  <2>3. observed' = [observed EXCEPT ![i] = Snapshot(i)]
    BY <1>1, <1>2, <2>2 DEF observed, TypeOK
  <2>4. observed[i] = NULL
    BY <1>1, <2>1, ObservedAt
  <2>5. Abstract!Claim(i)
    BY <1>1, <1>3, <2>3, <2>4, SnapshotIsRecord DEF Abstract!Claim, Records
  <2>6. QED
    BY <1>1, <1>4, <2>5
<1>5. CASE ~(s = NULL /\ StateSize > 0)
  <2>1. s # NULL => s \in Seq(Byte) /\ Len(s) = StateSize
    BY <1>1, IndexedAssumption DEF CheckChanged, CheckRefusal, GivenStates
  <2>2. r \in Records
    <3>1. CASE s = NULL
      <4>1. StateSize = 0
        BY <1>1, <1>5, <3>1
      <4>2. << >> \in [1 .. 0 -> Byte]
        OBVIOUS
      <4>3. QED
        BY <3>1, <4>1, <4>2 DEF Records
    <3>2. CASE s # NULL
      BY <2>1, <3>2 DEF Records
    <3>3. QED
      BY <3>1, <3>2
  <2>3. \A j \in Indices : Snapshot(j)' = IF j = i THEN r ELSE Snapshot(j)
    <3>1. CASE StateSize = 0
      <4>1. \A q \in Records : q = << >>
        BY <3>1 DEF Records
      <4>2. r = << >>
        BY <2>2, <4>1
      <4>3. \A j \in Indices : Snapshot(j) = << >> /\ Snapshot(j)' = << >>
        BY <3>1 DEF Snapshot
      <4>4. QED
        BY <4>2, <4>3
    <3>2. CASE StateSize > 0
      <4>1. s # NULL /\ r = s
        BY <1>5, <3>2
      <4>2. memory' = Overwrite(i, r)
        BY <3>2, <4>1 DEF CheckChanged
      <4>3. QED
        BY <1>1, <2>2, <3>2, <4>2, OverwrittenSnapshots
    <3>3. QED
      BY <1>1, <3>1, <3>2
  <2>4. observed' = [observed EXCEPT ![i] = r]
    BY <1>1, <1>2, <2>3 DEF observed, TypeOK
  <2>5. observed[i] # r
    <3>1. CASE ~valid[i]
      BY <1>1, <2>2, <3>1, ObservedAt, SnapshotIsRecord
    <3>2. CASE valid[i]
      BY <1>1, <3>2, ObservedAt DEF CheckChanged
    <3>3. QED
      BY <3>1, <3>2
  <2>6. Abstract!Observe(i, r)
    BY <1>1, <1>3, <2>4, <2>5 DEF Abstract!Observe
  <2>7. QED
    BY <1>1, <1>5, <2>2, <2>6
<1>6. QED
  BY <1>4, <1>5

-----------------------------------------------------------------------------
(* Diffs.                                                                   *)

(* The two modules have a Cardinality of their own each.                    *)
LEMMA SameReports ==
  ASSUME NEW dirty, NEW cap
  PROVE  Report(dirty, cap) = Abstract!Report(dirty, cap)
<1>1. \A S : Abstract!Cardinality(S) = Cardinality(S)
  BY DEF Cardinality, Abstract!Cardinality
<1>2. QED
  BY <1>1 DEF Report, Abstract!Report

(* A kernel that finds the records differing from their snapshots, and      *)
(* copies those, is the diff of the detector.                               *)
LEMMA DiffedImplements ==
  ASSUME TypeOK, configured, NEW n \in 0 .. Count, NEW recs,
         \A i \in 0 .. n - 1 : recs[i] \in Records,
         NEW dirty, dirty = {i \in 0 .. n - 1 : ~valid[i] \/ Snapshot(i) # recs[i]},
         NEW copied,
         \A a \in Addresses :
           copied[a] = IF a \div StateSize \in dirty
                         THEN recs[a \div StateSize][(a % StateSize) + 1]
                         ELSE memory[a],
         NEW cap, Diffed(n, dirty, copied, cap)
  PROVE  Abstract!Diff(n, recs, cap)
<1>1. Count \in Nat /\ StateSize \in Nat /\ n \in Nat /\ n <= Count
  BY IndexedAssumption
<1>2. \A i \in 0 .. n - 1 : i \in Indices
  BY <1>1 DEF Indices
<1>3. dirty = {i \in 0 .. n - 1 : observed[i] # recs[i]}
  <2>1. ASSUME NEW i \in 0 .. n - 1
        PROVE  (~valid[i] \/ Snapshot(i) # recs[i]) <=> observed[i] # recs[i]
    <3>1. i \in Indices /\ recs[i] # NULL
      BY <1>2, SnapshotIsRecord
    <3>2. QED
      BY <3>1, ObservedAt
  <2>2. QED
    BY <2>1
<1>4. ASSUME NEW i \in Indices
      PROVE  Snapshot(i)' = IF i \in dirty THEN recs[i] ELSE Snapshot(i)
  <2>1. i \in Nat /\ i < Count
    BY <1>1 DEF Indices
  <2>2. ASSUME NEW k \in 1 .. StateSize
        PROVE  memory'[i * StateSize + k - 1]
                 = IF i \in dirty THEN recs[i][k] ELSE memory[i * StateSize + k - 1]
    <3>1. k - 1 \in 0 .. StateSize - 1 /\ (k - 1) + 1 = k
      BY <1>1
    <3>2. /\ i * StateSize + (k - 1) \in Addresses
          /\ (i * StateSize + (k - 1)) \div StateSize = i
          /\ (i * StateSize + (k - 1)) % StateSize = k - 1
      BY <2>1, <3>1, SlotBytes
    <3>3. i * StateSize + (k - 1) = i * StateSize + k - 1
      BY <1>1, <2>1
    <3> DEFINE a == i * StateSize + (k - 1)
    <3> HIDE DEF a
    <3>4. memory'[a] = IF a \div StateSize \in dirty
                         THEN recs[a \div StateSize][(a % StateSize) + 1] ELSE memory[a]
      BY <3>2 DEF Diffed, a
    <3>5. QED
      BY <3>1, <3>2, <3>3, <3>4 DEF a
  <2>3. CASE i \in dirty
    <3>1. recs[i] \in Records
      BY <2>3
    <3>2. QED
      BY <2>2, <2>3, <3>1 DEF Snapshot, Records
  <2>4. CASE i \notin dirty
    BY <2>2, <2>4 DEF Snapshot
  <2>5. QED
    BY <2>3, <2>4
<1>5. valid' = [i \in Indices |-> valid[i] \/ i \in dirty]
  BY DEF Diffed
<1>6. ASSUME NEW i \in Indices
      PROVE  observed'[i] = IF i < n THEN recs[i] ELSE observed[i]
  <2>1. observed'[i] = IF valid[i] \/ i \in dirty THEN Snapshot(i)' ELSE NULL
    BY <1>5 DEF observed
  <2>2. CASE i < n
    <3>1. i \in 0 .. n - 1
      BY <1>1, <2>2 DEF Indices
    <3>2. i \in dirty \/ (valid[i] /\ Snapshot(i) = recs[i])
      BY <3>1
    <3>3. QED
      BY <1>4, <2>1, <2>2, <3>2
  <2>3. CASE ~(i < n)
    <3>1. i \notin dirty
      BY <1>1, <2>3 DEF Indices
    <3>2. QED
      BY <1>4, <2>1, <2>3, <3>1 DEF observed
  <2>4. QED
    BY <2>2, <2>3
<1>7. observed' = [i \in Indices |-> IF i < n THEN recs[i] ELSE observed[i]]
  BY <1>6 DEF observed
<1>8. Report(dirty, cap) = Abstract!Report(dirty, cap)
  BY SameReports
<1>9. reply' = Abstract!Reply("diff", "OK",
                              Abstract!Report({i \in 0 .. n - 1 : observed[i] # recs[i]}, cap))
  BY <1>3, <1>8 DEF Diffed, Reply, Abstract!Reply
<1>10. observed' = [i \in Abstract!Indices |-> IF i < n THEN recs[i] ELSE observed[i]]
  BY <1>7 DEF Indices, Abstract!Indices
<1>11. configured' = configured
  BY DEF Diffed
<1> HIDE DEF observed
<1>12. QED
  BY <1>9, <1>10, <1>11 DEF Abstract!Diff

(* The detector need not be told the records: they are the ones seen then.  *)
LEMMA DiffIsAbstractStep ==
  ASSUME NEW n \in 0 .. Count, NEW recs, \A i \in 0 .. n - 1 : recs[i] \in Records,
         NEW cap \in Capacities, Abstract!Diff(n, recs, cap)
  PROVE  Abstract!Next
<1>1. Count \in Nat /\ n \in Nat /\ n <= Count
  BY IndexedAssumption
<1>2. \A i \in 0 .. n - 1 : i \in Abstract!Indices
  BY <1>1 DEF Abstract!Indices
<1>3. observed' = [i \in Abstract!Indices |-> IF i < n THEN recs[i] ELSE observed[i]]
  BY DEF Abstract!Diff
<1>4. \A i \in 0 .. n - 1 : observed'[i] = recs[i]
  BY <1>1, <1>2, <1>3
<1>5. {i \in 0 .. n - 1 : observed[i] # recs[i]}
        = {i \in 0 .. n - 1 : observed[i] # observed'[i]}
  BY <1>4
<1>6. observed' = [i \in Abstract!Indices |-> IF i < n THEN observed'[i] ELSE observed[i]]
  BY <1>1, <1>3, <1>4 DEF Abstract!Indices
<1>7. Abstract!Diff(n, observed', cap)
  BY <1>5, <1>6 DEF Abstract!Diff
<1>8. \A i \in 0 .. n - 1 : observed'[i] \in Records
  BY <1>4
<1>9. QED
  BY <1>7, <1>8 DEF Abstract!Next, Records

LEMMA BatchRecordsAreRecords ==
  ASSUME TypeOK, NEW b \in Batches, NEW cap, NEW out, BatchRefusal(b, cap, out) = "OK"
  PROVE  /\ b.count \in 0 .. Count
         /\ \A i \in 0 .. b.count - 1 : BatchRecord(b, i) \in Records
<1>1. b.count \in Nat /\ StateSize \in Nat /\ Count \in Nat
  BY IndexedAssumption DEF BatchType
<1>2. b.count <= Count /\ (b.count > 0 /\ StateSize > 0 => b.data # NULL)
  BY <1>1 DEF BatchRefusal, TypeOK
<1>3. ASSUME NEW i \in 0 .. b.count - 1, NEW j \in 1 .. StateSize
      PROVE  b.data[i * b.stride + j] \in Byte
  BY <1>1, <1>2, BatchBytes
<1>4. QED
  BY <1>1, <1>2, <1>3 DEF BatchRecord, Records

LEMMA DiffBatchImplements ==
  ASSUME TypeOK, NEW b \in Batches, NEW cap \in Capacities \cup {NULL},
         NEW out \in BOOLEAN, DiffBatch(b, cap, out)
  PROVE  \/ /\ reply'.rc # "OK"
            /\ Abstract!TurnDown("diff")
         \/ /\ reply'.rc = "OK"
            /\ cap \in Capacities
            /\ b.count \in 0 .. Count
            /\ \A i \in 0 .. b.count - 1 : BatchRecord(b, i) \in Records
            /\ Abstract!Diff(b.count, [i \in 0 .. b.count - 1 |-> BatchRecord(b, i)], cap)
<1> DEFINE rc == BatchRefusal(b, cap, out)
<1>1. CASE rc # "OK" /\ Refuse("diff", rc)
  <2>1. IF configured THEN rc \in {"INVALID", "SIZE"} ELSE rc = "INIT"
    BY <1>1 DEF BatchRefusal, TypeOK
  <2>2. reply'.rc = rc
    BY <1>1, ReplyFields DEF Refuse
  <2> HIDE DEF rc
  <2>3. Abstract!TurnDown("diff")
    BY <1>1, <2>1, TurnDownImplements
  <2>4. QED
    BY <1>1, <2>2, <2>3
<1>2. CASE rc = "OK" /\ Diffed(b.count, BatchDirty(b), BatchCopied(b), cap)
  <2> DEFINE recs == [i \in 0 .. b.count - 1 |-> BatchRecord(b, i)]
             dirty == BatchDirty(b)
  <2>1. /\ b.count \in 0 .. Count
        /\ \A i \in 0 .. b.count - 1 : BatchRecord(b, i) \in Records
    BY <1>2, BatchRecordsAreRecords
  <2>2. dirty = {i \in 0 .. b.count - 1 : ~valid[i] \/ Snapshot(i) # recs[i]}
    BY DEF BatchDirty
  <2>3. \A a \in Addresses :
          BatchCopied(b)[a] = IF a \div StateSize \in dirty
                                THEN recs[a \div StateSize][(a % StateSize) + 1]
                                ELSE memory[a]
    <3>1. \A i \in dirty : recs[i] = BatchRecord(b, i)
      BY DEF BatchDirty
    <3> HIDE DEF recs, dirty
    <3>2. QED
      BY <3>1 DEF BatchCopied, dirty
  <2>4. configured /\ cap \in Capacities
    BY <1>2 DEF BatchRefusal, TypeOK
  <2>5. \A i \in 0 .. b.count - 1 : recs[i] \in Records
    BY <2>1
  <2> HIDE DEF recs, dirty
  <2>6. Diffed(b.count, dirty, BatchCopied(b), cap)
    BY <1>2 DEF dirty
  <2>7. Abstract!Diff(b.count, recs, cap)
    BY <2>1, <2>2, <2>3, <2>4, <2>5, <2>6, DiffedImplements
  <2>8. reply'.rc = "OK"
    BY <2>6, ReplyFields DEF Diffed
  <2>9. QED
    BY <2>1, <2>4, <2>7, <2>8 DEF recs
<1>3. QED
  BY <1>1, <1>2 DEF DiffBatch

(* An accepted stream call presents whole records, field by field.          *)
LEMMA AcceptedStreams ==
  ASSUME TypeOK, NEW c \in StreamCalls, NEW cap \in Capacities \cup {NULL},
         NEW out \in BOOLEAN, StreamRefusal(c, cap, out) = "OK"
  PROVE  /\ configured
         /\ cap \in Capacities
         /\ c.count \in 0 .. Count
         /\ c.count > 0 => FieldBytes(c.streams, Len(c.streams)) = StateSize
<1>1. configured
  BY AcceptedMeansConfigured
<1>2. c.count \in Nat /\ Count \in Nat
  BY IndexedAssumption
<1>3. cap \in Capacities /\ c.count <= Count
  BY <1>1, <1>2 DEF StreamRefusal
<1>4. ASSUME c.count > 0
      PROVE  FieldBytes(c.streams, Len(c.streams)) = StateSize
  <2> DEFINE whole == FieldBytes(c.streams, Len(c.streams)) = StateSize
             first == CHOOSE s \in Overlapping(c.streams) :
                        \A r \in Overlapping(c.streams) : s <= r
  <2>1. (IF c.streams = << >> THEN "INVALID"
         ELSE IF Overlapping(c.streams) # {}
           THEN IF c.streams[first].stride = 0 THEN "INVALID" ELSE "SIZE"
         ELSE IF ~whole THEN "SIZE" ELSE "OK") = "OK"
    BY <1>1, <1>2, <1>3, <1>4 DEF StreamRefusal
  <2> HIDE DEF whole, first
  <2>2. whole
    BY <2>1
  <2>3. QED
    BY <2>2 DEF whole
<1>5. QED
  BY <1>1, <1>2, <1>3, <1>4

LEMMA FieldArithmetic ==
  ASSUME NEW p \in Nat, NEW q \in Nat, NEW o \in Nat, NEW size \in Nat,
         NEW total \in Nat, o + size <= total
  PROVE  /\ \A j \in 1 .. size :
              /\ o + (j - 1) \in 0 .. total - 1
              /\ (o + (j - 1)) - o \in 0 .. size - 1
              /\ p + (o + (j - 1)) = p + o + j - 1
              /\ q + ((o + (j - 1)) - o) + 1 = q + j
         /\ \A b \in Nat : b - o \in 0 .. size - 1 =>
              /\ (b - o) + 1 \in 1 .. size
              /\ q + (b - o) + 1 = q + ((b - o) + 1)
              /\ p + o + ((b - o) + 1) - 1 = p + b
OBVIOUS

(* The fields differ from the snapshot exactly if the record does.          *)
LEMMA FieldsDiffer ==
  ASSUME TypeOK, NEW c \in StreamCalls, NEW i \in 0 .. c.count - 1, i < Count,
         FieldBytes(c.streams, Len(c.streams)) = StateSize
  PROVE  (\E s \in 1 .. Len(c.streams) : FieldDiffers(c, i, s))
           <=> Snapshot(i) # StreamRecord(c, i)
<1> DEFINE str == c.streams
           read(s, b) == str[s].data[i * str[s].stride + (b - FieldOffset(str, s)) + 1]
<1>1. /\ str \in Seq(StreamType) /\ StateSize \in Nat /\ c.count \in Nat
      /\ i \in Nat /\ i * StateSize \in Nat
  BY IndexedAssumption
<1>2. /\ StreamRecord(c, i) \in [1 .. StateSize -> Byte]
      /\ \A b \in 0 .. StateSize - 1, s \in 1 .. Len(str) :
           FieldAt(str, b) = {s} => StreamRecord(c, i)[b + 1] = read(s, b)
  BY StreamRecordBytes
<1>3. ASSUME NEW b \in 0 .. StateSize - 1
      PROVE  /\ b + 1 \in 1 .. StateSize
             /\ Snapshot(i)[b + 1] = memory[i * StateSize + b]
  <2>1. b + 1 \in 1 .. StateSize /\ i * StateSize + (b + 1) - 1 = i * StateSize + b
    BY <1>1
  <2>2. QED
    BY <2>1 DEF Snapshot
<1>4. ASSUME NEW s \in 1 .. Len(str)
      PROVE  /\ FieldOffset(str, s) \in Nat
             /\ str[s].fieldSize \in Nat
             /\ i * str[s].stride \in Nat
             /\ FieldOffset(str, s) + str[s].fieldSize <= StateSize
  <2>1. /\ FieldOffset(str, s) = FieldBytes(str, s - 1)
        /\ FieldBytes(str, s) = FieldBytes(str, s - 1) + str[s].fieldSize
        /\ FieldBytes(str, s - 1) \in Nat /\ str[s].fieldSize \in Nat
    BY <1>1, OffsetsAreSums, NextField
  <2>2. s \in 0 .. Len(str) /\ Len(str) \in 0 .. Len(str)
    BY <1>1
  <2>3. FieldBytes(str, s) <= FieldBytes(str, Len(str))
    BY <1>1, <2>2, FieldsInOrder
  <2>4. str[s] \in StreamType
    BY <1>1
  <2>5. str[s].stride \in Nat
    BY <2>4 DEF StreamType
  <2>6. QED
    BY <1>1, <2>1, <2>3, <2>5
<1>5. ASSUME NEW s \in 1 .. Len(str), FieldDiffers(c, i, s)
      PROVE  Snapshot(i) # StreamRecord(c, i)
  <2>1. PICK j \in 1 .. str[s].fieldSize :
          str[s].data[i * str[s].stride + j]
            # memory[i * StateSize + FieldOffset(str, s) + j - 1]
    BY <1>5 DEF FieldDiffers
  <2> DEFINE b == FieldOffset(str, s) + (j - 1)
  <2>2. /\ b \in 0 .. StateSize - 1
        /\ b - FieldOffset(str, s) \in 0 .. str[s].fieldSize - 1
        /\ i * StateSize + b = i * StateSize + FieldOffset(str, s) + j - 1
        /\ i * str[s].stride + (b - FieldOffset(str, s)) + 1 = i * str[s].stride + j
    <3> DEFINE o == FieldOffset(str, s)
               size == str[s].fieldSize
               p == i * StateSize
               q == i * str[s].stride
    <3>1. /\ p \in Nat /\ q \in Nat /\ o \in Nat /\ size \in Nat
          /\ o + size <= StateSize /\ j \in 1 .. size
      BY <1>1, <1>4
    <3> HIDE DEF o, size, p, q
    <3>2. /\ o + (j - 1) \in 0 .. StateSize - 1
          /\ (o + (j - 1)) - o \in 0 .. size - 1
          /\ p + (o + (j - 1)) = p + o + j - 1
          /\ q + ((o + (j - 1)) - o) + 1 = q + j
      BY <1>1, <3>1, FieldArithmetic
    <3>3. QED
      BY <3>2 DEF o, size, p, q
  <2> HIDE DEF b
  <2>3. s \in FieldAt(str, b)
    BY <2>2 DEF FieldAt
  <2>4. FieldAt(str, b) = {s}
    BY <1>1, <2>2, <2>3, FieldsTile
  <2>5. StreamRecord(c, i)[b + 1] = str[s].data[i * str[s].stride + j]
    BY <1>2, <2>2, <2>4
  <2>6. Snapshot(i)[b + 1] = memory[i * StateSize + FieldOffset(str, s) + j - 1]
    BY <1>3, <2>2
  <2>7. QED
    BY <2>1, <2>5, <2>6
<1>6. ASSUME Snapshot(i) # StreamRecord(c, i)
      PROVE  \E s \in 1 .. Len(str) : FieldDiffers(c, i, s)
  <2>1. PICK d \in 1 .. StateSize : Snapshot(i)[d] # StreamRecord(c, i)[d]
    BY <1>2, <1>6 DEF Snapshot
  <2> DEFINE b == d - 1
  <2>2. b \in 0 .. StateSize - 1 /\ b + 1 = d
    BY <1>1
  <2> HIDE DEF b
  <2>3. PICK s \in 1 .. Len(str) : FieldAt(str, b) = {s}
    BY <1>1, <2>2, FieldsTile
  <2>4. read(s, b) # memory[i * StateSize + b]
    BY <1>2, <1>3, <2>1, <2>2, <2>3
  <2>5. b - FieldOffset(str, s) \in 0 .. str[s].fieldSize - 1
    BY <2>3 DEF FieldAt
  <2> DEFINE j == (b - FieldOffset(str, s)) + 1
  <2>6. /\ j \in 1 .. str[s].fieldSize
        /\ i * str[s].stride + (b - FieldOffset(str, s)) + 1 = i * str[s].stride + j
        /\ i * StateSize + FieldOffset(str, s) + j - 1 = i * StateSize + b
    <3> DEFINE o == FieldOffset(str, s)
               size == str[s].fieldSize
               p == i * StateSize
               q == i * str[s].stride
    <3>1. /\ p \in Nat /\ q \in Nat /\ o \in Nat /\ size \in Nat
          /\ o + size <= StateSize /\ b \in Nat /\ b - o \in 0 .. size - 1
      BY <1>1, <1>4, <2>2, <2>5
    <3> HIDE DEF o, size, p, q
    <3>2. /\ (b - o) + 1 \in 1 .. size
          /\ q + (b - o) + 1 = q + ((b - o) + 1)
          /\ p + o + ((b - o) + 1) - 1 = p + b
      BY <1>1, <3>1, FieldArithmetic
    <3>3. QED
      BY <3>2 DEF o, size, p, q
  <2> HIDE DEF j
  <2>7. QED
    BY <2>4, <2>6 DEF FieldDiffers
<1>7. QED
  BY <1>5, <1>6

LEMMA StreamsDiffed ==
  ASSUME TypeOK, NEW c \in StreamCalls, NEW cap \in Capacities \cup {NULL},
         NEW out \in BOOLEAN, StreamRefusal(c, cap, out) = "OK",
         Diffed(c.count, StreamDirty(c), StreamCopied(c), cap)
  PROVE  /\ \A i \in 0 .. c.count - 1 : StreamRecord(c, i) \in Records
         /\ Abstract!Diff(c.count, [i \in 0 .. c.count - 1 |-> StreamRecord(c, i)], cap)
<1> DEFINE str == c.streams
           recs == [i \in 0 .. c.count - 1 |-> StreamRecord(c, i)]
           dirty == StreamDirty(c)
<1>1. /\ configured /\ c.count \in 0 .. Count
      /\ c.count > 0 => FieldBytes(str, Len(str)) = StateSize
  BY AcceptedStreams
<1>2. /\ Count \in Nat /\ c.count \in Nat /\ StateSize \in Nat
      /\ str \in Seq(StreamType)
  BY IndexedAssumption
<1>3. ASSUME NEW i \in 0 .. c.count - 1
      PROVE  i < Count /\ FieldBytes(str, Len(str)) = StateSize
  BY <1>1, <1>2
<1>4. \A i \in 0 .. c.count - 1 : StreamRecord(c, i) \in Records
  BY <1>3, StreamRecordBytes DEF Records
<1>5. dirty = {i \in 0 .. c.count - 1 : ~valid[i] \/ Snapshot(i) # recs[i]}
  <2>1. \A i \in 0 .. c.count - 1 :
          (\E s \in 1 .. Len(str) : FieldDiffers(c, i, s)) <=> Snapshot(i) # recs[i]
    BY <1>3, FieldsDiffer
  <2> HIDE DEF recs
  <2>2. QED
    BY <2>1 DEF StreamDirty
<1>6. ASSUME NEW a \in Addresses
      PROVE  StreamCopied(c)[a] = IF a \div StateSize \in dirty
                                    THEN recs[a \div StateSize][(a % StateSize) + 1]
                                    ELSE memory[a]
  <2> DEFINE i == a \div StateSize
             b == a % StateSize
             new == LET s == CHOOSE s \in FieldAt(str, b) : TRUE
                    IN  str[s].data[i * str[s].stride + (b - FieldOffset(str, s)) + 1]
  <2>1. StreamCopied(c)[a] = IF i \in dirty /\ FieldAt(str, b) # {} THEN new ELSE memory[a]
    BY DEF StreamCopied
  <2>2. b \in 0 .. StateSize - 1
    BY AddressFacts
  <2>3. CASE i \in dirty
    <3>1. i \in 0 .. c.count - 1
      BY <2>3 DEF StreamDirty
    <3>2. FieldBytes(str, Len(str)) = StateSize
      BY <1>3, <3>1
    <3>3. PICK s \in 1 .. Len(str) : FieldAt(str, b) = {s}
      BY <1>2, <2>2, <3>2, FieldsTile
    <3>4. StreamRecord(c, i)[b + 1]
            = str[s].data[i * str[s].stride + (b - FieldOffset(str, s)) + 1]
      BY <2>2, <3>1, <3>2, <3>3, StreamRecordBytes
    <3>5. (CHOOSE r \in FieldAt(str, b) : TRUE) = s
      BY <3>3
    <3> HIDE DEF i, b
    <3>6. new = StreamRecord(c, i)[b + 1]
      BY <3>4, <3>5
    <3>7. recs[i] = StreamRecord(c, i)
      BY <3>1
    <3> HIDE DEF new, recs, dirty
    <3>8. StreamCopied(c)[a] = recs[i][b + 1]
      BY <2>1, <2>3, <3>3, <3>6, <3>7
    <3>9. QED
      BY <2>3, <3>8 DEF i, b
  <2>4. CASE i \notin dirty
    BY <2>1, <2>4
  <2>5. QED
    BY <2>3, <2>4
<1>7. \A i \in 0 .. c.count - 1 : recs[i] \in Records
  BY <1>4
<1> HIDE DEF recs, dirty
<1>8. Diffed(c.count, dirty, StreamCopied(c), cap)
  BY DEF dirty
<1>9. Abstract!Diff(c.count, recs, cap)
  BY <1>1, <1>5, <1>6, <1>7, <1>8, DiffedImplements
<1>10. QED
  BY <1>4, <1>9 DEF recs

LEMMA LostOffsetsImplement ==
  ASSUME TypeOK, NEW c \in StreamCalls, NEW cap \in Capacities \cup {NULL},
         NEW out \in BOOLEAN, OffsetsLost(c, cap, out)
  PROVE  Abstract!LoseDiff
<1>1. Report({}, cap) = Report({}, 0)
  BY DEF Report
<1>2. reply' = Abstract!Reply("diff", "OK", Abstract!Report({}, 0))
  BY <1>1, SameReports DEF OffsetsLost, Reply, Abstract!Reply
<1>3. observed' = observed
  BY ObservedFollowsMemory DEF OffsetsLost
<1>4. configured
  BY AcceptedMeansConfigured DEF OffsetsLost
<1>5. QED
  BY <1>2, <1>3, <1>4 DEF OffsetsLost, Abstract!LoseDiff

LEMMA DiffStreamsImplements ==
  ASSUME TypeOK, NEW c \in StreamCalls, NEW cap \in Capacities \cup {NULL},
         NEW out \in BOOLEAN, DiffStreams(c, cap, out)
  PROVE  \/ /\ reply'.rc # "OK"
            /\ Abstract!TurnDown("diff")
         \/ /\ reply'.rc = "OK"
            /\ cap \in Capacities
            /\ c.count \in 0 .. Count
            /\ \A i \in 0 .. c.count - 1 : StreamRecord(c, i) \in Records
            /\ Abstract!Diff(c.count, [i \in 0 .. c.count - 1 |-> StreamRecord(c, i)], cap)
         \/ OffsetsLost(c, cap, out) /\ Abstract!LoseDiff
<1> DEFINE rc == StreamRefusal(c, cap, out)
<1>1. CASE rc # "OK" /\ Refuse("diff", rc)
  <2>1. IF configured THEN rc \in {"INVALID", "SIZE"} ELSE rc = "INIT"
    BY <1>1 DEF StreamRefusal, TypeOK
  <2>2. reply'.rc = rc
    BY <1>1, ReplyFields DEF Refuse
  <2> HIDE DEF rc
  <2>3. Abstract!TurnDown("diff")
    BY <1>1, <2>1, TurnDownImplements
  <2>4. QED
    BY <1>1, <2>2, <2>3
<1>2. CASE rc = "OK" /\ Diffed(c.count, StreamDirty(c), StreamCopied(c), cap)
  <2>1. reply'.rc = "OK"
    BY <1>2, ReplyFields DEF Diffed
  <2>2. cap \in Capacities /\ c.count \in 0 .. Count
    BY <1>2, AcceptedStreams
  <2>3. /\ \A i \in 0 .. c.count - 1 : StreamRecord(c, i) \in Records
        /\ Abstract!Diff(c.count, [i \in 0 .. c.count - 1 |-> StreamRecord(c, i)], cap)
    BY <1>2, StreamsDiffed
  <2>4. QED
    BY <2>1, <2>2, <2>3
<1>3. CASE OffsetsLost(c, cap, out)
  BY <1>3, LostOffsetsImplement
<1>4. QED
  BY <1>1, <1>2, <1>3 DEF DiffStreams

LEMMA CheckImplements ==
  ASSUME TypeOK, NEW s \in GivenStates, NEW out \in BOOLEAN, NEW i \in GivenIndices,
         CheckUnchanged(i, s, out) \/ CheckChanged(i, s, out)
  PROVE  /\ i \in Abstract!Indices
         /\ IF s = NULL /\ StateSize > 0 THEN Abstract!Claim(i)
            ELSE /\ (IF s = NULL THEN << >> ELSE s) \in Records
                 /\ Abstract!Observe(i, IF s = NULL THEN << >> ELSE s)
BY CheckUnchangedImplements, CheckChangedImplements DEF Indices, Abstract!Indices

LEMMA StepImplements ==
  ASSUME TypeOK, Dormant, [Next]_vars
  PROVE  [Abstract!Next]_(Abstract!avars)
<1>1. CASE \E b \in Budgets : Configure(b)
  BY <1>1, ConfigureImplements DEF Abstract!Next
<1>2. ASSUME NEW s \in GivenStates, NEW out \in BOOLEAN, CheckRefused(s, out)
      PROVE  Abstract!Next
  <2>1. Abstract!TurnDown("check")
    BY <1>2, TurnDownImplements DEF CheckRefused, CheckRefusal, TypeOK
  <2>2. QED
    BY <2>1 DEF Abstract!Next
<1>3. ASSUME NEW s \in GivenStates, NEW out \in BOOLEAN, NEW i \in GivenIndices,
             CheckOutOfRange(i, s, out)
      PROVE  Abstract!Next
  <2>1. observed' = observed
    BY <1>3, ObservedFollowsMemory DEF CheckOutOfRange
  <2>2. configured
    BY <1>3, AcceptedMeansConfigured DEF CheckOutOfRange
  <2>3. Abstract!Refuse("check", "SIZE")
    BY <1>3, <2>1 DEF CheckOutOfRange, Abstract!Refuse, Reply, Abstract!Reply
  <2>4. Abstract!TurnDown("check")
    BY <2>2, <2>3 DEF Abstract!TurnDown
  <2>5. QED
    BY <2>4 DEF Abstract!Next
<1>4. ASSUME NEW s \in GivenStates, NEW out \in BOOLEAN, NEW i \in GivenIndices,
             CheckUnchanged(i, s, out) \/ CheckChanged(i, s, out)
      PROVE  Abstract!Next
  <2>1. i \in Abstract!Indices
    BY <1>4, CheckImplements
  <2>2. \/ Abstract!Claim(i)
        \/ \E r \in Records : Abstract!Observe(i, r)
    BY <1>4, CheckImplements
  <2>3. QED
    BY <2>1, <2>2 DEF Abstract!Next, Records
<1>5. ASSUME NEW cap \in Capacities \cup {NULL}, NEW out \in BOOLEAN,
             NEW b \in Batches, DiffBatch(b, cap, out)
      PROVE  Abstract!Next
  <2> DEFINE recs == [i \in 0 .. b.count - 1 |-> BatchRecord(b, i)]
  <2>1. CASE Abstract!TurnDown("diff")
    BY <2>1 DEF Abstract!Next
  <2>2. CASE ~Abstract!TurnDown("diff")
    <3>1. /\ cap \in Capacities /\ b.count \in 0 .. Count
          /\ \A i \in 0 .. b.count - 1 : recs[i] \in Records
          /\ Abstract!Diff(b.count, recs, cap)
      BY <1>5, <2>2, DiffBatchImplements
    <3> HIDE DEF recs
    <3>2. QED
      BY <3>1, DiffIsAbstractStep
  <2>3. QED
    BY <2>1, <2>2
<1>6. ASSUME NEW cap \in Capacities \cup {NULL}, NEW out \in BOOLEAN,
             NEW c \in StreamCalls, DiffStreams(c, cap, out)
      PROVE  Abstract!Next
  <2> DEFINE recs == [i \in 0 .. c.count - 1 |-> StreamRecord(c, i)]
  <2>1. CASE Abstract!TurnDown("diff") \/ Abstract!LoseDiff
    BY <2>1 DEF Abstract!Next
  <2>2. CASE ~(Abstract!TurnDown("diff") \/ Abstract!LoseDiff)
    <3>1. /\ cap \in Capacities /\ c.count \in 0 .. Count
          /\ \A i \in 0 .. c.count - 1 : recs[i] \in Records
          /\ Abstract!Diff(c.count, recs, cap)
      BY <1>6, <2>2, DiffStreamsImplements
    <3> HIDE DEF recs
    <3>2. QED
      BY <3>1, DiffIsAbstractStep
  <2>3. QED
    BY <2>1, <2>2
<1>7. CASE Clear
  BY <1>7, ClearImplements DEF Abstract!Next
<1>8. CASE ResetStats
  BY <1>8, ResetStatsImplements DEF Abstract!Next
<1>9. CASE UNCHANGED vars
  <2>1. observed' = observed
    BY <1>9, ObservedFollowsMemory DEF vars
  <2>2. QED
    BY <1>9, <2>1 DEF vars, Abstract!avars
<1>10. QED
  BY <1>1, <1>2, <1>3, <1>4, <1>5, <1>6, <1>7, <1>8, <1>9 DEF Next

LEMMA CallsImplement ==
  ASSUME TypeOK
  PROVE  CallsReportTheirRecords
<1>1. ASSUME NEW i \in GivenIndices, NEW s \in GivenStates, NEW out \in BOOLEAN,
             CheckUnchanged(i, s, out) \/ CheckChanged(i, s, out)
      PROVE  IF s = NULL /\ StateSize > 0 THEN Abstract!Claim(i)
             ELSE Abstract!Observe(i, IF s = NULL THEN << >> ELSE s)
  BY <1>1, CheckImplements
<1>2. ASSUME NEW b \in Batches, NEW cap \in Capacities \cup {NULL}, NEW out \in BOOLEAN,
             DiffBatch(b, cap, out)
      PROVE  IF reply'.rc = "OK"
               THEN Abstract!Diff(b.count, [i \in 0 .. b.count - 1 |-> BatchRecord(b, i)],
                                  cap)
               ELSE Abstract!TurnDown("diff")
  BY <1>2, DiffBatchImplements
<1>3. QED
  BY <1>1, <1>2 DEF CallsReportTheirRecords

(* However records are handed over, the indices reported are exactly those  *)
(* whose record differs from the one presented last.                        *)
THEOREM TrackerImplementsIndexedDetector == Spec => ReportsExactlyTheChanges
<1>1. Init => Dormant
  BY DEF Init, Dormant
<1>2. TypeOK /\ Dormant /\ [Next]_vars => Dormant'
  BY StepKeepsDormant
<1>3. TypeOK /\ Dormant /\ [Next]_vars => [Abstract!Next]_(Abstract!avars)
  BY StepImplements
<1>4. TypeOK => CallsReportTheirRecords
  BY CallsImplement
<1>5. QED
  BY <1>1, <1>2, <1>3, <1>4, InitImplements, TypeCorrect, PTL
     DEF Spec, ReportsExactlyTheChanges, Abstract!Spec

(* A stream call that reports a success is the diff of the records its      *)
(* streams spell, whichever kernel ran.                                     *)
StreamsRead ==
  reply'.op = "diff" /\ reply'.rc = "OK" =>
    \A c \in StreamCalls, cap \in Capacities :
      DiffStreams(c, cap, TRUE) /\ ~OffsetsLost(c, cap, TRUE) =>
        Abstract!Diff(c.count, [i \in 0 .. c.count - 1 |-> StreamRecord(c, i)], cap)

THEOREM StreamsAreRecords == Spec => StreamsReadWholeRecords
<1>1. TypeOK /\ [Next]_vars => [StreamsRead]_vars
  <2> SUFFICES ASSUME TypeOK, reply'.rc = "OK",
                      NEW c \in StreamCalls, NEW cap \in Capacities,
                      DiffStreams(c, cap, TRUE), ~OffsetsLost(c, cap, TRUE)
               PROVE  Abstract!Diff(c.count,
                                    [i \in 0 .. c.count - 1 |-> StreamRecord(c, i)], cap)
    BY DEF StreamsRead
  <2>1. cap \in Capacities \cup {NULL} /\ TRUE \in BOOLEAN
    OBVIOUS
  <2>2. QED
    BY <2>1, DiffStreamsImplements
<1>2. QED
  BY <1>1, TypeCorrect, PTL DEF Spec, StreamsReadWholeRecords, StreamsRead

(* Where no call needs more memory for its offsets than there is, a stream  *)
(* call that reports a success has observed all its records.                *)
StreamsObserve ==
  \A c \in StreamCalls, cap \in Capacities :
    DiffStreams(c, cap, TRUE) /\ reply'.rc = "OK" =>
      \A i \in 0 .. c.count - 1 : valid'[i]

THEOREM StreamsObserveTheirRecords ==
  ASSUME MemoryMayRunOut => \A c \in StreamCalls : Len(c.streams) <= StackStreams
  PROVE  Spec => StreamsObserveEveryRecord
<1>1. TypeOK /\ [Next]_vars => [StreamsObserve]_vars
  <2> SUFFICES ASSUME TypeOK, reply'.rc = "OK",
                      NEW c \in StreamCalls, NEW cap \in Capacities,
                      DiffStreams(c, cap, TRUE),
                      NEW i \in 0 .. c.count - 1
               PROVE  valid'[i]
    BY DEF StreamsObserve
  <2>1. ~OffsetsLost(c, cap, TRUE)
    <3>1. Len(c.streams) \in Nat /\ StackStreams \in Nat
      BY IndexedAssumption
    <3>2. MemoryMayRunOut => ~(Len(c.streams) > StackStreams)
      BY <3>1
    <3>3. QED
      BY <3>2 DEF OffsetsLost
  <2>2. ASSUME Refuse("diff", StreamRefusal(c, cap, TRUE))
        PROVE  StreamRefusal(c, cap, TRUE) = "OK"
    <3>1. reply' = Reply("diff", StreamRefusal(c, cap, TRUE), NULL)
      BY <2>2 DEF Refuse
    <3>2. QED
      BY <3>1 DEF Reply
  <2>3. /\ StreamRefusal(c, cap, TRUE) = "OK"
        /\ Diffed(c.count, StreamDirty(c), StreamCopied(c), cap)
    BY <2>1, <2>2 DEF DiffStreams
  <2>4. c.count \in 0 .. Count
    BY <2>3, AcceptedStreams
  <2>5. i \in Indices
    BY <2>4, IndexedAssumption DEF Indices
  <2>6. valid'[i] = (valid[i] \/ i \in StreamDirty(c))
    BY <2>3, <2>5 DEF Diffed
  <2>7. valid[i] \/ i \in StreamDirty(c)
    BY DEF StreamDirty
  <2>8. QED
    BY <2>6, <2>7
<1>2. QED
  BY <1>1, TypeCorrect, PTL DEF Spec, StreamsObserveEveryRecord, StreamsObserve
=============================================================================
