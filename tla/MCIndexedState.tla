--------------------------- MODULE MCIndexedState ---------------------------
(***************************************************************************)
(* A small indexed tracker for TLC: two indices and records of seven       *)
(* bytes, the size for which streams have kernels of their own.  Callers   *)
(* hand records over in every way, and in every malformed one.             *)
(***************************************************************************)
EXTENDS IndexedState

S == INSTANCE SequencesExt

CONSTANT MaxCalls  \* bound: the calls made once the tracker is configured

VARIABLE calls

MCByte == {0, 1}

(* Records of seven bytes: zeroes, but for one byte.                        *)
r0 == [b \in 1 .. 7 |-> 0]
Flip(b) == [r0 EXCEPT ![b] = 1]
MCStates == {r0, Flip(2), <<1>>}
MCUninitialized == {[a \in 0 .. 13 |-> 0]}

(* The records laid out stride bytes apart, with bytes of 1 in the gaps.    *)
Strided(records, stride, size) ==
  [p \in 1 .. Len(records) * stride |->
     LET i == (p - 1) \div stride
         b == (p - 1) % stride
     IN  IF b < size THEN records[i + 1][b + 1] ELSE 1]

MCBatches ==
  {[data |-> Strided(p, st, 7), count |-> Len(p), stride |-> st] :
     p \in {<<r0, Flip(7)>>, <<Flip(2), r0>>, <<Flip(7)>>}, st \in {7, 8}}
  \cup {[data |-> r0, count |-> 1, stride |-> st] : st \in {0, 6}}
  \cup {[data |-> NULL, count |-> n, stride |-> 7] : n \in {0, 1}}
  \cup {[data |-> Strided(<<r0, r0, r0>>, 7, 7), count |-> 3, stride |-> 7]}

(* One stream for field s of the records: its bytes, stride bytes apart.    *)
Stream(records, offset, size, stride) ==
  [data |-> Strided([i \in 1 .. Len(records) |->
                       SubSeq(records[i], offset + 1, offset + size)],
                    stride, size),
   stride |-> stride, fieldSize |-> size]

Empty == [data |-> NULL, stride |-> 0, fieldSize |-> 0]

SumUpTo(sizes, s) == LET Sum[n \in 0 .. Len(sizes)] ==
                           IF n = 0 THEN 0 ELSE Sum[n - 1] + sizes[n]
                     IN  Sum[s]

(* The records as streams of fields of the given sizes, the bytes of a      *)
(* field next to each other or apart.                                       *)
Fields(records, sizes, gap) ==
  [streams |-> [s \in 1 .. Len(sizes) |->
                  IF sizes[s] = 0 THEN Empty
                  ELSE Stream(records, SumUpTo(sizes, s - 1), sizes[s], sizes[s] + gap)],
   count |-> Len(records)]

(* The layouts with kernels of their own; three without, one of them with   *)
(* more streams than the offsets the kernel has room for.                   *)
Special == {<<1, 1, 1, 1, 1, 1, 1>>, <<1, 3, 3>>, <<1, 2, 4>>}
Other   == {<<3, 3, 1>>, <<4, 0, 3>>, <<1, 0, 1, 1, 1, 1, 1, 0, 1>>}

MCStreamCalls ==
  {Fields(p, sizes, 1) : p \in {<<r0, Flip(7)>>, <<Flip(3), r0>>, <<Flip(4), r0>>},
                         sizes \in Special}
  \cup {Fields(p, sizes, 0) : p \in {<<r0, Flip(7)>>, <<Flip(5)>>}, sizes \in Other}
  \cup {[streams |-> << >>, count |-> n] : n \in {0, 1, 3}}
  \cup {[streams |-> <<Empty, [data |-> r0, stride |-> st, fieldSize |-> 6]>>,
         count |-> 1] : st \in {5, 6}}
  \cup {[streams |-> <<[data |-> << >>, stride |-> 0, fieldSize |-> 7]>>,
         count |-> 0]}

MCInit == Init /\ calls = 0

(* The caller stops calling.                                                *)
Stop == calls = MaxCalls /\ UNCHANGED <<vars, calls>>

MCNext ==
  \/ /\ calls < MaxCalls
     /\ Next
     /\ calls' = IF configured THEN calls + 1 ELSE 0
  \/ Stop

MCSpec == MCInit /\ [][MCNext]_<<vars, calls>>

-----------------------------------------------------------------------------
(* The fields of record i of a stream call, one after the other.            *)
Concatenated(c, i) ==
  S!FlattenSeq([s \in 1 .. Len(c.streams) |->
                  IF c.streams[s].fieldSize = 0 THEN << >>
                  ELSE SubSeq(c.streams[s].data, i * c.streams[s].stride + 1,
                              i * c.streams[s].stride + c.streams[s].fieldSize)])

(* That is how IndexedState spells it, of the calls that are not refused.   *)
ASSUME SpellingAssumption ==
  \A c \in StreamCalls : \A i \in 0 .. c.count - 1 :
    /\ Overlapping(c.streams) = {}
    /\ FieldBytes(c.streams, Len(c.streams)) = StateSize
    => StreamRecord(c, i) = Concatenated(c, i)
=============================================================================
