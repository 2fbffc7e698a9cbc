---------------------------- MODULE IndexedState ----------------------------
(***************************************************************************)
(* The indexed dirty-state tracker of a context: configure, single checks, *)
(* the batch diff over one strided array, the diff over several field      *)
(* streams, clear and reset of the statistics (smc_state.c from line 223), *)
(* down to the bytes of the snapshot buffer.  Addresses and indices count  *)
(* from 0, the bytes of the caller's sequences from 1.                     *)
(*                                                                         *)
(* A diff visits its records in ascending order and touches only the slot  *)
(* of each, so a call is one step.  The batch kernels for records of 1, 2, *)
(* 4 and 8 bytes differ from the generic one in the width of their loads   *)
(* only.                                                                   *)
(***************************************************************************)
EXTENDS Integers, Sequences, FiniteSets

CONSTANTS
  Byte,
  Count,            \* the number of indices configured
  StateSize,        \* the size of a record, in bytes; may be 0
  Budgets,          \* memory_budget_bytes; 0 is "no limit"
  States,           \* what callers present to a single check
  GivenIndices,     \* the indices they present it under
  MayPassNull,      \* whether callers pass a NULL state to a single check
  Batches,          \* the strided arrays given to a batch diff
  StreamCalls,      \* the streams given to a stream diff
  Capacities,       \* sizes of the arrays for the dirty indices
  StackStreams,     \* streams whose offsets fit the kernel's stack array: 8
  MemoryMayRunOut,  \* whether the malloc for more offsets can fail
  Uninitialized,    \* what malloc may leave in the snapshot buffer
  NULL

Indices   == 0 .. Count - 1
Addresses == 0 .. Count * StateSize - 1

(* A batch: count records, stride bytes apart, in the caller's memory.      *)
BatchType ==
  [data : Seq(Byte) \cup {NULL}, count : Nat, stride : Nat]

(* A stream: one field of every record, stride bytes apart.                 *)
StreamType == [data : Seq(Byte) \cup {NULL}, stride : Nat, fieldSize : Nat]

(* The caller's memory covers what its descriptors say.                     *)
Readable(data, n, stride, size) ==
  n > 0 /\ size > 0 => data # NULL /\ (n - 1) * stride + size <= Len(data)

ASSUME IndexedAssumption ==
  /\ Byte # {}
  /\ Count \in Nat \ {0}
  /\ StateSize \in Nat
  /\ Budgets \subseteq Nat
  /\ States \subseteq Seq(Byte)
  /\ GivenIndices \subseteq Nat
  /\ MayPassNull \in BOOLEAN
  /\ Batches \subseteq BatchType
  /\ \A b \in Batches :
       b.data = NULL \/ Readable(b.data, b.count, b.stride, StateSize)
  /\ StreamCalls \subseteq [streams : Seq(StreamType), count : Nat]
  /\ \A c \in StreamCalls : \A s \in DOMAIN c.streams :
       Readable(c.streams[s].data, c.count, c.streams[s].stride,
                c.streams[s].fieldSize)
  /\ Capacities \subseteq Nat
  /\ StackStreams \in Nat
  /\ MemoryMayRunOut \in BOOLEAN
  /\ Uninitialized \subseteq [Addresses -> Byte]
  /\ NULL \notin Seq(Byte)

VARIABLES
  configured,  \* indexed_state_configured of the context
  valid,       \* the validity flag of every index
  memory,      \* the snapshot buffer: Count records of StateSize bytes
  stats,       \* indexed_state_stats of the context
  reply        \* what the last call returned: code and output

vars == <<configured, valid, memory, stats, reply>>

Counters == {"checks", "changed", "unchanged", "stores", "bytes_compared",
             "out_of_range", "clears"}

ZeroStats == [c \in Counters |-> 0]

Ops   == {"none", "configure", "check", "diff", "clear", "reset_stats"}
Codes == {"OK", "INIT", "INVALID", "SIZE", "CAPACITY"}

Reply(op, rc, answer) == [op |-> op, rc |-> rc, answer |-> answer]

(* An early return: nothing changes but the code handed back.               *)
Refuse(op, rc) ==
  /\ reply' = Reply(op, rc, NULL)
  /\ UNCHANGED <<configured, valid, memory, stats>>

Init ==
  /\ configured = FALSE
  /\ valid = [i \in Indices |-> FALSE]
  /\ memory \in Uninitialized
  /\ stats = ZeroStats
  /\ reply = Reply("none", "OK", NULL)

-----------------------------------------------------------------------------
(* Configuration.                                                           *)

(* The snapshots and one validity byte for each share one allocation.       *)
BufferSize == Count * StateSize + Count

(* INVALID answers a second configuration, and one for zero indices.        *)
Configure(budget) ==
  \/ Refuse("configure", "INVALID")
  \/ /\ ~configured
     /\ budget # 0 /\ BufferSize > budget
     /\ Refuse("configure", "CAPACITY")
  \/ /\ ~configured
     /\ budget = 0 \/ BufferSize <= budget
     /\ \/ Refuse("configure", "INIT")
        \/ /\ configured' = TRUE
           /\ valid' = [i \in Indices |-> FALSE]
           /\ stats' = ZeroStats
           /\ reply' = Reply("configure", "OK", NULL)
           /\ UNCHANGED memory

-----------------------------------------------------------------------------
(* Single checks.                                                           *)

Snapshot(i) == [j \in 1 .. StateSize |-> memory[i * StateSize + j - 1]]

(* Faulty: the slots taken to be one byte apart.                            *)
OverwriteUnscaled(i, s) ==
  [a \in Addresses |-> IF a - i \in 0 .. StateSize - 1
                         THEN s[a - i + 1] ELSE memory[a]]

(* The buffer after record s has been copied into slot i.                   *)
Overwrite(i, s) ==
  [a \in Addresses |-> IF a \div StateSize = i
                         THEN s[(a % StateSize) + 1] ELSE memory[a]]

(* Faulty: a first observation is not counted as a store.                   *)
CountStoresOnUpdate(n, changed) ==
  [stats EXCEPT !["checks"] = @ + n,
                !["bytes_compared"] = @ + n * StateSize,
                !["changed"] = @ + changed,
                !["unchanged"] = @ + (n - changed),
                !["stores"] = @ + (IF n > 1 THEN changed ELSE 0)]

(* Faulty: the subtraction the wrong way round.                             *)
CountUnchangedSwapped(n, changed) ==
  [stats EXCEPT !["checks"] = @ + n,
                !["bytes_compared"] = @ + n * StateSize,
                !["changed"] = @ + changed,
                !["unchanged"] = @ + (changed - n),
                !["stores"] = @ + changed]

(* The counters after n records were compared and some of them had changed. *)
CountChecks(n, changed) ==
  [stats EXCEPT !["checks"] = @ + n,
                !["bytes_compared"] = @ + n * StateSize,
                !["changed"] = @ + changed,
                !["unchanged"] = @ + (n - changed),
                !["stores"] = @ + changed]

(* The refusals of a check that leave no trace; a NULL state comes with the *)
(* configured size.                                                         *)
CheckRefusal(s, out) ==
  IF ~configured THEN "INIT"
  ELSE IF ~out THEN "INVALID"
  ELSE IF s # NULL /\ Len(s) # StateSize THEN "SIZE" ELSE "OK"

CheckRefused(s, out) ==
  /\ CheckRefusal(s, out) # "OK"
  /\ Refuse("check", CheckRefusal(s, out))

(* An index out of range is refused and counted.                            *)
CheckOutOfRange(i, s, out) ==
  /\ CheckRefusal(s, out) = "OK"
  /\ i >= Count
  /\ stats' = [stats EXCEPT !["out_of_range"] = @ + 1]
  /\ reply' = Reply("check", "SIZE", NULL)
  /\ UNCHANGED <<configured, valid, memory>>

CheckUnchanged(i, s, out) ==
  /\ CheckRefusal(s, out) = "OK"
  /\ i < Count
  /\ valid[i]
  /\ StateSize = 0 \/ (s # NULL /\ Snapshot(i) = s)
  /\ stats' = CountChecks(1, 0)
  /\ reply' = Reply("check", "OK", [changed |-> 0])
  /\ UNCHANGED <<configured, valid, memory>>

(* A first observation, or a record that differs.  A NULL record marks the  *)
(* index observed and copies nothing; comparing one, once the index is      *)
(* valid, would have memcmp read it: that crash is left out.                *)
CheckChanged(i, s, out) ==
  /\ CheckRefusal(s, out) = "OK"
  /\ i < Count
  /\ ~valid[i] \/ (StateSize > 0 /\ s # NULL /\ Snapshot(i) # s)
  /\ valid' = [valid EXCEPT ![i] = TRUE]
  /\ memory' = IF s # NULL /\ StateSize > 0 THEN Overwrite(i, s) ELSE memory
  /\ stats' = CountChecks(1, 1)
  /\ reply' = Reply("check", "OK", [changed |-> 1])
  /\ UNCHANGED configured

-----------------------------------------------------------------------------
(* Diffs.                                                                   *)

(* Faulty: the count stops with the caller's array.                         *)
ReportTruncated(dirty, cap) ==
  LET first == {i \in dirty : Cardinality({j \in dirty : j < i}) < cap}
  IN  [count |-> Cardinality(first), first |-> first]

(* How many records changed, and the first of them, as many as the caller's *)
(* array takes.  They are written in ascending order, so that the set says  *)
(* which array it is.                                                       *)
Report(dirty, cap) ==
  [count |-> Cardinality(dirty),
   first |-> {i \in dirty : Cardinality({j \in dirty : j < i}) < cap}]

(* What every kernel leaves behind, given what it found dirty.              *)
Diffed(n, dirty, copied, cap) ==
  /\ reply' = Reply("diff", "OK", Report(dirty, cap))
  /\ valid' = [i \in Indices |-> valid[i] \/ i \in dirty]
  /\ stats' = CountChecks(n, Cardinality(dirty))
  /\ memory' = copied
  /\ UNCHANGED configured

(* The refusals of a batch in the order they are made.  A capacity of NULL  *)
(* stands for a NULL array with room claimed in it.                         *)
BatchRefusal(b, cap, out) ==
  IF ~configured THEN "INIT"
  ELSE IF ~out \/ b.stride = 0 THEN "INVALID"
  ELSE IF b.stride < StateSize THEN "SIZE"
  ELSE IF cap = NULL THEN "INVALID"
  ELSE IF b.count > Count THEN "SIZE"
  ELSE IF b.count > 0 /\ StateSize > 0 /\ b.data = NULL THEN "INVALID"
  ELSE "OK"

BatchRecord(b, i) == [j \in 1 .. StateSize |-> b.data[i * b.stride + j]]

BatchDirty(b) ==
  {i \in 0 .. b.count - 1 : ~valid[i] \/ Snapshot(i) # BatchRecord(b, i)}

BatchCopied(b) ==
  LET dirty == BatchDirty(b)
  IN  [a \in Addresses |-> IF a \div StateSize \in dirty
                             THEN BatchRecord(b, a \div StateSize)[(a % StateSize) + 1]
                             ELSE memory[a]]

DiffBatch(b, cap, out) ==
  \/ BatchRefusal(b, cap, out) # "OK" /\ Refuse("diff", BatchRefusal(b, cap, out))
  \/ /\ BatchRefusal(b, cap, out) = "OK"
     /\ Diffed(b.count, BatchDirty(b), BatchCopied(b), cap)

(* The number of bytes in the first n fields of a record.                   *)
FieldBytes(streams, n) ==
  Cardinality(UNION {{s} \X (1 .. streams[s].fieldSize) : s \in 1 .. n})

(* The first stream, if any, whose stride is too small for its field.       *)
Overlapping(streams) ==
  {s \in 1 .. Len(streams) : streams[s].stride < streams[s].fieldSize}

(* The refusals of a stream diff, in the order they are made.  No streams   *)
(* stands for a NULL array of them as well.                                 *)
StreamRefusal(c, cap, out) ==
  IF ~configured THEN "INIT"
  ELSE IF ~out \/ cap = NULL THEN "INVALID"
  ELSE IF c.count > Count THEN "SIZE"
  ELSE IF c.count = 0 THEN "OK"
  ELSE IF c.streams = << >> THEN "INVALID"
  ELSE IF Overlapping(c.streams) # {}
    THEN LET s == CHOOSE s \in Overlapping(c.streams) :
                    \A r \in Overlapping(c.streams) : s <= r
         IN  IF c.streams[s].stride = 0 THEN "INVALID" ELSE "SIZE"
  ELSE IF FieldBytes(c.streams, Len(c.streams)) # StateSize THEN "SIZE"
  ELSE "OK"

FieldSizes(streams) == [s \in 1 .. Len(streams) |-> streams[s].fieldSize]

(* Faulty: the offsets of the 1-3-3 kernel pasted into the 1-2-4 kernel.    *)
FieldOffsetPasted(streams, s) ==
  CASE FieldSizes(streams) = <<1, 1, 1, 1, 1, 1, 1>> -> s - 1
    [] FieldSizes(streams) = <<1, 3, 3>> -> <<0, 1, 4>>[s]
    [] FieldSizes(streams) = <<1, 2, 4>> -> <<0, 1, 4>>[s]
    [] OTHER -> FieldBytes(streams, s - 1)

(* Where field s starts in a record: fixed in the kernels for seven-byte    *)
(* records, a running sum in the generic one.                               *)
FieldOffset(streams, s) ==
  CASE FieldSizes(streams) = <<1, 1, 1, 1, 1, 1, 1>> -> s - 1
    [] FieldSizes(streams) = <<1, 3, 3>> -> <<0, 1, 4>>[s]
    [] FieldSizes(streams) = <<1, 2, 4>> -> <<0, 1, 3>>[s]
    [] OTHER -> FieldBytes(streams, s - 1)

FieldDiffers(c, i, s) ==
  \E j \in 1 .. c.streams[s].fieldSize :
    c.streams[s].data[i * c.streams[s].stride + j]
      # memory[i * StateSize + FieldOffset(c.streams, s) + j - 1]

(* The records of which some field differs from the snapshot.               *)
StreamDirty(c) ==
  {i \in 0 .. c.count - 1 :
     ~valid[i] \/ \E s \in 1 .. Len(c.streams) : FieldDiffers(c, i, s)}

(* The field that byte b of a record belongs to.                            *)
FieldAt(streams, b) ==
  {s \in 1 .. Len(streams) :
     b - FieldOffset(streams, s) \in 0 .. streams[s].fieldSize - 1}

(* All fields of a dirty record are copied, the unchanged ones included.    *)
StreamCopied(c) ==
  LET dirty == StreamDirty(c)
  IN  [a \in Addresses |->
         LET i == a \div StateSize
             b == a % StateSize
         IN  IF i \in dirty /\ FieldAt(c.streams, b) # {}
               THEN LET s == CHOOSE s \in FieldAt(c.streams, b) : TRUE
                    IN  c.streams[s].data[i * c.streams[s].stride
                                            + (b - FieldOffset(c.streams, s)) + 1]
               ELSE memory[a]]

(* With more streams than its stack array takes, a kernel allocates their   *)
(* offsets; if that fails, it reports nothing dirty and the call succeeds.  *)
(* StackStreams = 0 is the build without the optimized kernels.             *)
OffsetsLost(c, cap, out) ==
  /\ StreamRefusal(c, cap, out) = "OK"
  /\ MemoryMayRunOut
  /\ c.count > 0
  /\ Len(c.streams) > StackStreams
  /\ reply' = Reply("diff", "OK", Report({}, cap))
  /\ UNCHANGED <<configured, valid, memory, stats>>

DiffStreams(c, cap, out) ==
  \/ /\ StreamRefusal(c, cap, out) # "OK"
     /\ Refuse("diff", StreamRefusal(c, cap, out))
  \/ /\ StreamRefusal(c, cap, out) = "OK"
     /\ Diffed(c.count, StreamDirty(c), StreamCopied(c), cap)
  \/ OffsetsLost(c, cap, out)

-----------------------------------------------------------------------------
(* Faulty: not counted, like the clear of the keyed tracker.                *)
ClearUncounted ==
  \/ ~configured /\ Refuse("clear", "INIT")
  \/ /\ configured
     /\ valid' = [i \in Indices |-> FALSE]
     /\ reply' = Reply("clear", "OK", NULL)
     /\ UNCHANGED <<configured, memory, stats>>

Clear ==
  \/ ~configured /\ Refuse("clear", "INIT")
  \/ /\ configured
     /\ valid' = [i \in Indices |-> FALSE]
     /\ stats' = [stats EXCEPT !["clears"] = @ + 1]
     /\ reply' = Reply("clear", "OK", NULL)
     /\ UNCHANGED <<configured, memory>>

(* Allowed on a context whose tracker was never configured.                 *)
ResetStats ==
  /\ stats' = ZeroStats
  /\ reply' = Reply("reset_stats", "OK", NULL)
  /\ UNCHANGED <<configured, valid, memory>>

GivenStates == States \cup (IF MayPassNull THEN {NULL} ELSE {})

Next ==
  \/ \E b \in Budgets : Configure(b)
  \/ \E s \in GivenStates, out \in BOOLEAN :
       \/ CheckRefused(s, out)
       \/ \E i \in GivenIndices :
            \/ CheckOutOfRange(i, s, out)
            \/ CheckUnchanged(i, s, out)
            \/ CheckChanged(i, s, out)
  \/ \E cap \in Capacities \cup {NULL}, out \in BOOLEAN :
       \/ \E b \in Batches : DiffBatch(b, cap, out)
       \/ \E c \in StreamCalls : DiffStreams(c, cap, out)
  \/ Clear
  \/ ResetStats

Spec == Init /\ [][Next]_vars

-----------------------------------------------------------------------------
TypeOK ==
  /\ configured \in BOOLEAN
  /\ valid \in [Indices -> BOOLEAN]
  /\ memory \in [Addresses -> Byte]
  /\ stats \in [Counters -> Nat]
  /\ reply.op \in Ops /\ reply.rc \in Codes

(* The counters, kept by one path for single checks and another in every    *)
(* kernel, agree with each other at every moment: each record compared was  *)
(* found changed or unchanged, every change was stored, and every           *)
(* comparison is charged the full record.                                   *)
CountersAgree ==
  /\ stats["checks"] = stats["changed"] + stats["unchanged"]
  /\ stats["stores"] = stats["changed"]
  /\ stats["bytes_compared"] = stats["checks"] * StateSize

(* Only a clear, and a counted one, makes the tracker forget an index it    *)
(* has observed.                                                            *)
OnlyClearForgets ==
  [][ (\E i \in Indices : valid[i] /\ ~valid'[i]) =>
        stats'["clears"] = stats["clears"] + 1 ]_vars

(* The dirty count a diff hands out is the number of changes it counts,     *)
(* even where the caller's array was too small for the indices.             *)
ReportsAgreeWithCounters ==
  [][ reply'.op = "diff" /\ reply'.rc = "OK" =>
        reply'.answer.count = stats'["changed"] - stats["changed"] ]_vars

(* include/smc.h on smc_state_diff_indexed_streams: "If any field differs,  *)
(* record i is marked dirty and all fields are copied into the stored       *)
(* snapshot."  Whatever is returned as a success has observed every record. *)
StreamsObserveEveryRecord ==
  [][ \A c \in StreamCalls, cap \in Capacities :
        DiffStreams(c, cap, TRUE) /\ reply'.rc = "OK" =>
          \A i \in 0 .. c.count - 1 : valid'[i] ]_vars

(* The exact change detector.                                               *)
observed == [i \in Indices |-> IF valid[i] THEN Snapshot(i) ELSE NULL]

Abstract ==
  INSTANCE IndexedDetector WITH
    Records     <- [1 .. StateSize -> Byte],
    MayLoseDiff <- MemoryMayRunOut,
    ready       <- configured,
    seen        <- observed

(* Replies do not name the records they are about: call by call, single     *)
(* checks and batches answer what the detector answers to the very records  *)
(* they were given.                                                         *)
CallsReportTheirRecords ==
  /\ reply'.op = "check" /\ reply'.rc = "OK" =>
       \A i \in GivenIndices, s \in GivenStates, out \in BOOLEAN :
         CheckUnchanged(i, s, out) \/ CheckChanged(i, s, out) =>
           IF s = NULL /\ StateSize > 0 THEN Abstract!Claim(i)
           ELSE Abstract!Observe(i, IF s = NULL THEN << >> ELSE s)
  /\ reply'.op = "diff" =>
       \A b \in Batches, cap \in Capacities \cup {NULL}, out \in BOOLEAN :
         DiffBatch(b, cap, out) =>
           IF reply'.rc = "OK"
             THEN Abstract!Diff(b.count, [i \in 0 .. b.count - 1 |-> BatchRecord(b, i)],
                                cap)
             ELSE Abstract!TurnDown("diff")

(* The flat buffer, the strided arrays and the streams all implement that   *)
(* detector: what is reported are exactly the records that differ from the  *)
(* ones presented last.  The exceptions are the detector's: a check without *)
(* a record, and a diff of streams without memory.                          *)
ReportsExactlyTheChanges == Abstract!Spec /\ [][CallsReportTheirRecords]_vars

(* Record i of a stream call: its fields one after the other.               *)
StreamRecord(c, i) ==
  [b \in 1 .. StateSize |->
     LET s == CHOOSE s \in 1 .. Len(c.streams) :
                FieldBytes(c.streams, s - 1) < b /\ b <= FieldBytes(c.streams, s)
     IN  c.streams[s].data[i * c.streams[s].stride + (b - FieldBytes(c.streams, s - 1))]]

(* Every kernel, the ones with offsets of their own included, finds dirty   *)
(* exactly the records whose concatenated fields differ from the ones seen  *)
(* last, and leaves the concatenated fields as the snapshot: a diff of      *)
(* streams is the diff of the records they spell, unless its offsets found  *)
(* no memory.                                                               *)
StreamsReadWholeRecords ==
  [][ reply'.op = "diff" /\ reply'.rc = "OK" =>
        \A c \in StreamCalls, cap \in Capacities :
          DiffStreams(c, cap, TRUE) /\ ~OffsetsLost(c, cap, TRUE) =>
            Abstract!Diff(c.count, [i \in 0 .. c.count - 1 |-> StreamRecord(c, i)],
                          cap) ]_vars
=============================================================================
