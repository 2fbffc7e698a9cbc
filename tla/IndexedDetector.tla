--------------------------- MODULE IndexedDetector ---------------------------
(***************************************************************************)
(* What the indexed dirty-state tracker promises its caller: an exact      *)
(* change detector.  Every index has a place of its own, so nothing is     *)
(* ever forgotten short of a clear, and however the records are handed     *)
(* over (one by one, as a strided array, or field by field as streams),    *)
(* the indices reported are exactly those whose record differs from the    *)
(* one presented last.                                                     *)
(***************************************************************************)
EXTENDS Integers, FiniteSets

CONSTANTS
  Count,       \* the number of indices
  Records,     \* the records of the configured size
  Capacities,  \* sizes of the arrays callers pass for the dirty indices
  MayLoseDiff, \* whether a diff may find no memory to work in
  NULL

VARIABLES
  ready,  \* the tracker of this context has been configured
  seen,   \* the record last presented under every index, NULL for none
  reply   \* what the last call returned

avars == <<ready, seen, reply>>

Indices == 0 .. Count - 1

Reply(op, rc, answer) == [op |-> op, rc |-> rc, answer |-> answer]

(* The answer to a diff: how many records changed, and the first of them in *)
(* ascending order, as many as the caller's array takes.                    *)
Report(dirty, cap) ==
  [count |-> Cardinality(dirty),
   first |-> {i \in dirty : Cardinality({j \in dirty : j < i}) < cap}]

Refuse(op, rc) ==
  reply' = Reply(op, rc, NULL) /\ UNCHANGED <<ready, seen>>

Init ==
  /\ ready = FALSE
  /\ seen = [i \in Indices |-> NULL]
  /\ reply = Reply("none", "OK", NULL)

-----------------------------------------------------------------------------
Configure ==
  \/ /\ ~ready
     /\ ready' = TRUE
     /\ reply' = Reply("configure", "OK", NULL)
     /\ UNCHANGED seen
  \/ ~ready /\ \E rc \in {"CAPACITY", "INIT"} : Refuse("configure", rc)
  \/ Refuse("configure", "INVALID")

(* A call the tracker turns down.                                           *)
TurnDown(op) ==
  IF ready THEN \E rc \in {"INVALID", "SIZE"} : Refuse(op, rc)
  ELSE Refuse(op, "INIT")

Observe(i, r) ==
  /\ ready
  /\ reply' = Reply("check", "OK", [changed |-> IF seen[i] = r THEN 0 ELSE 1])
  /\ seen' = [seen EXCEPT ![i] = r]
  /\ UNCHANGED ready

(* An index claimed without a record: what it holds from now on is anyone's *)
(* guess, until a record is presented.                                      *)
Claim(i) ==
  /\ ready
  /\ seen[i] = NULL
  /\ reply' = Reply("check", "OK", [changed |-> 1])
  /\ \E r \in Records : seen' = [seen EXCEPT ![i] = r]
  /\ UNCHANGED ready

(* Records 0 .. n-1 are presented at once; they are the ones seen then.     *)
Diff(n, recs, cap) ==
  /\ ready
  /\ reply' = Reply("diff", "OK", Report({i \in 0 .. n - 1 : seen[i] # recs[i]}, cap))
  /\ seen' = [i \in Indices |-> IF i < n THEN recs[i] ELSE seen[i]]
  /\ UNCHANGED ready

(* A diff that found no memory looks at nothing, and says so as if nothing  *)
(* had changed.                                                             *)
LoseDiff ==
  /\ ready
  /\ MayLoseDiff
  /\ reply' = Reply("diff", "OK", Report({}, 0))
  /\ UNCHANGED <<ready, seen>>

Clear ==
  /\ ready
  /\ reply' = Reply("clear", "OK", NULL)
  /\ seen' = [i \in Indices |-> NULL]
  /\ UNCHANGED ready

(* Resetting the counters is invisible here, but for the reply.             *)
ResetStats == Refuse("reset_stats", "OK")

Next ==
  \/ Configure
  \/ \E op \in {"check", "diff", "clear"} : TurnDown(op)
  \/ \E i \in Indices : Claim(i) \/ \E r \in Records : Observe(i, r)
  \/ \E n \in 0 .. Count, cap \in Capacities :
       /\ \A i \in 0 .. n - 1 : seen'[i] \in Records
       /\ Diff(n, seen', cap)
  \/ LoseDiff
  \/ Clear
  \/ ResetStats

Spec == Init /\ [][Next]_avars
=============================================================================
