--------------------------- MODULE ChangeDetector ---------------------------
(***************************************************************************)
(* What the keyed dirty-state tracker promises its caller: a detector that *)
(* may raise a false alarm but never misses a change.  A check answers     *)
(* "unchanged" only when the state presented is, byte for byte, the one    *)
(* presented last under that key; remembering the new state may cost the   *)
(* detector its memory of at most one other key.                           *)
(***************************************************************************)
EXTENDS Integers, Sequences

CONSTANTS
  Keys, States,    \* sequences of bytes
  MaxKeySize, MaxPayloadSize,
  NULL

VARIABLES
  ready,     \* the tracker of this context has been configured
  observed,  \* the state last presented under every key, NULL for none
  reply      \* what the last call returned

avars == <<ready, observed, reply>>

Reply(op, rc, changed) == [op |-> op, rc |-> rc, changed |-> changed]

Refuse(op, rc) ==
  reply' = Reply(op, rc, NULL) /\ UNCHANGED <<ready, observed>>

Init ==
  /\ ready = FALSE
  /\ observed = [k \in Keys |-> NULL]
  /\ reply = Reply("none", "OK", NULL)

-----------------------------------------------------------------------------
Configure ==
  \/ /\ ~ready
     /\ ready' = TRUE
     /\ reply' = Reply("configure", "OK", NULL)
     /\ UNCHANGED observed
  \/ ~ready /\ \E rc \in {"CAPACITY", "INIT"} : Refuse("configure", rc)
  \/ ready /\ Refuse("configure", "INVALID")

(* The refusals of a check, in the order they are made; out tells whether   *)
(* the caller gave a place for the answer.                                  *)
Refusal(k, s, out) ==
  IF ~ready THEN "INIT"
  ELSE IF k = NULL \/ ~out THEN "INVALID"
  ELSE IF Len(k) > MaxKeySize \/ Len(s) > MaxPayloadSize THEN "SIZE" ELSE "OK"

Unchanged(k, s) ==
  /\ observed[k] = s
  /\ reply' = Reply("check", "OK", 0)
  /\ UNCHANGED <<ready, observed>>

Changed(k, s) ==
  /\ observed[k] # s
  /\ reply' = Reply("check", "OK", 1)
  /\ \E lost \in {{}} \cup {{j} : j \in Keys \ {k}} :
       observed' = [j \in Keys |-> IF j = k THEN s
                                   ELSE IF j \in lost THEN NULL ELSE observed[j]]
  /\ UNCHANGED ready

Check(k, s, out) ==
  \/ Refusal(k, s, out) # "OK" /\ Refuse("check", Refusal(k, s, out))
  \/ Refusal(k, s, out) = "OK" /\ (Unchanged(k, s) \/ Changed(k, s))

Clear ==
  \/ ~ready /\ Refuse("clear", "INIT")
  \/ /\ ready
     /\ reply' = Reply("clear", "OK", NULL)
     /\ observed' = [k \in Keys |-> NULL]
     /\ UNCHANGED ready

(* Resetting the counters is invisible here, but for the reply.             *)
ResetStats == Refuse("reset_stats", "OK")

Next ==
  \/ Configure
  \/ \E k \in Keys \cup {NULL}, s \in States \cup {<< >>}, out \in BOOLEAN :
       Check(k, s, out)
  \/ Clear
  \/ ResetStats

Spec == Init /\ [][Next]_avars
=============================================================================
