----------------------------- MODULE LossyStore -----------------------------
(***************************************************************************)
(* What the artifact cache promises its caller, with no slots, hashes or   *)
(* byte layout in sight: a store that may forget but never lies.  A lookup *)
(* answers with exactly the bytes last stored under that key, or says      *)
(* NOT_FOUND; storing a key makes it retrievable at once and costs at most *)
(* one other key; removing and clearing forget what they are told to.      *)
(***************************************************************************)
EXTENDS Integers, Sequences

CONSTANTS
  Keys, Values,    \* sequences of bytes
  Capacities,      \* sizes of the buffers callers pass to a lookup
  MaxKeySize, MaxPayloadSize,
  NULL

VARIABLES
  ready,   \* the cache of this context has been configured
  content, \* the bytes stored under every key, NULL for none
  reply    \* what the last call returned

avars == <<ready, content, reply>>

Reply(op, rc, value, size) ==
  [op |-> op, rc |-> rc, value |-> value, size |-> size]

Refuse(op, rc) ==
  reply' = Reply(op, rc, NULL, NULL) /\ UNCHANGED <<ready, content>>

Init ==
  /\ ready = FALSE
  /\ content = [k \in Keys |-> NULL]
  /\ reply = Reply("none", "OK", NULL, NULL)

-----------------------------------------------------------------------------
Configure ==
  \/ /\ ~ready
     /\ ready' = TRUE
     /\ reply' = Reply("configure", "OK", NULL, NULL)
     /\ UNCHANGED content
  \/ ~ready /\ \E rc \in {"CAPACITY", "INIT"} : Refuse("configure", rc)
  \/ ready /\ Refuse("configure", "INVALID")

(* The refusals every keyed call shares, in the order they are made.        *)
KeyRefusal(k) ==
  IF ~ready THEN "INIT"
  ELSE IF k = NULL THEN "INVALID"
  ELSE IF Len(k) > MaxKeySize THEN "SIZE" ELSE "OK"

Lookup(k, cap) ==
  \/ ready /\ cap = NULL /\ Refuse("lookup", "INVALID")
  \/ /\ ~ready \/ cap # NULL
     /\ KeyRefusal(k) # "OK"
     /\ Refuse("lookup", KeyRefusal(k))
  \/ /\ KeyRefusal(k) = "OK"
     /\ cap # NULL
     /\ reply' = IF content[k] = NULL THEN Reply("lookup", "NOT_FOUND", NULL, 0)
                 ELSE IF cap < Len(content[k])
                   THEN Reply("lookup", "SIZE", NULL, Len(content[k]))
                   ELSE Reply("lookup", "OK", content[k], Len(content[k]))
     /\ UNCHANGED <<ready, content>>

(* Key k holds v from now on; at most one other key is forgotten.           *)
Remember(k, v) ==
  /\ reply' = Reply("store", "OK", NULL, NULL)
  /\ \E lost \in {{}} \cup {{j} : j \in Keys \ {k}} :
       content' = [j \in Keys |-> IF j = k THEN v
                                  ELSE IF j \in lost THEN NULL ELSE content[j]]
  /\ UNCHANGED ready

Store(k, v) ==
  \/ KeyRefusal(k) # "OK" /\ Refuse("store", KeyRefusal(k))
  \/ KeyRefusal(k) = "OK" /\ Len(v) > MaxPayloadSize /\ Refuse("store", "SIZE")
  \/ KeyRefusal(k) = "OK" /\ Len(v) <= MaxPayloadSize /\ Remember(k, v)

Remove(k) ==
  \/ KeyRefusal(k) # "OK" /\ Refuse("remove", KeyRefusal(k))
  \/ KeyRefusal(k) = "OK" /\ content[k] = NULL /\ Refuse("remove", "NOT_FOUND")
  \/ /\ KeyRefusal(k) = "OK"
     /\ content[k] # NULL
     /\ reply' = Reply("remove", "OK", NULL, NULL)
     /\ content' = [content EXCEPT ![k] = NULL]
     /\ UNCHANGED ready

Clear ==
  \/ ~ready /\ Refuse("clear", "INIT")
  \/ /\ ready
     /\ reply' = Reply("clear", "OK", NULL, NULL)
     /\ content' = [k \in Keys |-> NULL]
     /\ UNCHANGED ready

(* Resetting the counters is invisible here, but for the reply.             *)
ResetStats == Refuse("reset_stats", "OK")

Next ==
  \/ Configure
  \/ \E k \in Keys \cup {NULL} :
       \/ \E cap \in Capacities \cup {NULL} : Lookup(k, cap)
       \/ \E v \in Values \cup {<< >>} : Store(k, v)
       \/ Remove(k)
  \/ Clear
  \/ ResetStats

Spec == Init /\ [][Next]_avars
=============================================================================
