-------------------------- MODULE MCArtifactCache --------------------------
(***************************************************************************)
(* A small artifact cache for TLC: two slots of three bytes, one-byte and  *)
(* two-byte keys.  The hash makes every interesting pair: k2 extends k1    *)
(* and has its full hash; k3 differs from k2 in its last byte only and     *)
(* shares its full hash; k4 shares the slot but not the hash; k5 lives in  *)
(* the other slot; k6 is too long.                                         *)
(***************************************************************************)
EXTENDS ArtifactCache

CONSTANT MaxCalls  \* bound: the calls made once the cache is configured

VARIABLE calls

MCByte == {0, 1}
k1 == <<0>>
k2 == <<0, 0>>
k3 == <<0, 1>>
k4 == <<1>>
k5 == <<1, 1>>
k6 == <<0, 1, 1>>
MCKeys == {k1, k2, k3, k4, k5, k6}
MCHash == [k \in MCKeys |-> IF k = k4 THEN 6 ELSE IF k = k5 THEN 5 ELSE 4]
MCValues == {<<0>>, <<1>>, <<1, 1>>}
MCZeroValues == {<<0>>}
MCUninitialized == {[i \in 1 .. 3 |-> 1]}

MCInit == Init /\ calls = 0

(* The caller stops calling.                                                *)
Stop == calls = MaxCalls /\ UNCHANGED <<vars, calls>>

MCNext ==
  \/ /\ calls < MaxCalls
     /\ Next
     /\ calls' = IF configured THEN calls + 1 ELSE 0
  \/ Stop

MCSpec == MCInit /\ [][MCNext]_<<vars, calls>>
=============================================================================
