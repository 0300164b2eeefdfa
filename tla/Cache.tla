------------------------------- MODULE Cache -------------------------------
(***************************************************************************)
(* What the cache promises its callers about one shard, without tables,    *)
(* locks or threads: a map from keys to values in which a call of vc_set    *)
(* may cost one key its entry, because a cache may evict.  A value is      *)
(* stored at most once: what was overwritten or deleted never comes back.  *)
(***************************************************************************)
EXTENDS Naturals

CONSTANTS Keys, MaxVal

Absent == 0

VARIABLES store, used

Init == store = [k \in Keys |-> Absent] /\ used = {}

\* The value is stored and at most one key loses its entry: the victim of the
\* eviction, or, when every slot is taken, the entry that found no room.
Set(k, v) ==
    /\ v \notin used
    /\ used' = used \cup {v}
    /\ \E lost \in SUBSET Keys :
         /\ \A x, y \in lost : x = y
         /\ store' = [x \in Keys |-> IF x \in lost THEN Absent
                                     ELSE IF x = k THEN v ELSE store[x]]

Del(k) == store' = [store EXCEPT ![k] = Absent] /\ UNCHANGED used

Flush == store' = [k \in Keys |-> Absent] /\ UNCHANGED used

Next == (\E k \in Keys : Del(k) \/ \E v \in 1 .. MaxVal : Set(k, v)) \/ Flush

Spec == Init /\ [][Next]_<<store, used>>
=============================================================================
