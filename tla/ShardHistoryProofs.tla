------------------------- MODULE ShardHistoryProofs -------------------------
(***************************************************************************)
(* What callers of a shard may rely on, for every number of threads, keys  *)
(* and slots: vc_get is linearizable, the shard implements the abstract    *)
(* cache, and s->count never falls below the number of live entries.       *)
(***************************************************************************)
EXTENDS ShardHistory, ShardProofs, FiniteSetTheorems

USE DEF lock, table, store, env, args, carry, loop, read, vars

-----------------------------------------------------------------------------
(* The inductive invariant.                                                *)

\* A vc_set that has not ended: its value is new, and not among those applied.
Pending(t) == op[t] = "set" /\ pc[t] \notin {"idle", "unlock"}

GivenInv ==
    /\ applied \subseteq 1 .. calls
    /\ \A t \in Threads :
         /\ Pending(t) => given[t].key = key[t] /\ given[t].val \in 1 .. calls \ applied
         /\ Pending(t) /\ pc[t] \in {"lock", "wbegin", "find", "evict"} => inc[t] = given[t]
    /\ \A t, u \in Threads : Pending(t) /\ Pending(u) /\ given[t].val = given[u].val => t = u

\* Between writers view is what lookups find.
ViewOK == view \in [Keys -> Nat] /\ (Quiet => \A k \in Keys : view[k] = Lookup(k))

\* A vc_get that has its answer has seen it; before, it has none.
SeenOK(t) ==
    op[t] = "get" => IF pc[t] \in {"idle", "gclk", "unlock"} THEN res[t] \in seen[t]
                     ELSE pc[t] # "ghit" => res[t] = NotFound

\* The entries that are in the table or on their way to a slot of it.
Moving(t) ==
    IF pc[t] \in {"insert", "place"} THEN {inc[t]}
    ELSE IF pc[t] = "swap" THEN {inc[t], ent[slot[t]]} ELSE {}
Present(t) == {ent[s] : s \in LiveSlots} \cup Moving(t)

\* What the writer's section leads to, up to entries lost.
Goal(t) ==
    IF op[t] = "set" /\ pc[t] \in {"insert", "place", "swap", "wend"}
    THEN [view EXCEPT ![key[t]] = given[t].val]
    ELSE IF pc[t] = "evict" \/ (op[t] = "del" /\ pc[t] = "wend")
         THEN [view EXCEPT ![key[t]] = NotFound]
         ELSE view

\* The keys whose entries the section has lost.
Gone(t) == {x \in Keys : Goal(t)[x] # NotFound /\ \A e \in Present(t) : e.key # x}

\* Every entry is the one it should be.  An eviction or a full table costs one
\* key its entry, not both: after an eviction there is room.  vc_flush is done
\* with the slots before its counter.
SectionOK(t) ==
    /\ \A e \in Present(t) : e.key \in Keys /\ e.val = Goal(t)[e.key]
    /\ op[t] # "flush" => \A x, y \in Gone(t) : x = y
    /\ pc[t] \in {"find", "evict"} \/ (op[t] = "del" /\ pc[t] = "wend") => Gone(t) = {}
    /\ pc[t] = "insert" /\ Gone(t) # {} => \E s \in Slots : state[s] # "LIVE"
    /\ pc[t] = "swap" /\ Gone(t) # {} => \E s \in Slots : s # slot[t] /\ state[s] # "LIVE"
    /\ pc[t] = "place" => state[slot[t]] = "BUSY"
    /\ pc[t] = "flush" => \A s \in LiveSlots : s >= it[t]
    /\ op[t] = "flush" /\ pc[t] = "wend" => LiveSlots = {}

Followed ==
    /\ Fresh /\ KeysUnique /\ ViewOK
    /\ \A t \in Threads : SeenOK(t)
    /\ \A t \in Threads : InWrite(t) => SectionOK(t)

HistInv == late \in BOOLEAN /\ GivenInv /\ (~late => Followed)

-----------------------------------------------------------------------------
(* Lookups.                                                                *)

Found == \A s \in LiveSlots : ent[s].key \in Keys /\ Lookup(ent[s].key) = ent[s].val
Unfound == \A k \in Keys : NewKey(k) => Lookup(k) = NotFound

\* While no entry has expired, a lookup finds a key exactly when it is in the
\* table, and then its value.
LEMMA LookupFacts == Base /\ LiveUnique /\ Fresh => Found /\ Unfound
<1> SUFFICES ASSUME Base, LiveUnique, Fresh PROVE Found /\ Unfound
  OBVIOUS
<1>1. ASSUME NEW s \in LiveSlots PROVE ent[s].key \in Keys /\ Lookup(ent[s].key) = ent[s].val
  <2> DEFINE k == ent[s].key
             c == CHOOSE r \in Slots : shard_find(k, r)
  <2>1. s \in Slots /\ k \in Keys /\ shard_find(k, s)
    BY FoundIfThere, Zenon
  <2>2. c \in Slots /\ shard_find(k, c)
    BY <2>1, Zenon
  <2>3. c = s
    BY <2>1, <2>2, FirstMatchUnique, Zenon DEF shard_find
  <2>4. Lookup(k) = ent[c].val
    BY <2>1, Zenon DEF Lookup
  <2>5. QED
    BY <2>1, <2>3, <2>4, Zenon
<1>2. ASSUME NEW k \in Keys, NewKey(k) PROVE Lookup(k) = NotFound
  <2>1. ~ \E r \in Slots : shard_find(k, r)
    BY <1>2, Zenon DEF NewKey, shard_find, FirstMatch, Holds, LiveSlots
  <2>2. QED
    BY <2>1, Zenon DEF Lookup
<1>3. QED
  BY <1>1, <1>2, Zenon DEF Found, Unfound

\* So lookups answer the same as long as the table does not change.
LEMMA LookupSame ==
    ASSUME Base, Base', LiveUnique, LiveUnique', Fresh, Fresh', UNCHANGED <<state, ent>>,
           NEW k \in Keys
    PROVE  Lookup(k)' = Lookup(k)
<1>1. Found /\ Unfound
  BY LookupFacts, Zenon
<1>2. (Base /\ LiveUnique /\ Fresh => Found /\ Unfound)'
  BY LookupFacts, PTL
<1>3. (Found /\ Unfound)'
  BY <1>2, Zenon
<1>4. LiveSlots' = LiveSlots
  BY Zenon DEF LiveSlots
<1>5. CASE NewKey(k)
  <2>1. NewKey(k)'
    BY <1>4, <1>5, Zenon DEF NewKey
  <2>2. QED
    BY <1>1, <1>3, <1>5, <2>1, Zenon DEF Unfound
<1>6. CASE ~NewKey(k)
  <2>1. PICK s \in LiveSlots : ent[s].key = k
    BY <1>6, Zenon DEF NewKey
  <2>2. Lookup(k) = ent[s].val
    BY <1>1, <2>1, Zenon DEF Found
  <2>3. Lookup(k)' = ent'[s].val
    BY <1>3, <1>4, <2>1, Zenon DEF Found
  <2>4. QED
    BY <2>2, <2>3, Zenon
<1>7. QED
  BY <1>5, <1>6, Zenon

-----------------------------------------------------------------------------
(* What vc_set was given.                                                  *)

\* The entry of a vc_set is still the one it was given.
Early(t) == pc[t] \in {"lock", "wbegin", "find", "evict"}

\* A pending vc_set is the same one after a step, or has just been called with
\* a value not used before.
LEMMA PendingKinds ==
    ASSUME TypeOK, CallInv, NEW t \in Threads, Step(t)
    PROVE  \/ /\ calls' = calls
              /\ Pending(t)' => Pending(t) /\ key'[t] = key[t]
              /\ Pending(t)' /\ Early(t)' => Early(t) /\ inc'[t] = inc[t]
           \/ /\ calls' = calls + 1 /\ pc[t] = "idle" /\ pc'[t] # "idle"
              /\ Pending(t)' => inc'[t].val = calls + 1 /\ inc'[t].key = key'[t]
<1> DEFINE P == \/ /\ calls' = calls
                   /\ Pending(t)' => Pending(t) /\ key'[t] = key[t]
                   /\ Pending(t)' /\ Early(t)' => Early(t) /\ inc'[t] = inc[t]
                \/ /\ calls' = calls + 1 /\ pc[t] = "idle" /\ pc'[t] # "idle"
                   /\ Pending(t)' => inc'[t].val = calls + 1 /\ inc'[t].key = key'[t]
<1> USE DEF TypeOK, Pending, Early, Goto
<1>1. ASSUME NEW k \in Keys, NEW ttl \in TTLs, NEW mem \in Tiers, vc_set(t, k, ttl, mem)
      PROVE  P
  BY <1>1, Zenon DEF vc_set, Call
<1>2. ASSUME NEW k \in Keys, vc_del(t, k)
      PROVE  P
  BY <1>2, Zenon DEF vc_del, Call
<1>3. ASSUME NEW k \in Keys, vc_get(t, k)
      PROVE  P
  BY <1>3, Zenon DEF vc_get, Call
<1>4. CASE vc_flush(t)
  BY <1>4, Zenon DEF vc_flush, Call
<1>5. CASE shard_lock(t)
  BY <1>5, Zenon DEF shard_lock
<1>6. CASE seq_write_begin(t)
  BY <1>6, Zenon DEF seq_write_begin
<1>7. CASE seq_write_end(t)
  BY <1>7, Zenon DEF seq_write_end
<1>8. CASE shard_unlock(t)
  BY <1>8, Zenon DEF shard_unlock, Return
<1>9. CASE remove_found(t)
  BY <1>9, ZenonT(30) DEF remove_found, AfterLookup, StartInsert
<1>10. CASE remove_notfound(t)
  BY <1>10, ZenonT(30) DEF remove_notfound, AfterLookup, StartInsert
<1>11. CASE evict_pass(t)
  BY <1>11, Zenon DEF evict_pass
<1>12. CASE evict_take(t)
  BY <1>12, Zenon DEF evict_take, StartInsert
<1>13. CASE evict_none(t)
  BY <1>13, Zenon DEF evict_none, StartInsert
<1>14. CASE insert_claim(t)
  BY <1>14, Zenon DEF insert_claim
<1>15. CASE insert_pass(t)
  BY <1>15, Zenon DEF insert_pass, Advance
<1>16. CASE insert_place(t)
  BY <1>16, Zenon DEF insert_place
<1>17. CASE insert_swap(t)
  BY <1>17, Zenon DEF insert_swap, Advance
<1>18. CASE insert_drop(t)
  BY <1>18, Zenon DEF insert_drop
<1>19. CASE flush_slot(t)
  BY <1>19, Zenon DEF flush_slot
<1>20. CASE flush_count(t)
  BY <1>20, Zenon DEF flush_count
<1>21. CASE seq_read_begin(t)
  BY <1>21, Zenon DEF seq_read_begin
<1>22. CASE find_load(t)
  BY <1>22, ZenonT(30) DEF find_load
<1>23. CASE find_compare(t)
  BY <1>23, Zenon DEF find_compare
<1>24. CASE find_expiry(t)
  BY <1>24, Zenon DEF find_expiry
<1>25. CASE get_snapshot(t)
  BY <1>25, Zenon DEF get_snapshot, CallInv, CallOK
<1>26. CASE validate_hit(t)
  BY <1>26, Zenon DEF validate_hit
<1>27. CASE validate_miss(t)
  BY <1>27, Zenon DEF validate_miss, Return
<1>28. CASE validate_fail(t)
  BY <1>28, Zenon DEF validate_fail, CallInv, CallOK
<1>29. CASE get_reference(t)
  BY <1>29, Zenon DEF get_reference, Return
<1>30. CASE locked_hit(t)
  BY <1>30, Zenon DEF locked_hit
<1>31. CASE locked_miss(t)
  BY <1>31, Zenon DEF locked_miss
<1>40. QED
  BY <1>1, <1>2, <1>3, <1>4, <1>5, <1>6, <1>7, <1>8, <1>9, <1>10, <1>11, <1>12, <1>13, <1>14, <1>15,
     <1>16, <1>17, <1>18, <1>19, <1>20, <1>21, <1>22, <1>23, <1>24, <1>25, <1>26, <1>27, <1>28, <1>29,
     <1>30, <1>31, ZenonT(30)
  DEF Step, Caller, Writer, Reader

\* Every step keeps GivenInv: a value becomes applied when its vc_set leaves its
\* section, and is then no longer pending.
LEMMA GivenStep ==
    ASSUME Base, GivenInv, NEW t \in Threads, Step(t), Observe
    PROVE  GivenInv'
<1> DEFINE Same(u) == /\ Pending(u) /\ given'[u] = given[u] /\ key'[u] = key[u]
                      /\ Early(u)' => Early(u) /\ inc'[u] = inc[u]
           New(u)  == /\ u = t /\ calls' = calls + 1
                      /\ given'[u] = inc'[u] /\ inc'[u].val = calls + 1 /\ inc'[u].key = key'[u]
<1> USE DEF Base
<1>1. calls \in Nat /\ (calls' = calls \/ calls' = calls + 1)
  BY PendingKinds, Zenon DEF TypeOK
<1>2. 1 .. calls \subseteq 1 .. calls' /\ calls + 1 \notin 1 .. calls
      /\ (calls' = calls + 1 => calls + 1 \in 1 .. calls')
  BY <1>1
<1>3. ASSUME NEW u \in Threads, Pending(u)' PROVE Same(u) \/ New(u)
  <2>1. given'[u] = IF pc'[u] = "idle" THEN Blank ELSE IF pc[u] = "idle" THEN inc'[u] ELSE given[u]
    BY Zenon DEF Observe
  <2>2. pc'[u] # "idle" /\ (Pending(u) => pc[u] # "idle")
    BY <1>3, Zenon DEF Pending
  <2>3. CASE u = t
    BY <1>3, <2>1, <2>2, <2>3, PendingKinds, Zenon
  <2>4. CASE u # t
    <3>1. pc'[u] = pc[u] /\ op'[u] = op[u] /\ key'[u] = key[u] /\ inc'[u] = inc[u]
      BY <2>4, OthersUnchanged, Zenon
    <3>2. QED
      BY <1>3, <2>1, <2>2, <3>1, Zenon DEF Pending, Early
  <2>5. QED
    BY <2>3, <2>4, Zenon
<1>4. ASSUME NEW v \in applied', v \notin applied
      PROVE  \E u \in Threads : Pending(u) /\ ~Pending(u)' /\ v = given[u].val
  <2> DEFINE Ending == {u \in Threads : op[u] = "set" /\ pc[u] = "wend" /\ pc'[u] = "unlock"}
  <2>1. v \in {given[u].val : u \in Ending}
    BY <1>4, Zenon DEF Observe, Follow
  <2>2. PICK u \in Ending : v = given[u].val
    BY <2>1, Zenon
  <2>3. Pending(u) /\ ~Pending(u)'
    BY <2>2, Zenon DEF Pending
  <2>4. QED
    BY <2>2, <2>3, Zenon
<1>5. \A v \in applied' : v \in 1 .. calls'
  <2>1. \A u \in Threads : Pending(u) => given[u].val \in 1 .. calls
    BY Zenon DEF GivenInv
  <2>2. \A v \in applied : v \in 1 .. calls
    BY Zenon DEF GivenInv
  <2>3. QED
    BY <1>2, <1>4, <2>1, <2>2, Zenon
<1>6. ASSUME NEW u \in Threads, Pending(u)'
      PROVE  /\ given'[u].key = key'[u] /\ given'[u].val \in 1 .. calls' /\ given'[u].val \notin applied'
             /\ Early(u)' => inc'[u] = given'[u]
  <2>1. CASE Same(u)
    <3>1. /\ given[u].key = key[u] /\ given[u].val \in 1 .. calls /\ given[u].val \notin applied
          /\ Early(u) => inc[u] = given[u]
      BY <2>1, Zenon DEF GivenInv, Early
    <3>2. given[u].val \notin applied'
      <4>1. \A w \in Threads : Pending(w) /\ given[u].val = given[w].val => u = w
        BY <2>1, Zenon DEF GivenInv
      <4>2. QED
        BY <1>4, <1>6, <3>1, <4>1, Zenon
    <3>3. QED
      BY <1>2, <2>1, <3>1, <3>2, Zenon
  <2>2. CASE New(u)
    <3>1. \A w \in Threads : Pending(w) => given[w].val \in 1 .. calls
      BY Zenon DEF GivenInv
    <3>2. \A v \in applied : v \in 1 .. calls
      BY Zenon DEF GivenInv
    <3>3. calls + 1 \notin applied'
      BY <1>2, <1>4, <3>1, <3>2, Zenon
    <3>4. QED
      BY <1>2, <2>2, <3>3, Zenon
  <2>3. QED
    BY <1>3, <1>6, <2>1, <2>2, Zenon
<1>7. ASSUME NEW u \in Threads, NEW w \in Threads, Pending(u)', Pending(w)', given'[u].val = given'[w].val
      PROVE  u = w
  <2>1. \A x \in Threads : Pending(x) => given[x].val \in 1 .. calls
    BY Zenon DEF GivenInv
  <2>2. \A x, y \in Threads : Pending(x) /\ Pending(y) /\ given[x].val = given[y].val => x = y
    BY Zenon DEF GivenInv
  <2>3. (Same(u) \/ New(u)) /\ (Same(w) \/ New(w))
    BY <1>3, <1>7, Zenon
  <2>4. QED
    BY <1>2, <1>7, <2>1, <2>2, <2>3, ZenonT(30)
<1>8. QED
  BY <1>5, <1>6, <1>7, ZenonT(30) DEF GivenInv, Early

-----------------------------------------------------------------------------
(* The view, and what vc_get has seen of it.                               *)

\* Between writers the table does not change.
LEMMA QuietTable ==
    ASSUME Base, NEW t \in Threads, Step(t), Quiet \/ Quiet'
    PROVE  UNCHANGED <<state, ent>>
<1> USE DEF Base
<1>1. CASE QuietStep(t)
  BY <1>1, Zenon DEF QuietStep
<1>2. CASE seq_write_end(t)
  BY <1>2, Zenon DEF seq_write_end
<1>3. CASE InWrite(t) /\ WriteStep(t) /\ ~seq_write_end(t)
  <2>1. seq' = seq
    BY <1>3, Zenon DEF WriteStep, remove_found, remove_notfound, evict_pass, evict_take, evict_none,
       insert_claim, insert_pass, insert_place, insert_swap, insert_drop, flush_slot, flush_count,
       AfterLookup
  <2>2. ~Quiet
    BY <1>3, Zenon DEF WriterExclusion
  <2>3. QED
    BY <2>1, <2>2, Zenon DEF Quiet
<1>4. QED
  BY <1>1, <1>2, <1>3, StepKinds, Zenon

\* view follows the table from one quiet state to the next and rests in between.
LEMMA ViewStep ==
    ASSUME Base, Base', LiveUnique, LiveUnique', Fresh, Fresh', ViewOK, Follow,
           Quiet => UNCHANGED <<state, ent>>
    PROVE  ViewOK' /\ (Quiet \/ ~Quiet' => view' = view)
<1>1. CASE ~Quiet'
  BY <1>1, Zenon DEF Follow, ViewOK
<1>2. CASE Quiet'
  <2>1. view' = [k \in Keys |-> Lookup(k)']
    BY <1>2, Zenon DEF Follow
  <2>2. (Base /\ LiveUnique /\ Fresh => Found /\ Unfound)'
    BY LookupFacts, PTL
  <2>3. ASSUME NEW k \in Keys PROVE Lookup(k)' \in Nat
    <3>1. CASE NewKey(k)'
      <4>1. Lookup(k)' = NotFound
        BY <2>2, <3>1, Zenon DEF Unfound
      <4>2. QED
        BY <4>1 DEF NotFound
    <3>2. CASE ~NewKey(k)'
      <4>1. PICK s \in LiveSlots' : ent'[s].key = k
        BY <3>2, Zenon DEF NewKey
      <4>2. Lookup(k)' = ent'[s].val
        BY <2>2, <4>1, Zenon DEF Found
      <4>3. s \in Slots /\ ent'[s] \in Entries
        BY Zenon DEF LiveSlots, Base, TypeOK
      <4>4. QED
        BY <4>2, <4>3, EntryFacts, Zenon
    <3>3. QED
      BY <3>1, <3>2, Zenon
  <2>4. ViewOK'
    BY <2>1, <2>3, Zenon DEF ViewOK
  <2>5. ASSUME Quiet PROVE view' = view
    <3>1. \A k \in Keys : view[k] = Lookup(k) /\ Lookup(k)' = Lookup(k)
      BY <2>5, LookupSame, Zenon DEF ViewOK
    <3>2. view = [k \in Keys |-> view[k]]
      BY Zenon DEF ViewOK
    <3>3. QED
      BY <2>1, <3>1, <3>2
  <2>6. QED
    BY <1>2, <2>4, <2>5, Zenon
<1>3. QED
  BY <1>1, <1>2, Zenon

\* A step of vc_get keeps SeenOK: an answer is accepted only when it is what a
\* lookup finds at that moment.
LEMMA SeenStep ==
    ASSUME Base, Base', LiveUnique, Fresh, ViewOK, ReadInv, NEW t \in Threads, Step(t), Follow,
           Quiet => view' = view, SeenOK(t)
    PROVE  SeenOK(t)'
<1> USE DEF Base
<1>1. ASSUME op'[t] # "get" PROVE SeenOK(t)'
  BY <1>1, Zenon DEF SeenOK
<1>2. ASSUME pc'[t] \notin {"idle", "gclk", "unlock"}, pc'[t] = "ghit" \/ res'[t] = NotFound
      PROVE  SeenOK(t)'
  BY <1>2, Zenon DEF SeenOK
<1>3. ASSUME pc'[t] \in {"idle", "gclk", "unlock"}, pc[t] # "idle", op[t] = "get",
             res'[t] \in seen[t] \cup {view'[key[t]]}
      PROVE  SeenOK(t)'
  <2>1. seen'[t] = seen[t] \cup {view'[key[t]]}
    BY <1>3, Zenon DEF Follow
  <2>2. QED
    BY <1>3, <2>1, Zenon DEF SeenOK
<1>4. Found /\ Unfound
  BY LookupFacts, Zenon
<1>5. ASSUME NEW s \in Slots, shard_find(key[t], s), Quiet, key[t] \in Keys
      PROVE  view'[key[t]] = ent[s].val
  <2>1. s \in LiveSlots /\ ent[s].key = key[t]
    BY <1>5, Zenon DEF shard_find, FirstMatch, Holds, LiveSlots
  <2>2. QED
    BY <1>4, <1>5, <2>1, Zenon DEF Found, ViewOK
<1>6. ASSUME Missing(key[t]), Quiet, key[t] \in Keys
      PROVE  view'[key[t]] = NotFound
  <2>1. Lookup(key[t]) = NotFound
    BY <1>6, Zenon DEF Missing, Lookup
  <2>2. QED
    BY <1>6, <2>1, Zenon DEF ViewOK
<1> USE DEF Goto
<1>11. ASSUME NEW k \in Keys, NEW ttl \in TTLs, NEW mem \in Tiers, vc_set(t, k, ttl, mem)
       PROVE  SeenOK(t)'
  BY <1>11, <1>1, Zenon DEF vc_set, Call, TypeOK
<1>12. ASSUME NEW k \in Keys, vc_del(t, k)
       PROVE  SeenOK(t)'
  BY <1>12, <1>1, Zenon DEF vc_del, Call, TypeOK
<1>13. ASSUME NEW k \in Keys, vc_get(t, k)
       PROVE  SeenOK(t)'
  BY <1>13, <1>2, Zenon DEF vc_get, Call, TypeOK
<1>14. CASE vc_flush(t)
  BY <1>14, <1>1, Zenon DEF vc_flush, Call, TypeOK
<1>15. CASE shard_lock(t)
  BY <1>15, <1>2, <1>1, ZenonT(30) DEF shard_lock, TypeOK, SeenOK
<1>16. CASE seq_write_begin(t)
  BY <1>16, <1>1, Zenon DEF seq_write_begin, CallInv, CallOK
<1>17. CASE shard_unlock(t)
  BY <1>17, <1>1, <1>3, Zenon DEF shard_unlock, Return, TypeOK, SeenOK
<1>18. CASE WriteStep(t)
  <2>1. pc[t] \in {"find", "evict", "insert", "place", "swap", "flush", "wend"} /\ op' = op
    BY <1>18, ZenonT(30) DEF WriteStep, seq_write_end, remove_found, remove_notfound, evict_pass, evict_take,
       evict_none, insert_claim, insert_pass, insert_place, insert_swap, insert_drop, flush_slot,
       flush_count, AfterLookup
  <2>2. op[t] # "get"
    BY <2>1, Zenon DEF CallInv, CallOK
  <2>3. QED
    BY <1>1, <2>1, <2>2, Zenon
<1>21. CASE seq_read_begin(t)
  BY <1>21, <1>2, ZenonT(30) DEF seq_read_begin, TypeOK, SeenOK, CallInv, CallOK
<1>22. CASE find_load(t)
  BY <1>22, <1>2, ZenonT(30) DEF find_load, TypeOK, SeenOK, CallInv, CallOK
<1>23. CASE find_compare(t)
  BY <1>23, <1>2, ZenonT(30) DEF find_compare, TypeOK, SeenOK, CallInv, CallOK
<1>24. CASE find_expiry(t)
  BY <1>24, <1>2, ZenonT(30) DEF find_expiry, TypeOK, SeenOK, CallInv, CallOK
<1>25. CASE get_snapshot(t)
  BY <1>25, <1>2, ZenonT(30) DEF get_snapshot, TypeOK, SeenOK, CallInv, CallOK
<1>26. CASE validate_hit(t)
  <2>1. /\ pc[t] = "ghit" /\ pc'[t] = "gclk" /\ sq[t] = seq /\ res'[t] = res[t]
        /\ op[t] = "get" /\ key[t] \in Keys /\ slot[t] \in Slots
    BY <1>26, ZenonT(30) DEF validate_hit, TypeOK, CallInv, CallOK
  <2>2. Quiet /\ FirstMatch(key[t], slot[t]) /\ res[t] = ent[slot[t]].val
    BY <2>1, Zenon DEF ReadInv, ReadOK, Scanning, ScanOK, Quiet
  <2>3. shard_find(key[t], slot[t])
    BY <2>1, <2>2, Zenon DEF shard_find, FirstMatch, Holds, Fresh, LiveSlots
  <2>4. QED
    BY <1>3, <1>5, <2>1, <2>2, <2>3, Zenon
<1>27. CASE validate_miss(t)
  <2>1. /\ pc[t] = "gmiss" /\ pc'[t] = "idle" /\ sq[t] = seq /\ res'[t] = res[t]
        /\ op[t] = "get" /\ key[t] \in Keys
    BY <1>27, Zenon DEF validate_miss, Return, TypeOK, CallInv, CallOK
  <2>2. Quiet /\ Missing(key[t]) /\ res[t] = NotFound
    BY <2>1, Zenon DEF ReadInv, ReadOK, Scanning, ScanOK, Quiet, SeenOK
  <2>3. QED
    BY <1>3, <1>6, <2>1, <2>2, ZenonT(30)
<1>28. CASE validate_fail(t)
  BY <1>28, <1>2, ZenonT(30) DEF validate_fail, TypeOK
<1>29. CASE get_reference(t)
  BY <1>29, <1>3, ZenonT(30) DEF get_reference, Return, TypeOK, SeenOK, CallInv, CallOK
<1>30. pc[t] = "lfind" => Quiet /\ op[t] = "get" /\ key[t] \in Keys /\ res[t] = NotFound
  <2>1. pc[t] = "lfind" => HasLock(t) /\ ~InWrite(t)
    BY Zenon DEF HasLock, InWrite
  <2>2. pc[t] = "lfind" => Quiet
    BY <2>1, ZenonT(30) DEF WriterExclusion, HasLock
  <2>3. QED
    BY <2>2, Zenon DEF CallInv, CallOK, SeenOK
<1>31. CASE locked_hit(t)
  <2>1. pc[t] = "lfind" /\ pc'[t] = "unlock"
    BY <1>31, Zenon DEF locked_hit, TypeOK
  <2>2. PICK s \in Slots : shard_find(key[t], s) /\ res'[t] = ent[s].val
    BY <1>31, ZenonT(30) DEF locked_hit, TypeOK
  <2>3. QED
    BY <1>3, <1>5, <1>30, <2>1, <2>2, Zenon
<1>32. CASE locked_miss(t)
  <2>1. pc[t] = "lfind" /\ pc'[t] = "unlock" /\ res'[t] = res[t] /\ Missing(key[t])
    BY <1>32, Zenon DEF locked_miss, TypeOK, Missing
  <2>2. QED
    BY <1>3, <1>6, <1>30, <2>1, Zenon
<1>40. QED
  BY <1>11, <1>12, <1>13, <1>14, <1>15, <1>16, <1>17, <1>18, <1>21, <1>22, <1>23, <1>24, <1>25, <1>26,
     <1>27, <1>28, <1>29, <1>31, <1>32, ZenonT(30)
  DEF Step, Caller, Writer, Reader, WriteStep

-----------------------------------------------------------------------------
(* The writer's section.                                                   *)

\* What SectionOK(u) speaks of stays the same.
Undisturbed(u) ==
    /\ UNCHANGED <<state, ent, view>>
    /\ pc'[u] = pc[u] /\ op'[u] = op[u] /\ key'[u] = key[u] /\ inc'[u] = inc[u]
    /\ slot'[u] = slot[u] /\ it'[u] = it[u] /\ given'[u] = given[u]

\* Then so does SectionOK(u).
LEMMA SectionFrame ==
    ASSUME NEW u \in Threads, SectionOK(u), Undisturbed(u)
    PROVE  SectionOK(u)'
<1>1. LiveSlots' = LiveSlots
  BY Zenon DEF Undisturbed, LiveSlots
<1>2. Present(u)' = Present(u) /\ Goal(u)' = Goal(u)
  BY <1>1, Zenon DEF Undisturbed, Present, Moving, Goal
<1>3. Gone(u)' = Gone(u)
  BY <1>2, Zenon DEF Gone
<1>4. QED
  BY <1>1, <1>2, <1>3, ZenonT(30) DEF SectionOK, Undisturbed

\* seq_write_begin starts a section from what lookups find.
LEMMA SectionBegins ==
    ASSUME Base, LiveUnique, Fresh, ViewOK, NEW t \in Threads, seq_write_begin(t), view' = view
    PROVE  SectionOK(t)'
<1> USE DEF Base
<1>1. Found /\ Unfound
  BY LookupFacts, Zenon
<1>2. Quiet
  <2>1. HasLock(t) /\ ~InWrite(t)
    BY Zenon DEF seq_write_begin, HasLock, InWrite
  <2>2. QED
    BY <2>1, ZenonT(30) DEF WriterExclusion, HasLock
<1>3. /\ pc'[t] = IF op[t] = "flush" THEN "flush" ELSE "find"
      /\ op'[t] = op[t] /\ it'[t] = it[t] /\ ent' = ent /\ LiveSlots' = LiveSlots
  BY Zenon DEF seq_write_begin, Goto, TypeOK, LiveSlots
<1>4. Goal(t)' = view
  BY <1>3, Zenon DEF Goal
<1>5. Present(t)' = {ent[s] : s \in LiveSlots}
  BY <1>3, Zenon DEF Present, Moving
<1>6. ASSUME NEW e \in Present(t)' PROVE e.key \in Keys /\ e.val = view[e.key]
  <2>1. PICK s \in LiveSlots : e = ent[s]
    BY <1>5, <1>6, Zenon
  <2>2. QED
    BY <1>1, <1>2, <2>1, Zenon DEF Found, ViewOK
<1>7. ASSUME NEW x \in Keys, view[x] # NotFound PROVE \E e \in Present(t)' : e.key = x
  <2>1. ~NewKey(x)
    BY <1>1, <1>2, <1>7, Zenon DEF Unfound, ViewOK
  <2>2. QED
    BY <1>5, <2>1, Zenon DEF NewKey
<1>8. Gone(t)' = {}
  BY <1>4, <1>7, Zenon DEF Gone
<1>9. pc'[t] = "flush" => it'[t] = 0 /\ \A s \in LiveSlots' : s >= it'[t]
  <2>1. pc'[t] = "flush" => it'[t] = 0
    BY <1>3, Zenon DEF seq_write_begin, CallInv, CallOK
  <2>2. QED
    BY <2>1 DEF LiveSlots, Slots
<1>10. QED
  BY <1>3, <1>4, <1>6, <1>8, <1>9, Zenon DEF SectionOK

\* The table holds only what view says, and not the key of the call.
Kept(t) ==
    \A s \in LiveSlots : /\ ent[s].key \in Keys /\ ent[s].key # key[t]
                         /\ ent[s].val = view[ent[s].key]

\* The other keys of view that it does not hold.
Dropped(t) == {x \in Keys : x # key[t] /\ view[x] # NotFound /\ NewKey(x)}

\* What follows the removal of the old entry or an eviction.
LEMMA SectionGoesOn ==
    ASSUME Base, ViewOK', GivenInv, NEW t \in Threads, key[t] \in Keys, pc[t] \in {"find", "evict"},
           view' = view, key'[t] = key[t], op'[t] = op[t], inc'[t] = inc[t], given'[t] = given[t],
           Kept(t)', \A x, y \in Dropped(t)' : x = y,
           Dropped(t)' # {} => \E s \in Slots : state'[s] # "LIVE",
           \/ op[t] = "del" /\ pc'[t] = "wend" /\ Dropped(t)' = {}
           \/ op[t] = "set" /\ pc'[t] = "evict" /\ Dropped(t)' = {}
           \/ op[t] = "set" /\ pc'[t] = "insert"
    PROVE  SectionOK(t)'
<1> DEFINE k == key[t]
<1>1. \A x \in Keys : \/ x = k \/ x \in Dropped(t)' \/ view[x] = NotFound
                      \/ \E s \in LiveSlots' : ent'[s].key = x
  BY Zenon DEF Dropped, NewKey
<1>2. \A s \in LiveSlots' : ent'[s].key \in Keys /\ ent'[s].key # k /\ ent'[s].val = view[ent'[s].key]
  BY Zenon DEF Kept
<1>3. CASE pc'[t] # "insert"
  <2>1. Goal(t)' = [view EXCEPT ![k] = NotFound]
    BY <1>3, Zenon DEF Goal
  <2>2. Goal(t)'[k] = NotFound /\ \A x \in Keys : x # k => Goal(t)'[x] = view[x]
    BY <2>1, Zenon DEF ViewOK
  <2>3. Present(t)' = {ent'[s] : s \in LiveSlots'}
    BY <1>3, Zenon DEF Present, Moving
  <2>4. ASSUME NEW e \in Present(t)' PROVE e.key \in Keys /\ e.val = Goal(t)'[e.key]
    <3>1. PICK s \in LiveSlots' : e = ent'[s]
      BY <2>3, <2>4, Zenon
    <3>2. e.key \in Keys /\ e.key # k /\ e.val = view[e.key]
      BY <1>2, <3>1, Zenon
    <3>3. QED
      BY <2>2, <3>2, Zenon
  <2>5. ASSUME NEW x \in Keys, Goal(t)'[x] # NotFound PROVE \E e \in Present(t)' : e.key = x
    BY <1>1, <1>3, <2>2, <2>3, <2>5, ZenonT(30)
  <2>6. Gone(t)' = {}
    BY <2>5, Zenon DEF Gone
  <2>7. QED
    BY <1>3, <2>4, <2>6, Zenon DEF SectionOK
<1>4. CASE pc'[t] = "insert"
  <2>1. Goal(t)' = [view EXCEPT ![k] = given[t].val] /\ op[t] = "set"
    BY <1>4, Zenon DEF Goal
  <2>2. Goal(t)'[k] = given[t].val /\ \A x \in Keys : x # k => Goal(t)'[x] = view[x]
    BY <2>1, Zenon DEF ViewOK
  <2>3. Present(t)' = {ent'[s] : s \in LiveSlots'} \cup {given[t]} /\ given[t].key = k
    <3>1. inc[t] = given[t] /\ given[t].key = k
      BY <2>1, Zenon DEF GivenInv, Pending
    <3>2. QED
      BY <1>4, <3>1, Zenon DEF Present, Moving
  <2>4. ASSUME NEW e \in Present(t)' PROVE e.key \in Keys /\ e.val = Goal(t)'[e.key]
    <3>1. CASE e = given[t]
      BY <2>2, <2>3, <3>1, Zenon
    <3>2. CASE \E s \in LiveSlots' : e = ent'[s]
      <4>1. e.key \in Keys /\ e.key # k /\ e.val = view[e.key]
        BY <1>2, <3>2, Zenon
      <4>2. QED
        BY <2>2, <4>1, Zenon
    <3>3. QED
      BY <2>3, <2>4, <3>1, <3>2, Zenon
  <2>5. ASSUME NEW x \in Keys, Goal(t)'[x] # NotFound, x \notin Dropped(t)' PROVE \E e \in Present(t)' : e.key = x
    <3>1. CASE x = k
      BY <2>3, <3>1, Zenon
    <3>2. CASE x # k
      BY <1>1, <2>2, <2>3, <2>5, <3>2, ZenonT(30)
    <3>3. QED
      BY <3>1, <3>2, Zenon
  <2>6. \A x \in Gone(t)' : x \in Dropped(t)'
    BY <2>5, Zenon DEF Gone
  <2>7. QED
    BY <1>4, <2>1, <2>4, <2>6, Zenon DEF SectionOK
<1>5. QED
  BY <1>3, <1>4, Zenon

\* The steps up to the insertion.
LEMMA SectionLookup ==
    ASSUME Base, KeysUnique, Fresh, ViewOK, ViewOK', GivenInv, NEW t \in Threads,
           remove_found(t) \/ remove_notfound(t) \/ evict_take(t) \/ evict_none(t),
           SectionOK(t), view' = view, given'[t] = given[t]
    PROVE  SectionOK(t)'
<1> DEFINE k == key[t]
<1> USE DEF Base
<1>1. LiveUnique /\ CarryUnique(t) /\ k \in Keys
  BY Zenon DEF KeysUnique, remove_found, remove_notfound, evict_take, evict_none, CallInv, CallOK
<1>2. key'[t] = k /\ op'[t] = op[t] /\ inc'[t] = inc[t] /\ ent' = ent
  BY Zenon DEF remove_found, remove_notfound, evict_take, evict_none, AfterLookup, Bury
<1>3. pc[t] \in {"find", "evict"} => /\ Present(t) = {ent[s] : s \in LiveSlots} /\ Gone(t) = {}
  BY Zenon DEF SectionOK, Present, Moving
<1>4. ASSUME pc[t] = "find"
      PROVE  /\ \A s \in LiveSlots : ent[s].key \in Keys /\ ent[s].val = view[ent[s].key]
             /\ \A x \in Keys : view[x] = NotFound \/ \E s \in LiveSlots : ent[s].key = x
  <2>1. Goal(t) = view
    BY <1>4, Zenon DEF Goal
  <2>2. \A e \in Present(t) : e.key \in Keys /\ e.val = view[e.key]
    BY <2>1, Zenon DEF SectionOK
  <2>3. \A x \in Keys : view[x] = NotFound \/ \E e \in Present(t) : e.key = x
    BY <1>3, <1>4, <2>1, Zenon DEF Gone
  <2>4. Present(t) = {ent[s] : s \in LiveSlots}
    BY <1>3, <1>4, Zenon
  <2>5. \A s \in LiveSlots : ent[s] \in Present(t)
    BY <2>4, Zenon
  <2>6. ASSUME NEW x \in Keys, view[x] # NotFound PROVE \E s \in LiveSlots : ent[s].key = x
    BY <2>3, <2>4, <2>6, Zenon
  <2>7. QED
    BY <2>2, <2>5, <2>6, Zenon
<1>5. ASSUME pc[t] = "evict"
      PROVE  Kept(t) /\ Dropped(t) = {}
  <2>1. Goal(t) = [view EXCEPT ![k] = NotFound]
    BY <1>5, Zenon DEF Goal
  <2>2. \A x \in Keys : x # k => Goal(t)[x] = view[x]
    BY <2>1, Zenon DEF ViewOK
  <2>3. inc[t].key = k
    BY <1>5, Zenon DEF CallInv, CallOK
  <2>4. \A s \in LiveSlots : ent[s].key # k
    BY <1>1, <1>5, <2>3, Zenon DEF CarryUnique, NewKey
  <2>5. ASSUME NEW s \in LiveSlots PROVE ent[s].key \in Keys /\ ent[s].val = view[ent[s].key]
    <3>1. ent[s] \in Present(t)
      BY <1>3, <1>5, Zenon
    <3>2. ent[s].key \in Keys /\ ent[s].val = Goal(t)[ent[s].key]
      BY <3>1, Zenon DEF SectionOK
    <3>3. QED
      BY <2>2, <2>4, <3>2, Zenon
  <2>6. ASSUME NEW x \in Keys, x # k, view[x] # NotFound PROVE \E s \in LiveSlots : ent[s].key = x
    <3>1. Goal(t)[x] # NotFound
      BY <2>2, <2>6, Zenon
    <3>2. \E e \in Present(t) : e.key = x
      BY <1>3, <1>5, <3>1, Zenon DEF Gone
    <3>3. QED
      BY <1>3, <1>5, <3>2, ZenonT(30)
  <2>7. QED
    BY <2>4, <2>5, <2>6, Zenon DEF Kept, Dropped, NewKey
<1>6. ASSUME AfterLookup(t, count - 1) \/ AfterLookup(t, count)
      PROVE  \/ op[t] = "del" /\ pc'[t] = "wend"
             \/ op[t] = "set" /\ pc'[t] = "evict"
             \/ op[t] = "set" /\ pc'[t] = "insert"
  BY <1>6, Zenon DEF AfterLookup, StartInsert, Goto, TypeOK
<1>7. CASE remove_found(t)
  <2>1. PICK s \in Slots : shard_find(k, s) /\ Bury(s)
    BY <1>7, Zenon DEF remove_found
  <2>2. s \in LiveSlots /\ ent[s].key = k /\ LiveSlots' = LiveSlots \ {s}
    BY <2>1 DEF shard_find, FirstMatch, Holds, Bury, LiveSlots, TypeOK
  <2>3. \A r \in LiveSlots' : ent[r].key # k
    BY <1>1, <2>2, Zenon DEF LiveUnique
  <2>4. pc[t] = "find"
    BY <1>7, Zenon DEF remove_found
  <2>5. Kept(t)'
    BY <1>2, <1>4, <2>2, <2>3, <2>4, ZenonT(30) DEF Kept
  <2>6. Dropped(t)' = {}
    BY <1>2, <1>4, <2>2, <2>4, ZenonT(30) DEF Dropped, NewKey
  <2>7. QED
    BY <1>1, <1>2, <1>6, <1>7, <2>4, <2>5, <2>6, SectionGoesOn, Zenon DEF remove_found
<1>8. CASE remove_notfound(t)
  <2>1. LiveSlots' = LiveSlots /\ pc[t] = "find"
    BY <1>8, Zenon DEF remove_notfound, LiveSlots
  <2>2. \A r \in LiveSlots : ent[r].key # k
    BY <1>1, <1>8, FoundIfThere, Zenon DEF remove_notfound
  <2>3. Kept(t)'
    BY <1>2, <1>4, <2>1, <2>2, ZenonT(30) DEF Kept
  <2>4. Dropped(t)' = {}
    BY <1>2, <1>4, <2>1, Zenon DEF Dropped, NewKey
  <2>5. QED
    BY <1>1, <1>2, <1>6, <1>8, <2>1, <2>3, <2>4, SectionGoesOn, ZenonT(30) DEF remove_notfound
<1>9. CASE evict_take(t)
  <2> DEFINE h == NextSlot(slot[t])
  <2>1. h \in Slots /\ pc[t] = "evict" /\ op[t] = "set" /\ pc'[t] = "insert" /\ Bury(h)
    BY <1>9, SlotArithmetic, ZenonT(30) DEF evict_take, StartInsert, Goto, TypeOK, CallInv, CallOK
  <2>2. LiveSlots' = LiveSlots \ {h} /\ state'[h] # "LIVE"
    BY <2>1 DEF Bury, LiveSlots, TypeOK
  <2>3. Kept(t)'
    BY <1>2, <1>5, <2>1, <2>2, ZenonT(30) DEF Kept
  <2>4. ASSUME NEW x \in Dropped(t)' PROVE x = ent[h].key
    <3>1. x \in Keys /\ x # k /\ view[x] # NotFound /\ \A s \in LiveSlots' : ent[s].key # x
      BY <1>2, Zenon DEF Dropped, NewKey
    <3>2. PICK s \in LiveSlots : ent[s].key = x
      BY <1>5, <2>1, <3>1, Zenon DEF Dropped, NewKey
    <3>3. QED
      BY <2>2, <3>1, <3>2, Zenon
  <2>5. QED
    BY <1>1, <1>2, <2>1, <2>2, <2>3, <2>4, SectionGoesOn, ZenonT(30)
<1>10. CASE evict_none(t)
  <2>1. pc[t] = "evict" /\ op[t] = "set" /\ pc'[t] = "insert" /\ LiveSlots' = LiveSlots
    BY <1>10, Zenon DEF evict_none, StartInsert, Goto, TypeOK, CallInv, CallOK, LiveSlots
  <2>2. Kept(t)'
    BY <1>2, <1>5, <2>1, Zenon DEF Kept
  <2>3. Dropped(t)' = {}
    BY <1>2, <1>5, <2>1, Zenon DEF Dropped, NewKey
  <2>4. QED
    BY <1>1, <1>2, <2>1, <2>2, <2>3, SectionGoesOn, ZenonT(30)
<1>11. QED
  BY <1>7, <1>8, <1>9, <1>10, Zenon

\* The insertion moves entries about and, when the loop runs out of slots,
\* loses the one it carries: the table is full then, so no eviction came before.
LEMMA SectionInsert ==
    ASSUME Base, DropInv, NEW t \in Threads,
           insert_claim(t) \/ insert_pass(t) \/ insert_place(t) \/ insert_swap(t) \/ insert_drop(t),
           SectionOK(t), view' = view, given'[t] = given[t]
    PROVE  SectionOK(t)'
<1> USE DEF Base
<1> DEFINE s == slot[t]
           InSlots == {ent[r] : r \in LiveSlots}
<1>1. s \in Slots /\ op[t] = "set" /\ LiveSlots \subseteq Slots
  BY Zenon DEF insert_claim, insert_pass, insert_place, insert_swap, insert_drop, TypeOK, CallInv, CallOK,
     LiveSlots
<1>2. key'[t] = key[t] /\ op'[t] = op[t]
  BY Zenon DEF insert_claim, insert_pass, insert_place, insert_swap, insert_drop
<1>3. pc[t] \in {"insert", "place", "swap"} /\ pc'[t] \in {"insert", "place", "swap", "wend"}
  BY Zenon DEF insert_claim, insert_pass, insert_place, insert_swap, insert_drop, Goto, TypeOK
<1>4. Goal(t)' = Goal(t)
  BY <1>1, <1>2, <1>3, Zenon DEF Goal
<1>5. /\ \A e \in Present(t) : e.key \in Keys /\ e.val = Goal(t)[e.key]
      /\ \A x, y \in Gone(t) : x = y
  BY <1>1, Zenon DEF SectionOK
<1>6. ASSUME Present(t)' = Present(t),
             pc'[t] = "insert" /\ Gone(t) # {} => \E r \in Slots : state'[r] # "LIVE",
             pc'[t] = "swap" /\ Gone(t) # {} => \E r \in Slots : r # slot'[t] /\ state'[r] # "LIVE",
             pc'[t] = "place" => state'[slot'[t]] = "BUSY"
      PROVE  SectionOK(t)'
  <2>1. Gone(t)' = Gone(t)
    BY <1>4, <1>6, Zenon DEF Gone
  <2>2. QED
    BY <1>1, <1>2, <1>3, <1>4, <1>5, <1>6, <2>1, ZenonT(30) DEF SectionOK
<1>7. CASE insert_claim(t)
  <2>0. (state[s] \in {"EMPTY", "DEAD"} /\ pc'[t] = "place") \/ (state[s] = "LIVE" /\ pc'[t] = "swap")
    BY <1>7, Zenon DEF insert_claim, Goto, TypeOK
  <2>1. /\ pc[t] = "insert" /\ slot'[t] = s /\ inc'[t] = inc[t] /\ ent' = ent
        /\ state' = [state EXCEPT ![s] = "BUSY"]
    BY <1>7, Zenon DEF insert_claim
  <2>2. state'[s] = "BUSY" /\ \A r \in Slots : r # s => state'[r] = state[r]
    BY <1>1, <2>1, ZenonT(30) DEF TypeOK
  <2>3. LiveSlots' = LiveSlots \ {s}
    BY <1>1, <2>2, Zenon DEF LiveSlots
  <2>4. CASE pc'[t] = "place"
    <3>1. LiveSlots' = LiveSlots
      BY <2>0, <2>3, <2>4, Zenon DEF LiveSlots
    <3>2. Present(t)' = Present(t)
      BY <2>1, <2>4, <3>1, ZenonT(30) DEF Present, Moving
    <3>3. QED
      BY <1>6, <2>1, <2>2, <2>4, <3>2, ZenonT(30)
  <2>5. CASE pc'[t] = "swap"
    <3>1. s \in LiveSlots /\ state[s] = "LIVE"
      BY <1>1, <2>0, <2>5, ZenonT(30) DEF LiveSlots
    <3>2. Present(t)' = {ent[r] : r \in LiveSlots'} \cup {inc[t], ent[s]} /\ Present(t) = InSlots \cup {inc[t]}
      BY <2>1, <2>5, Zenon DEF Present, Moving
    <3>3. Present(t)' = Present(t)
      BY <2>3, <3>1, <3>2, ZenonT(30)
    <3>4. Gone(t) # {} => \E r \in Slots : r # s /\ state'[r] # "LIVE"
      BY <2>1, <2>2, <3>1, ZenonT(30) DEF SectionOK
    <3>5. QED
      BY <1>6, <2>1, <2>5, <3>3, <3>4, ZenonT(30)
  <2>6. QED
    BY <2>0, <2>4, <2>5, ZenonT(30)
<1>8. CASE insert_pass(t)
  <2>1. /\ pc[t] = "insert" /\ pc'[t] = "insert" /\ inc'[t] = inc[t]
        /\ ent' = ent /\ state' = state /\ LiveSlots' = LiveSlots
    BY <1>8, Zenon DEF insert_pass, Advance, TypeOK, LiveSlots
  <2>2. Present(t)' = Present(t)
    BY <2>1, Zenon DEF Present, Moving
  <2>3. Gone(t) # {} => \E r \in Slots : state'[r] # "LIVE"
    BY <2>1, Zenon DEF SectionOK
  <2>4. QED
    BY <1>6, <2>1, <2>2, <2>3, ZenonT(30)
<1>9. ASSUME Store(t), pc[t] \in {"place", "swap"}
      PROVE  /\ s \notin LiveSlots /\ LiveSlots' = LiveSlots \cup {s}
             /\ {ent'[r] : r \in LiveSlots'} = InSlots \cup {inc[t]}
             /\ \A r \in Slots : r # s => state'[r] = state[r]
  <2>1. state[s] = "BUSY"
    BY <1>9, Zenon DEF SectionOK, ChainInv, CarryChained
  <2>2. s \notin LiveSlots
    BY <2>1, Zenon DEF LiveSlots
  <2>3. state'[s] = "LIVE" /\ ent'[s] = inc[t] /\ \A r \in Slots : r # s => state'[r] = state[r] /\ ent'[r] = ent[r]
    BY <1>1, <1>9, Zenon DEF Store, TypeOK
  <2>4. LiveSlots' = LiveSlots \cup {s}
    BY <1>1, <2>3, Zenon DEF LiveSlots
  <2>5. \A r \in LiveSlots : ent'[r] = ent[r]
    BY <1>1, <2>2, <2>3, Zenon
  <2>6. QED
    BY <2>2, <2>3, <2>4, <2>5, ZenonT(30)
<1>10. CASE insert_place(t)
  <2>1. Store(t) /\ pc[t] = "place" /\ pc'[t] = "wend"
    BY <1>10, Zenon DEF insert_place, Goto, TypeOK
  <2>2. Present(t)' = {ent'[r] : r \in LiveSlots'} /\ Present(t) = InSlots \cup {inc[t]}
    BY <2>1, Zenon DEF Present, Moving
  <2>3. QED
    BY <1>6, <1>9, <2>1, <2>2, Zenon
<1>11. CASE insert_swap(t)
  <2>1. Store(t) /\ pc[t] = "swap" /\ pc'[t] = "insert" /\ inc'[t] = ent[s]
    BY <1>11, Zenon DEF insert_swap, Advance, Goto, TypeOK
  <2>2. Present(t)' = {ent'[r] : r \in LiveSlots'} \cup {ent[s]} /\ Present(t) = InSlots \cup {inc[t], ent[s]}
    BY <2>1, Zenon DEF Present, Moving
  <2>3. Present(t)' = Present(t)
    BY <1>9, <2>1, <2>2, ZenonT(30)
  <2>4. Gone(t) # {} => \E r \in Slots : state'[r] # "LIVE"
    BY <1>9, <2>1, Zenon DEF SectionOK
  <2>5. QED
    BY <1>6, <2>1, <2>3, <2>4, ZenonT(30)
<1>12. CASE insert_drop(t)
  <2>1. pc[t] = "insert" /\ it[t] = Cap /\ pc'[t] = "wend" /\ ent' = ent /\ LiveSlots' = LiveSlots
    BY <1>12, Zenon DEF insert_drop, Goto, TypeOK, LiveSlots
  <2>2. Gone(t) = {}
    <3>1. LiveSlots = Slots
      BY <2>1, DropFull, Zenon DEF DropOnlyWhenFull
    <3>2. QED
      BY <2>1, <3>1, Zenon DEF SectionOK, LiveSlots
  <2>3. Present(t)' = InSlots /\ Present(t) = InSlots \cup {inc[t]}
    BY <2>1, Zenon DEF Present, Moving
  <2>4. \A x \in Gone(t)' : x = inc[t].key
    BY <1>4, <2>2, <2>3, ZenonT(30) DEF Gone
  <2>5. \A e \in Present(t)' : e.key \in Keys /\ e.val = Goal(t)'[e.key]
    BY <1>4, <1>5, <2>3, ZenonT(30)
  <2>6. QED
    BY <1>1, <1>2, <2>1, <2>4, <2>5, ZenonT(30) DEF SectionOK
<1>13. QED
  BY <1>7, <1>8, <1>10, <1>11, <1>12, ZenonT(30)

\* A thread enters its section by seq_write_begin.
LEMMA EntersWrite ==
    ASSUME TypeOK, CallInv, NEW t \in Threads, Step(t), ~InWrite(t), InWrite(t)'
    PROVE  seq_write_begin(t)
<1> USE DEF TypeOK, InWrite, Goto
<1>1. ~Caller(t)
  BY ZenonT(30) DEF Caller, vc_set, vc_del, vc_get, vc_flush, Call
<1>2. ~WriteStep(t)
  BY ZenonT(30) DEF WriteStep, seq_write_end, remove_found, remove_notfound, evict_pass, evict_take,
     evict_none, insert_claim, insert_pass, insert_place, insert_swap, insert_drop, flush_slot, flush_count
<1>3. ~shard_lock(t) /\ ~shard_unlock(t)
  BY Zenon DEF shard_lock, shard_unlock, Return
<1>4. ~(seq_read_begin(t) \/ find_load(t) \/ find_compare(t))
  BY ZenonT(30) DEF seq_read_begin, find_load, find_compare
<1>5. ~(find_expiry(t) \/ get_snapshot(t) \/ validate_hit(t) \/ validate_miss(t) \/ validate_fail(t))
  BY ZenonT(30) DEF find_expiry, get_snapshot, validate_hit, validate_miss, validate_fail, Return
<1>6. ~(get_reference(t) \/ locked_hit(t) \/ locked_miss(t))
  BY ZenonT(30) DEF get_reference, locked_hit, locked_miss, Return
<1>7. QED
  BY <1>1, <1>2, <1>3, <1>4, <1>5, <1>6, ZenonT(30) DEF Step, Writer, Reader, WriteStep

\* vc_flush buries the slots in order and then resets the counter.
LEMMA SectionFlush ==
    ASSUME Base, NEW t \in Threads, flush_slot(t) \/ flush_count(t), SectionOK(t), view' = view
    PROVE  SectionOK(t)'
<1> USE DEF Base
<1>1. /\ pc[t] = "flush" /\ op[t] = "flush" /\ op'[t] = "flush" /\ pc'[t] \in {"flush", "wend"}
      /\ it[t] \in 0 .. Cap /\ ent' = ent
  BY Zenon DEF flush_slot, flush_count, CallInv, CallOK, TypeOK, Goto, Bury
<1>2. \A s \in LiveSlots : s \in Slots /\ s >= it[t]
  BY <1>1, Zenon DEF SectionOK, LiveSlots
<1>3. /\ LiveSlots' \subseteq LiveSlots
      /\ pc'[t] = "flush" => \A s \in LiveSlots' : s >= it'[t]
      /\ pc'[t] = "wend" => LiveSlots' = {}
  <2>1. CASE flush_slot(t)
    <3> DEFINE j == it[t]
    <3>1. j \in Slots /\ it'[t] = j + 1 /\ pc'[t] = "flush"
      BY <1>1, <2>1, SlotArithmetic, ZenonT(30) DEF flush_slot, TypeOK
    <3>2. CASE state[j] = "LIVE"
      <4>1. state' = [state EXCEPT ![j] = "DEAD"]
        BY <2>1, <3>2, Zenon DEF flush_slot, Bury
      <4>2. LiveSlots' = LiveSlots \ {j}
        BY <3>1, <4>1 DEF LiveSlots, TypeOK
      <4>3. \A s \in LiveSlots' : s >= j + 1
        BY <1>1, <1>2, <4>2 DEF Slots
      <4>4. QED
        BY <3>1, <4>2, <4>3, Zenon
    <3>3. CASE state[j] # "LIVE"
      <4>1. LiveSlots' = LiveSlots /\ j \notin LiveSlots
        BY <2>1, <3>3, Zenon DEF flush_slot, LiveSlots
      <4>2. \A s \in LiveSlots' : s >= j + 1
        BY <1>1, <1>2, <4>1 DEF Slots
      <4>3. QED
        BY <3>1, <4>1, <4>2, Zenon
    <3>4. QED
      BY <3>2, <3>3, Zenon
  <2>2. CASE flush_count(t)
    <3>1. LiveSlots' = LiveSlots /\ it[t] = Cap /\ pc'[t] = "wend"
      BY <2>2, Zenon DEF flush_count, LiveSlots, TypeOK, Goto
    <3>2. LiveSlots = {}
      BY <1>2, <3>1, CapAssumption DEF Slots
    <3>3. QED
      BY <3>1, <3>2, Zenon
  <2>3. QED
    BY <2>1, <2>2, Zenon
<1>4. Goal(t) = view /\ Goal(t)' = view
  BY <1>1, Zenon DEF Goal
<1>5. Present(t) = {ent[s] : s \in LiveSlots} /\ Present(t)' = {ent[s] : s \in LiveSlots'}
  BY <1>1, Zenon DEF Present, Moving
<1>6. \A e \in Present(t)' : e.key \in Keys /\ e.val = view[e.key]
  <2>1. \A e \in Present(t) : e.key \in Keys /\ e.val = view[e.key]
    BY <1>4, Zenon DEF SectionOK
  <2>2. \A e \in Present(t)' : e \in Present(t)
    BY <1>3, <1>5, Zenon
  <2>3. QED
    BY <2>1, <2>2, Zenon
<1>7. QED
  BY <1>1, <1>3, <1>4, <1>6, ZenonT(30) DEF SectionOK

\* Every step of a thread keeps the sections under way on course.
LEMMA SectionStep ==
    ASSUME Base, Base', KeysUnique, Fresh, ViewOK, ViewOK', GivenInv, DropInv, Observe,
           Quiet \/ ~Quiet' => view' = view, \A u \in Threads : InWrite(u) => SectionOK(u),
           NEW t \in Threads, Step(t), NEW u \in Threads, InWrite(u)'
    PROVE  SectionOK(u)'
<1> USE DEF Base
<1>1. ~Quiet' /\ view' = view
  BY Zenon DEF WriterExclusion
<1>2. pc'[u] # "idle"
  BY Zenon DEF InWrite
<1>3. pc[u] # "idle" => given'[u] = given[u]
  BY <1>2, Zenon DEF Observe
<1>4. ASSUME u # t PROVE SectionOK(u)'
  <2>1. /\ pc'[u] = pc[u] /\ op'[u] = op[u] /\ key'[u] = key[u] /\ inc'[u] = inc[u]
        /\ slot'[u] = slot[u] /\ it'[u] = it[u]
    BY <1>4, OthersUnchanged, Zenon
  <2>2. InWrite(u) /\ ~InWrite(t)
    BY <1>4, <2>1, Zenon DEF InWrite, WriterExclusion, HasLock
  <2>3. UNCHANGED <<state, ent>>
    BY <2>2, StepKinds, Zenon DEF QuietStep
  <2>4. Undisturbed(u)
    BY <1>1, <1>2, <1>3, <2>1, <2>3, ZenonT(30) DEF Undisturbed
  <2>5. QED
    BY <2>2, <2>4, SectionFrame, ZenonT(30)
<1>5. ASSUME u = t, ~InWrite(t) PROVE SectionOK(t)'
  <2>1. seq_write_begin(t)
    BY <1>5, EntersWrite, Zenon
  <2>2. QED
    BY <1>1, <2>1, SectionBegins, Zenon DEF KeysUnique
<1>6. ASSUME u = t, InWrite(t) PROVE SectionOK(t)'
  <2>1. SectionOK(t) /\ given'[t] = given[t]
    BY <1>3, <1>6, Zenon DEF InWrite
  <2>2. CASE seq_write_end(t)
    BY <1>6, <2>2, Zenon DEF seq_write_end, Goto, TypeOK, InWrite
  <2>3. CASE evict_pass(t)
    <3>1. /\ pc[t] = "evict" /\ pc'[t] = "evict" /\ op'[t] = op[t] /\ key'[t] = key[t] /\ op[t] = "set"
          /\ ent' = ent /\ LiveSlots' = LiveSlots
      BY <2>3, Zenon DEF evict_pass, LiveSlots, CallInv, CallOK
    <3>2. Present(t)' = Present(t) /\ Goal(t)' = Goal(t)
      BY <1>1, <3>1, Zenon DEF Present, Moving, Goal
    <3>3. Gone(t)' = Gone(t)
      BY <3>2, Zenon DEF Gone
    <3>4. QED
      BY <2>1, <3>1, <3>2, <3>3, ZenonT(30) DEF SectionOK
  <2>4. WriteStep(t)
    BY <1>6, StepKinds, Zenon DEF QuietStep
  <2>5. QED
    BY <1>1, <2>1, <2>2, <2>3, <2>4, SectionLookup, SectionInsert, SectionFlush, ZenonT(30) DEF WriteStep
<1>7. QED
  BY <1>4, <1>5, <1>6, Zenon

-----------------------------------------------------------------------------
(* The steps of HNext.                                                     *)

\* A step of the clock, or none.
Still == UNCHANGED <<lock, store, calls, pc, args, carry, loop, read>>

\* An answer already accepted stays among the values seen.
LEMMA SeenFrame ==
    ASSUME NEW u \in Threads, SeenOK(u), Follow,
           pc'[u] = pc[u], op'[u] = op[u], key'[u] = key[u], res'[u] = res[u]
    PROVE  SeenOK(u)'
<1>1. seen'[u] = IF pc[u] # "idle" /\ op[u] = "get" THEN seen[u] \cup {view'[key[u]]} ELSE seen[u]
  BY Zenon DEF Follow
<1>2. QED
  BY <1>1, Zenon DEF SeenOK

\* A step of a thread keeps Followed as long as no entry has expired.
LEMMA FollowedStep ==
    ASSUME Base, Base', ReadInv, DropInv, GivenInv, Followed, Observe, Follow, Fresh',
           NEW t \in Threads, Step(t)
    PROVE  Followed'
<1>1. /\ Fresh /\ KeysUnique /\ ViewOK /\ LiveUnique
      /\ \A u \in Threads : SeenOK(u)
      /\ \A u \in Threads : InWrite(u) => SectionOK(u)
  BY Zenon DEF Followed, KeysUnique
<1>2. KeysUnique'
  BY <1>1, UniqueStep, Zenon
<1>3. LiveUnique'
  BY <1>2, Zenon DEF KeysUnique
<1>4. Quiet => UNCHANGED <<state, ent>>
  BY QuietTable, Zenon
<1>5. ViewOK' /\ (Quiet \/ ~Quiet' => view' = view)
  BY <1>1, <1>3, <1>4, ViewStep, ZenonT(30)
<1>6. ASSUME NEW u \in Threads PROVE SeenOK(u)'
  <2>1. CASE u = t
    BY <1>1, <1>5, <2>1, SeenStep, ZenonT(30)
  <2>2. CASE u # t
    BY <1>1, <2>2, OthersUnchanged, SeenFrame, ZenonT(30) DEF Base
  <2>3. QED
    BY <2>1, <2>2, Zenon
<1>7. ASSUME NEW u \in Threads, InWrite(u)' PROVE SectionOK(u)'
  BY <1>1, <1>5, <1>7, SectionStep, Zenon
<1>8. QED
  BY <1>2, <1>5, <1>6, <1>7, ZenonT(30) DEF Followed

\* So does a step of the clock.
LEMMA FollowedStill ==
    ASSUME Base, Base', Followed, Observe, Follow, Fresh', Still
    PROVE  Followed'
<1>1. /\ Fresh /\ KeysUnique /\ ViewOK /\ LiveUnique
      /\ \A u \in Threads : SeenOK(u)
      /\ \A u \in Threads : InWrite(u) => SectionOK(u)
  BY Zenon DEF Followed, KeysUnique
<1>2. UNCHANGED <<state, ent, seq>> /\ LiveSlots' = LiveSlots
  BY Zenon DEF Still, LiveSlots
<1>3. ASSUME NEW u \in Threads
      PROVE  /\ pc'[u] = pc[u] /\ op'[u] = op[u] /\ key'[u] = key[u] /\ inc'[u] = inc[u]
             /\ slot'[u] = slot[u] /\ it'[u] = it[u] /\ res'[u] = res[u]
  BY Zenon DEF Still
<1>4. LiveUnique'
  BY <1>1, <1>2, Zenon DEF LiveUnique
<1>5. ASSUME NEW u \in Threads PROVE CarryUnique(u)'
  <2>1. CarryUnique(u)
    BY <1>1, Zenon DEF KeysUnique
  <2>2. QED
    BY <1>2, <1>3, <2>1, ZenonT(30) DEF CarryUnique, Carries, NewKey
<1>6. KeysUnique'
  BY <1>4, <1>5, Zenon DEF KeysUnique
<1>7. ViewOK' /\ (Quiet \/ ~Quiet' => view' = view)
  BY <1>1, <1>2, <1>4, ViewStep, ZenonT(30)
<1>8. ASSUME NEW u \in Threads PROVE SeenOK(u)'
  BY <1>1, <1>3, SeenFrame, ZenonT(30)
<1>9. ASSUME NEW u \in Threads, InWrite(u)' PROVE SectionOK(u)'
  <2>1. InWrite(u) /\ pc[u] # "idle"
    BY <1>3, <1>9, Zenon DEF InWrite
  <2>2. view' = view
    BY <1>2, <1>7, Zenon DEF Quiet
  <2>3. given'[u] = given[u]
    BY <1>3, <2>1, Zenon DEF Observe
  <2>4. QED
    BY <1>1, <1>2, <1>3, <2>1, <2>2, <2>3, SectionFrame, ZenonT(30) DEF Undisturbed
<1>10. QED
  BY <1>6, <1>7, <1>8, <1>9, ZenonT(30) DEF Followed

\* A step of the clock changes nothing of what vc_set was given.
LEMMA GivenStill ==
    ASSUME GivenInv, Observe, Still
    PROVE  GivenInv'
<1>1. pc' = pc /\ op' = op /\ key' = key /\ inc' = inc /\ calls' = calls
  BY Zenon DEF Still
<1>2. applied' = applied
  <2>1. {u \in Threads : op[u] = "set" /\ pc[u] = "wend" /\ pc'[u] = "unlock"} = {}
    BY <1>1, Zenon
  <2>2. QED
    BY <2>1, Zenon DEF Observe, Follow
<1>3. \A u \in Threads : Pending(u)' <=> Pending(u)
  BY <1>1, Zenon DEF Pending
<1>4. \A u \in Threads : Pending(u) => given'[u] = given[u]
  BY <1>1, Zenon DEF Observe, Pending
<1>5. QED
  BY <1>1, <1>2, <1>3, <1>4, ZenonT(30) DEF GivenInv

\* HistInv is inductive, given what is already known of the shard.
LEMMA HistNext == Base /\ Base' /\ ReadInv /\ DropInv /\ HistInv /\ [HNext]_hvars => HistInv'
<1> SUFFICES ASSUME Base, Base', ReadInv, DropInv, HistInv, [HNext]_hvars PROVE HistInv'
  OBVIOUS
<1>1. CASE UNCHANGED hvars
  <2>1. UNCHANGED <<vars, view, applied, seen, given, late>>
    BY <1>1, Zenon DEF hvars
  <2>2. GivenInv'
    BY <2>1, ZenonT(30) DEF HistInv, GivenInv, Pending
  <2>3. ~late => Followed
    BY Zenon DEF HistInv
  <2>4. Fresh => Fresh'
    BY <2>1, Zenon DEF Fresh, LiveSlots, entry_expired
  <2>5. LiveSlots' = LiveSlots
    BY <2>1, Zenon DEF LiveSlots
  <2>6. KeysUnique => KeysUnique'
    BY <2>1, <2>5, ZenonT(30) DEF KeysUnique, LiveUnique, CarryUnique, Carries, NewKey
  <2>7. ASSUME Followed PROVE ViewOK'
    <3>1. ViewOK /\ Fresh /\ LiveUnique /\ Fresh' /\ LiveUnique'
      BY <2>4, <2>6, <2>7, Zenon DEF Followed, KeysUnique
    <3>2. \A k \in Keys : Lookup(k)' = Lookup(k)
      BY <2>1, <3>1, LookupSame, Zenon
    <3>3. QED
      BY <2>1, <3>1, <3>2, Zenon DEF ViewOK, Quiet
  <2>8. ASSUME NEW u \in Threads, SeenOK(u) PROVE SeenOK(u)'
    BY <2>1, <2>8, Zenon DEF SeenOK
  <2>9. ASSUME NEW u \in Threads, SectionOK(u) PROVE SectionOK(u)'
    BY <2>1, <2>9, SectionFrame, ZenonT(30) DEF Undisturbed
  <2>10. ~late' => Followed'
    BY <2>1, <2>3, <2>4, <2>6, <2>7, <2>8, <2>9, ZenonT(30) DEF Followed, InWrite
  <2>11. QED
    BY <2>1, <2>2, <2>10, ZenonT(30) DEF HistInv
<1>2. CASE HNext
  <2>1. Observe /\ ((\E t \in Threads : Step(t)) \/ Still)
    <3>1. (\E t \in Threads : Step(t)) \/ Tick \/ UNCHANGED vars
      BY <1>2, NextKinds, Zenon DEF HNext
    <3>2. QED
      BY <1>2, <3>1, Zenon DEF HNext, Tick, Still
  <2>2. late' \in BOOLEAN
    BY <2>1, Zenon DEF Observe
  <2>3. GivenInv'
    BY <2>1, GivenStep, GivenStill, Zenon DEF HistInv
  <2>4. ASSUME ~late' PROVE Followed'
    <3>1. ~late /\ Follow /\ \A s \in Slots : ~(state[s] = "LIVE" /\ entry_expired(ent[s]))'
      BY <2>1, <2>4, Zenon DEF Observe
    <3>2. Fresh'
      BY <3>1, Zenon DEF Fresh, LiveSlots
    <3>3. Followed /\ GivenInv
      BY <3>1, Zenon DEF HistInv
    <3>4. QED
      BY <2>1, <3>1, <3>2, <3>3, FollowedStep, FollowedStill, ZenonT(30)
  <2>5. QED
    BY <2>2, <2>3, <2>4, Zenon DEF HistInv
<1>3. QED
  BY <1>1, <1>2, Zenon


\* HistInv holds initially: the table is empty, and so are the histories.
LEMMA HistStart == HInit => HistInv
<1> SUFFICES ASSUME HInit PROVE HistInv
  OBVIOUS
<1> USE DEF HInit, Init
<1>1. LiveSlots = {}
  BY Zenon DEF LiveSlots
<1>2. \A k \in Keys : Lookup(k) = NotFound
  BY Zenon DEF Lookup, shard_find, FirstMatch, Holds
<1>3. Fresh /\ KeysUnique
  BY <1>1, Zenon DEF Fresh, KeysUnique, LiveUnique, CarryUnique, Carries
<1>4. ViewOK
  <2>1. NotFound \in Nat
    BY DEF NotFound
  <2>2. QED
    BY <1>2, <2>1, ZenonT(30) DEF ViewOK
<1>5. \A t \in Threads : SeenOK(t) /\ ~InWrite(t) /\ ~Pending(t)
  BY Zenon DEF SeenOK, InWrite, Pending
<1>6. QED
  BY <1>3, <1>4, <1>5, ZenonT(30) DEF HistInv, Followed, GivenInv

\* The histories only observe: a behaviour of HSpec is one of Spec.
LEMMA HistoryOnlyObserves == HSpec => Spec
<1>1. HInit => Init
  BY Zenon DEF HInit
<1>2. [HNext]_hvars => [Next]_vars
  BY Zenon DEF HNext, hvars
<1>3. QED
  BY <1>1, <1>2, PTL DEF HSpec, Spec

\* HistInv is an invariant of the shard with its histories.
LEMMA HistInvariant == HSpec => []HistInv
  BY HistStart, HistNext, HistoryOnlyObserves, BaseInvariant, ReadInvariant, DropInvariant, PTL DEF HSpec

\* vc_get is linearizable with any number of threads: whichever of its lock-free
\* attempts or its locked path answers, and whatever writers do meanwhile, the
\* answer is a value its key had between the call and the return.
THEOREM LinearizableCorrect == HSpec => []GetLinearizable
<1>1. HistInv => GetLinearizable
  BY Zenon DEF HistInv, Followed, SeenOK, GetLinearizable
<1>2. QED
  BY <1>1, HistInvariant, PTL


-----------------------------------------------------------------------------
(* Refinement: seq_write_end is the step that changes the abstract cache.   *)

CallsInv == calls \in 0 .. MaxCalls

\* Values are numbers of calls, and MaxCalls bounds those.
LEMMA CallsBounded == Spec => []CallsInv
<1>1. Init => CallsInv
  BY BoundsAssumption DEF Init, CallsInv
<1>2. CallsInv /\ [Next]_vars => CallsInv'
  <2> SUFFICES ASSUME CallsInv, [Next]_vars PROVE CallsInv'
    OBVIOUS
  <2>1. ASSUME NEW t \in Threads, Step(t) PROVE calls' = calls \/ (calls < MaxCalls /\ calls' = calls + 1)
    <3>1. CASE Caller(t)
      BY <3>1, ZenonT(30) DEF Caller, vc_set, vc_del, vc_get, vc_flush, Call
    <3>2. CASE Writer(t)
      BY <3>2, ZenonT(30) DEF Writer, shard_lock, seq_write_begin, seq_write_end, shard_unlock,
         remove_found, remove_notfound, evict_pass, evict_take, evict_none, insert_claim, insert_pass,
         insert_place, insert_swap, insert_drop, flush_slot, flush_count, AfterLookup
    <3>3. CASE Reader(t)
      BY <3>3, ZenonT(30) DEF Reader, seq_read_begin, find_load, find_compare, find_expiry, get_snapshot,
         validate_hit, validate_miss, validate_fail, get_reference, locked_hit, locked_miss
    <3>4. QED
      BY <2>1, <3>1, <3>2, <3>3, ZenonT(30) DEF Step
  <2>2. Tick \/ UNCHANGED vars => calls' = calls
    BY Zenon DEF Tick
  <2>3. calls' = calls \/ (calls < MaxCalls /\ calls' = calls + 1)
    BY <2>1, <2>2, NextKinds, ZenonT(30)
  <2>4. QED
    BY <2>3, BoundsAssumption DEF CallsInv
<1>3. QED
  BY <1>1, <1>2, PTL DEF Spec

\* A thread at the end of its section leaves it by seq_write_end.
LEMMA EndsWrite ==
    ASSUME TypeOK, CallInv, NEW t \in Threads, Step(t), pc[t] = "wend" \/ (InWrite(t) /\ ~InWrite(t)')
    PROVE  seq_write_end(t)
<1>1. InWrite(t) /\ WriteStep(t)
  BY StepKinds, Zenon DEF InWrite, QuietStep
<1>2. ~(remove_found(t) \/ remove_notfound(t))
  BY Zenon DEF remove_found, remove_notfound, AfterLookup, StartInsert, TypeOK, InWrite, Goto
<1>3. ~(evict_pass(t) \/ evict_take(t) \/ evict_none(t))
  BY <1>1, ZenonT(30) DEF evict_pass, evict_take, evict_none, StartInsert, TypeOK, InWrite, Goto
<1>4. ~(insert_claim(t) \/ insert_pass(t) \/ insert_place(t) \/ insert_swap(t) \/ insert_drop(t))
  BY <1>1, ZenonT(30) DEF insert_claim, insert_pass, insert_place, insert_swap, insert_drop, TypeOK, InWrite, Goto
<1>5. ~(flush_slot(t) \/ flush_count(t))
  BY <1>1, Zenon DEF flush_slot, flush_count, TypeOK, InWrite, Goto
<1>6. QED
  BY <1>1, <1>2, <1>3, <1>4, <1>5, ZenonT(30) DEF WriteStep

\* No other step changes the abstract cache.
LEMMA OtherStepsStutter ==
    ASSUME Base, NEW t \in Threads, Step(t), ~seq_write_end(t), Follow, Quiet \/ ~Quiet' => view' = view
    PROVE  UNCHANGED <<view, applied>>
<1> USE DEF Base
<1>1. pc[t] # "wend" /\ ~(InWrite(t) /\ ~InWrite(t)')
  BY EndsWrite, Zenon
<1>2. applied' = applied
  <2>1. \A u \in Threads : ~(op[u] = "set" /\ pc[u] = "wend" /\ pc'[u] = "unlock")
    <3>1. ASSUME NEW u \in Threads, u # t, pc[u] = "wend" PROVE pc'[u] # "unlock"
      BY <3>1, OthersUnchanged, Zenon
    <3>2. QED
      BY <1>1, <3>1, Zenon
  <2>2. QED
    BY <2>1, Zenon DEF Follow
<1>3. ASSUME ~Quiet PROVE ~Quiet'
  <2>1. PICK u \in Threads : InWrite(u)
    BY <1>3, Zenon DEF WriterExclusion
  <2>2. InWrite(u)'
    <3>1. CASE u = t
      BY <1>1, <2>1, <3>1, ZenonT(30)
    <3>2. CASE u # t
      BY <2>1, <3>2, OthersUnchanged, Zenon DEF InWrite
    <3>3. QED
      BY <3>1, <3>2, Zenon
  <2>3. WriterExclusion'
    BY ExclusionStep, Zenon
  <2>4. QED
    BY <2>2, <2>3, ZenonT(30) DEF WriterExclusion
<1>4. QED
  BY <1>2, <1>3, Zenon


\* seq_write_end publishes what the section led to.
LEMMA Published ==
    ASSUME Base, Base', LiveUnique', Fresh', ViewOK, Follow, NEW t \in Threads, seq_write_end(t), SectionOK(t)
    PROVE  /\ view' \in [Keys -> Nat]
           /\ \A x \in Keys : view'[x] = IF x \in Gone(t) THEN NotFound ELSE Goal(t)[x]
           /\ LiveSlots = {} => \A x \in Keys : view'[x] = NotFound
           /\ applied' = IF op[t] = "set" THEN applied \cup {given[t].val} ELSE applied
<1> USE DEF Base
<1>1. /\ pc[t] = "wend" /\ pc'[t] = "unlock" /\ \A u \in Threads : u # t => pc'[u] = pc[u]
      /\ ent' = ent /\ LiveSlots' = LiveSlots
  BY Zenon DEF seq_write_end, Goto, TypeOK, LiveSlots
<1>2. view' = [x \in Keys |-> Lookup(x)']
  <2>1. ~Quiet
    BY <1>1, ZenonT(30) DEF WriterExclusion, InWrite
  <2>2. Quiet'
    BY <2>1, Parity DEF Quiet, seq_write_end, TypeOK
  <2>3. QED
    BY <2>2, Zenon DEF Follow
<1>3. (Base /\ LiveUnique /\ Fresh => Found /\ Unfound)'
  BY LookupFacts, PTL
<1>4. \A s \in LiveSlots : ent[s].key \in Keys /\ view'[ent[s].key] = ent[s].val
  BY <1>1, <1>2, <1>3, Zenon DEF Found
<1>5. \A x \in Keys : (\A s \in LiveSlots : ent[s].key # x) => view'[x] = NotFound
  BY <1>1, <1>2, <1>3, ZenonT(30) DEF Unfound, NewKey
<1>6. Present(t) = {ent[s] : s \in LiveSlots}
  BY <1>1, Zenon DEF Present, Moving
<1>7. ASSUME NEW x \in Keys PROVE view'[x] = IF x \in Gone(t) THEN NotFound ELSE Goal(t)[x]
  <2>1. CASE \E s \in LiveSlots : ent[s].key = x
    <3>1. PICK s \in LiveSlots : ent[s].key = x
      BY <2>1, Zenon
    <3>2. ent[s] \in Present(t)
      BY <1>6, Zenon
    <3>3. x \notin Gone(t)
      BY <3>1, <3>2, Zenon DEF Gone
    <3>4. ent[s].val = Goal(t)[x]
      BY <3>1, <3>2, Zenon DEF SectionOK
    <3>5. QED
      BY <1>4, <3>1, <3>3, <3>4, ZenonT(30)
  <2>2. CASE \A s \in LiveSlots : ent[s].key # x
    <3>1. \A e \in Present(t) : e.key # x
      BY <1>6, <2>2, Zenon
    <3>2. x \in Gone(t) \/ Goal(t)[x] = NotFound
      BY <3>1, Zenon DEF Gone
    <3>3. QED
      BY <1>5, <2>2, <3>2, Zenon
  <2>3. QED
    BY <2>1, <2>2, Zenon
<1>8. view' \in [Keys -> Nat]
  <2>1. \A x \in Keys : view'[x] \in Nat
    <3>1. ASSUME NEW s \in LiveSlots PROVE ent[s].val \in Nat
      <4>1. ent[s] \in Entries
        BY Zenon DEF LiveSlots, TypeOK
      <4>2. QED
        BY <4>1, EntryFacts, Zenon
    <3>2. NotFound \in Nat
      BY DEF NotFound
    <3>3. QED
      BY <1>4, <1>5, <3>1, <3>2, ZenonT(30)
  <2>2. QED
    BY <1>2, <2>1
<1>9. applied' = IF op[t] = "set" THEN applied \cup {given[t].val} ELSE applied
  <2> DEFINE Ending == {u \in Threads : op[u] = "set" /\ pc[u] = "wend" /\ pc'[u] = "unlock"}
  <2>1. Ending = IF op[t] = "set" THEN {t} ELSE {}
    BY <1>1, Zenon
  <2>2. applied' = applied \cup {given[u].val : u \in Ending}
    BY Zenon DEF Follow
  <2>3. QED
    BY <2>1, <2>2, Zenon
<1>10. QED
  BY <1>5, <1>7, <1>8, <1>9, ZenonT(30)

\* So it is a Set, a Del or a Flush of the abstract cache.
LEMMA EndIsAbstract ==
    ASSUME Base, Base', CallsInv, GivenInv, Followed, LiveUnique', Fresh', Follow,
           NEW t \in Threads, seq_write_end(t)
    PROVE  Abstract!Next
<1> USE DEF Base
<1>1. pc[t] = "wend" /\ op[t] \in {"set", "del", "flush"} /\ (op[t] # "flush" => key[t] \in Keys)
  BY Zenon DEF seq_write_end, CallInv, CallOK
<1>2. SectionOK(t) /\ ViewOK
  BY <1>1, Zenon DEF Followed, InWrite
<1>3. /\ view' \in [Keys -> Nat]
      /\ \A x \in Keys : view'[x] = IF x \in Gone(t) THEN NotFound ELSE Goal(t)[x]
      /\ LiveSlots = {} => \A x \in Keys : view'[x] = NotFound
      /\ applied' = IF op[t] = "set" THEN applied \cup {given[t].val} ELSE applied
  BY <1>2, Published, Zenon
<1>4. CASE op[t] = "set"
  <2> DEFINE k == key[t]
             v == given[t].val
             S == [x \in Keys |-> IF x \in Gone(t) THEN Abstract!Absent ELSE IF x = k THEN v ELSE view[x]]
  <2>1. v \in 1 .. calls /\ v \notin applied /\ k \in Keys
    BY <1>1, <1>4, Zenon DEF GivenInv, Pending
  <2>2. v \in 1 .. MaxCalls
    BY <2>1, BoundsAssumption DEF CallsInv
  <2>3. Goal(t) = [view EXCEPT ![k] = v]
    BY <1>1, <1>4, Zenon DEF Goal
  <2>4. \A x \in Keys : Goal(t)[x] = IF x = k THEN v ELSE view[x]
    BY <1>2, <2>3, Zenon DEF ViewOK
  <2>5. Gone(t) \in SUBSET Keys /\ \A x, y \in Gone(t) : x = y
    BY <1>2, <1>4, ZenonT(30) DEF SectionOK, Gone
  <2>6. view' = S
    <3>1. \A x \in Keys : view'[x] = S[x]
      BY <1>3, <2>4, ZenonT(30) DEF Abstract!Absent, NotFound
    <3>2. QED
      BY <1>3, <3>1
  <2>7. Abstract!Set(k, v)
    BY <1>3, <1>4, <2>1, <2>5, <2>6, ZenonT(30) DEF Abstract!Set
  <2>8. QED
    BY <2>1, <2>2, <2>7, Zenon DEF Abstract!Next
<1>5. CASE op[t] = "del"
  <2> DEFINE k == key[t]
  <2>1. Goal(t) = [view EXCEPT ![k] = NotFound] /\ Gone(t) = {} /\ k \in Keys
    BY <1>1, <1>2, <1>5, ZenonT(30) DEF Goal, SectionOK
  <2>2. \A x \in Keys : view'[x] = Goal(t)[x]
    BY <1>3, <2>1, ZenonT(30)
  <2>3. view' = [view EXCEPT ![k] = NotFound]
    BY <1>2, <1>3, <2>1, <2>2 DEF ViewOK
  <2>4. Abstract!Del(k)
    BY <1>3, <1>5, <2>3, Zenon DEF Abstract!Del, Abstract!Absent, NotFound
  <2>5. QED
    BY <2>1, <2>4, ZenonT(30) DEF Abstract!Next
<1>6. CASE op[t] = "flush"
  <2>1. LiveSlots = {}
    BY <1>1, <1>2, <1>6, ZenonT(30) DEF SectionOK
  <2>2. view' = [x \in Keys |-> NotFound]
    BY <1>3, <2>1
  <2>3. Abstract!Flush
    BY <1>3, <1>6, <2>2, Zenon DEF Abstract!Flush, Abstract!Absent, NotFound
  <2>4. QED
    BY <2>3, Zenon DEF Abstract!Next
<1>7. QED
  BY <1>1, <1>4, <1>5, <1>6, ZenonT(30)


\* Every step of the shard is a step of the abstract cache, or none.
LEMMA StepRefines ==
    Base /\ Base' /\ CallsInv /\ HistInv /\ HistInv' /\ [HNext]_hvars
        => [Abstract!Next]_<<view, applied>>
<1> SUFFICES ASSUME Base, Base', CallsInv, HistInv, HistInv', [HNext]_hvars
             PROVE  Abstract!Next \/ UNCHANGED <<view, applied>>
  BY Zenon
<1>1. CASE UNCHANGED hvars
  BY <1>1, Zenon DEF hvars
<1>2. CASE HNext /\ late'
  <2>1. view' = [x \in Keys |-> NotFound] /\ applied' = applied
    BY <1>2, Zenon DEF HNext, Observe
  <2>2. Abstract!Flush
    BY <2>1, Zenon DEF Abstract!Flush, Abstract!Absent, NotFound
  <2>3. QED
    BY <2>2, Zenon DEF Abstract!Next
<1>3. CASE HNext /\ ~late'
  <2>1. Observe /\ ~late /\ Follow
    BY <1>3, Zenon DEF HNext, Observe
  <2>2. Followed /\ GivenInv /\ Followed'
    BY <1>3, <2>1, Zenon DEF HistInv
  <2>3. LiveUnique /\ Fresh /\ ViewOK /\ LiveUnique' /\ Fresh'
    BY <2>2, Zenon DEF Followed, KeysUnique
  <2>4. CASE \E t \in Threads : Step(t)
    <3>1. PICK t \in Threads : Step(t)
      BY <2>4, Zenon
    <3>2. CASE seq_write_end(t)
      BY <2>1, <2>2, <2>3, <3>2, EndIsAbstract, ZenonT(30)
    <3>3. CASE ~seq_write_end(t)
      <4>1. Quiet => UNCHANGED <<state, ent>>
        BY <3>1, QuietTable, Zenon
      <4>2. Quiet \/ ~Quiet' => view' = view
        BY <2>1, <2>3, <4>1, ViewStep, ZenonT(30)
      <4>3. QED
        BY <2>1, <3>1, <3>3, <4>2, OtherStepsStutter, ZenonT(30)
    <3>4. QED
      BY <3>2, <3>3, Zenon
  <2>5. CASE Tick \/ UNCHANGED vars
    <3>1. UNCHANGED <<state, ent, seq, pc>>
      BY <2>5, Zenon DEF Tick
    <3>2. view' = view
      BY <2>1, <2>3, <3>1, ViewStep, ZenonT(30) DEF Quiet
    <3>3. applied' = applied
      <4>1. {u \in Threads : op[u] = "set" /\ pc[u] = "wend" /\ pc'[u] = "unlock"} = {}
        BY <3>1, Zenon
      <4>2. QED
        BY <2>1, <4>1, ZenonT(30) DEF Follow
    <3>4. QED
      BY <3>2, <3>3, ZenonT(30)
  <2>6. QED
    BY <1>3, <2>4, <2>5, NextKinds, ZenonT(30) DEF HNext
<1>4. QED
  BY <1>1, <1>2, <1>3, Zenon

\* A shard implements the abstract cache with any number of threads, keys and
\* slots: each call's section is one Set, Del or Flush at its seq_write_end, a
\* vc_set costs at most one key its entry, and no value comes back.
THEOREM RefinementCorrect == HSpec => ImplementsCache
<1>1. HInit => Abstract!Init
  BY Zenon DEF HInit, Abstract!Init, Abstract!Absent, NotFound
<1>2. QED
  BY <1>1, StepRefines, HistInvariant, HistoryOnlyObserves, BaseInvariant, CallsBounded, PTL
  DEF HSpec, ImplementsCache, Abstract!Spec

-----------------------------------------------------------------------------
(* Counting.  A displaced entry is in no slot but is counted; the entry     *)
(* vc_set placed is in its slot before it is counted.                      *)

Live == Cardinality(LiveSlots)

CountOK(t) ==
    /\ pc[t] = "swap" => count >= Live + 1
    /\ pc[t] = "wend" /\ op[t] = "set" => count + 1 >= Live
    /\ ~(pc[t] = "wend" /\ op[t] = "set") => count >= Live
    /\ pc[t] = "flush" => \A s \in LiveSlots : s >= it[t]

CountInv ==
    /\ Quiet => count >= Live
    /\ \A t \in Threads : InWrite(t) => CountOK(t)

\* The live slots are finitely many, so that count can be compared with them.
LEMMA LiveFinite ==
    /\ IsFiniteSet(LiveSlots) /\ Live \in Nat
    /\ IsFiniteSet(LiveSlots)' /\ Live' \in Nat
<1>1. IsFiniteSet(Slots)
  BY FS_Interval, CapAssumption DEF Slots
<1>2. LiveSlots \subseteq Slots /\ LiveSlots' \subseteq Slots
  BY Zenon DEF LiveSlots
<1>3. IsFiniteSet(LiveSlots) /\ IsFiniteSet(LiveSlots')
  BY <1>1, <1>2, FS_Subset, Zenon
<1>4. QED
  BY <1>3, FS_CardinalityType, Zenon DEF Live

\* One slot ceases to be live, or becomes live.
LEMMA LiveLess ==
    ASSUME NEW s \in LiveSlots, LiveSlots' = LiveSlots \ {s}
    PROVE  Live' = Live - 1
  BY LiveFinite, FS_RemoveElement, Zenon DEF Live

\* One more live slot, as when _shard_insert fills a slot, is one more at most.
LEMMA LiveMore ==
    ASSUME NEW s, LiveSlots' = LiveSlots \cup {s}
    PROVE  Live' <= Live + 1
<1>1. CASE s \in LiveSlots
  <2>1. LiveSlots' = LiveSlots
    BY <1>1, Zenon
  <2>2. Live' = Live
    BY <2>1, Zenon DEF Live
  <2>3. QED
    BY <2>2, LiveFinite
<1>2. CASE s \notin LiveSlots
  <2>1. Live' = Live + 1
    BY <1>2, LiveFinite, FS_AddElement, Zenon DEF Live
  <2>2. QED
    BY <2>1, LiveFinite
<1>3. QED
  BY <1>1, <1>2, Zenon

\* Every step keeps CountInv: overwrites, deletes and evictions take one off
\* count when they bury a live slot, vc_set adds one for at most one new one.
LEMMA CountStep ==
    ASSUME Base, Base', CountInv, NEW t \in Threads, Step(t)
    PROVE  CountInv'
<1> USE LiveFinite DEF Base
<1>0. count \in Int /\ count' \in Int
  BY Zenon DEF TypeOK
<1>1. CASE QuietStep(t)
  <2>1. LiveSlots' = LiveSlots /\ Live' = Live /\ count' = count /\ ~InWrite(t)
    BY <1>1, Zenon DEF QuietStep, LiveSlots, Live
  <2>2. CASE Quiet
    <3>1. Quiet' => count' >= Live'
      BY <2>1, <2>2, Zenon DEF CountInv
    <3>2. ASSUME NEW u \in Threads, InWrite(u)' PROVE u = t
      BY <2>2, <3>2, OthersUnchanged, Zenon DEF WriterExclusion, InWrite
    <3>3. InWrite(t)' => CountOK(t)'
      <4>1. pc'[t] = "flush" => it'[t] = 0
        <5>1. seq_write_begin(t) \/ pc'[t] # "flush"
          BY <1>1, ZenonT(30) DEF Step, Caller, Writer, Reader, QuietStep, InWrite, TypeOK, Goto,
             vc_set, vc_del, vc_get, vc_flush, shard_lock, shard_unlock, Return,
             remove_found, remove_notfound, evict_pass, evict_take, evict_none, insert_claim,
             insert_pass, insert_place, insert_swap, insert_drop, flush_slot, flush_count,
             seq_write_end, seq_read_begin, find_load, find_compare, find_expiry, get_snapshot,
             validate_hit, validate_miss, validate_fail, get_reference, locked_hit, locked_miss
        <5>2. ASSUME seq_write_begin(t), pc'[t] = "flush" PROVE it'[t] = 0
          BY <5>2, Zenon DEF seq_write_begin, TypeOK, Goto, CallInv, CallOK
        <5>3. QED
          BY <5>1, <5>2, ZenonT(30)
      <4>2. \A s \in LiveSlots : s >= 0
        BY DEF LiveSlots, Slots
      <4>3. QED
        BY <1>1, <2>1, <2>2, <4>1, <4>2, ZenonT(30) DEF QuietStep, CountInv, CountOK
    <3>4. QED
      BY <3>1, <3>2, <3>3, Zenon DEF CountInv
  <2>3. CASE ~Quiet
    <3>1. PICK w \in Threads : InWrite(w)
      BY <2>3, ZenonT(30) DEF WriterExclusion
    <3>2. w # t /\ InWrite(w)' /\ ~Quiet'
      <4>1. w # t /\ pc'[w] = pc[w]
        BY <2>1, <3>1, OthersUnchanged, Zenon
      <4>2. InWrite(w)'
        BY <3>1, <4>1, Zenon DEF InWrite
      <4>3. QED
        BY <4>1, <4>2, Zenon DEF WriterExclusion
    <3>3. CountOK(w)'
      BY <2>1, <3>1, <3>2, OthersUnchanged, ZenonT(30) DEF CountInv, CountOK
    <3>4. ASSUME NEW u \in Threads, InWrite(u)' PROVE u = w
      BY <3>2, <3>4, Zenon DEF WriterExclusion, HasLock
    <3>5. QED
      BY <3>2, <3>3, <3>4, Zenon DEF CountInv
  <2>4. QED
    BY <2>2, <2>3, Zenon
<1>2. CASE InWrite(t) /\ WriteStep(t)
  <2>1. ASSUME NEW u \in Threads, u # t PROVE ~InWrite(u)'
    BY <1>2, <2>1, OthersUnchanged DEF WriterExclusion, HasLock, InWrite
  <2>2. CountOK(t) /\ slot[t] \in Slots
    BY <1>2, Zenon DEF CountInv, TypeOK
  <2>3. CASE seq_write_end(t)
    <3>1. LiveSlots' = LiveSlots /\ ~InWrite(t)' /\ count' = IF op[t] = "set" THEN count + 1 ELSE count
      BY <2>3, Zenon DEF seq_write_end, LiveSlots, InWrite, TypeOK, Goto
    <3>2. count' >= Live'
      BY <1>0, <2>2, <2>3, <3>1, Zenon DEF seq_write_end, CountOK, Live
    <3>3. QED
      BY <2>1, <3>1, <3>2, Zenon DEF CountInv
  <2>4. SUFFICES ASSUME ~seq_write_end(t) PROVE CountOK(t)'
    <3>1. CASE seq_write_end(t)
      BY <2>3, <3>1, Zenon
    <3>2. CASE ~seq_write_end(t)
      <4>1. seq' = seq /\ ~Quiet
        BY <1>2, <3>2, Zenon DEF WriterExclusion, WriteStep, remove_found, remove_notfound, evict_pass,
           evict_take, evict_none, insert_claim, insert_pass, insert_place, insert_swap,
           insert_drop, flush_slot, flush_count, AfterLookup
      <4>2. QED
        BY <2>1, <2>4, <3>2, <4>1, Zenon DEF CountInv, Quiet
    <3>3. QED
      BY <3>1, <3>2, Zenon
  <2>5. ASSUME NEW s \in LiveSlots, Bury(s) PROVE Live' = Live - 1 /\ LiveSlots' = LiveSlots \ {s}
    <3>1. LiveSlots' = LiveSlots \ {s}
      BY <2>5, Zenon DEF Bury, LiveSlots, TypeOK
    <3>2. QED
      BY <3>1, LiveLess, Zenon
  <2>6. ASSUME UNCHANGED state PROVE Live' = Live /\ LiveSlots' = LiveSlots
    BY <2>6, Zenon DEF Live, LiveSlots
  <2>7. ASSUME Store(t) PROVE Live' <= Live + 1
    <3>1. LiveSlots' = LiveSlots \cup {slot[t]}
      BY <2>2, <2>7 DEF Store, LiveSlots, TypeOK
    <3>2. QED
      BY <3>1, LiveMore, ZenonT(30)
  <2>21. CASE remove_found(t)
    <3>1. PICK s \in LiveSlots : Bury(s)
      BY <2>21, Zenon DEF remove_found, shard_find, FirstMatch, Holds, LiveSlots
    <3>2. Live' = Live - 1 /\ count' = count - 1 /\ count >= Live /\ pc'[t] \notin {"swap", "flush"}
          /\ ~(pc'[t] = "wend" /\ op'[t] = "set")
      BY <2>21, <2>2, <2>5, <3>1, ZenonT(30) DEF remove_found, AfterLookup, StartInsert, CountOK, TypeOK, Goto
    <3>3. QED
      BY <1>0, <3>2 DEF CountOK
  <2>22. CASE remove_notfound(t)
    <3>1. Live' = Live /\ count' = count /\ count >= Live /\ pc'[t] \notin {"swap", "flush"}
          /\ ~(pc'[t] = "wend" /\ op'[t] = "set")
      BY <2>22, <2>2, <2>6, ZenonT(30) DEF remove_notfound, AfterLookup, StartInsert, CountOK, TypeOK, Goto
    <3>2. QED
      BY <1>0, <3>1, Zenon DEF CountOK
  <2>23. CASE evict_pass(t)
    BY <2>23, <1>0, <2>2, <2>6, ZenonT(30) DEF evict_pass, CountOK, TypeOK, Goto
  <2>24. CASE evict_take(t)
    <3>1. NextSlot(slot[t]) \in LiveSlots
      BY <2>24, <2>2, SlotArithmetic, Zenon DEF evict_take, LiveSlots
    <3>2. Live' = Live - 1 /\ count' = count - 1 /\ count >= Live /\ pc'[t] = "insert"
      BY <2>24, <2>2, <2>5, <3>1, ZenonT(30) DEF evict_take, StartInsert, CountOK, TypeOK, Goto
    <3>3. QED
      BY <1>0, <3>2 DEF CountOK
  <2>25. CASE evict_none(t)
    BY <2>25, <1>0, <2>2, <2>6, ZenonT(30) DEF evict_none, StartInsert, CountOK, TypeOK, Goto
  <2>26. CASE insert_claim(t)
    <3>1. count' = count /\ count >= Live
      BY <2>26, <2>2, Zenon DEF insert_claim, CountOK
    <3>2. CASE state[slot[t]] \in {"EMPTY", "DEAD"} /\ Goto(t, "place")
      <4>1. LiveSlots' = LiveSlots
        BY <2>26, <2>2, <3>2, ZenonT(30) DEF insert_claim, LiveSlots, TypeOK
      <4>2. pc'[t] = "place"
        BY <3>2, Zenon DEF Goto, TypeOK
      <4>3. QED
        BY <3>1, <4>1, <4>2, Zenon DEF CountOK, Live
    <3>3. CASE state[slot[t]] = "LIVE" /\ Goto(t, "swap")
      <4>1. slot[t] \in LiveSlots /\ LiveSlots' = LiveSlots \ {slot[t]}
        BY <2>26, <2>2, <3>3, ZenonT(30) DEF insert_claim, LiveSlots, TypeOK
      <4>2. Live' = Live - 1
        BY <4>1, LiveLess, Zenon
      <4>3. pc'[t] = "swap"
        BY <3>3, Zenon DEF Goto, TypeOK
      <4>4. QED
        BY <1>0, <3>1, <4>2, <4>3 DEF CountOK
    <3>4. QED
      BY <2>26, <3>2, <3>3, Zenon DEF insert_claim
  <2>27. CASE insert_pass(t)
    BY <2>27, <1>0, <2>2, <2>6, ZenonT(30) DEF insert_pass, Advance, CountOK, TypeOK, Goto
  <2>28. CASE insert_place(t)
    <3>1. Live' <= Live + 1 /\ count' = count /\ count >= Live /\ pc'[t] = "wend" /\ op'[t] = "set"
      BY <2>28, <2>2, <2>7, ZenonT(30) DEF insert_place, CountOK, CallInv, CallOK, TypeOK, Goto
    <3>2. QED
      BY <1>0, <3>1 DEF CountOK
  <2>29. CASE insert_swap(t)
    <3>1. Live' <= Live + 1 /\ count' = count /\ count >= Live + 1 /\ pc'[t] = "insert"
      BY <2>29, <2>2, <2>7, ZenonT(30) DEF insert_swap, CountOK, TypeOK, Goto
    <3>2. QED
      BY <1>0, <3>1 DEF CountOK
  <2>30. CASE insert_drop(t)
    BY <2>30, <1>0, <2>2, <2>6 DEF insert_drop, CountOK, TypeOK, Goto
  <2>31. CASE flush_slot(t)
    <3>1. /\ pc[t] = "flush" /\ pc'[t] = "flush" /\ count' = count /\ count >= Live
          /\ it'[t] = it[t] + 1 /\ it[t] \in Nat /\ it[t] \in Slots /\ \A s \in LiveSlots : s >= it[t]
      BY <2>31, <2>2, SlotArithmetic, SMTT(30) DEF flush_slot, CountOK, TypeOK
    <3>2. CASE state[it[t]] = "LIVE"
      <4>1. it[t] \in LiveSlots /\ Bury(it[t])
        BY <2>31, <3>1, <3>2, Zenon DEF flush_slot, LiveSlots
      <4>2. Live' = Live - 1 /\ LiveSlots' = LiveSlots \ {it[t]}
        BY <2>5, <4>1, ZenonT(30)
      <4>3. \A s \in LiveSlots' : s >= it[t] + 1
        BY <3>1, <4>2 DEF LiveSlots, Slots
      <4>4. QED
        BY <1>0, <3>1, <4>2, <4>3 DEF CountOK
    <3>3. CASE state[it[t]] # "LIVE"
      <4>1. Live' = Live /\ LiveSlots' = LiveSlots
        BY <2>31, <2>6, <3>3, Zenon DEF flush_slot
      <4>2. \A s \in LiveSlots : s >= it[t] + 1
        BY <3>1, <3>3 DEF LiveSlots, Slots
      <4>3. QED
        BY <3>1, <4>1, <4>2, Zenon DEF CountOK
    <3>4. QED
      BY <3>2, <3>3, ZenonT(30)
  <2>32. CASE flush_count(t)
    <3>1. LiveSlots = {}
      BY <2>32, <2>2, CapAssumption DEF flush_count, CountOK, LiveSlots, Slots
    <3>2. Live' = 0
      BY <2>32, <2>6, <3>1, FS_EmptySet, Zenon DEF flush_count, Live
    <3>3. count' = 0 /\ pc'[t] = "wend" /\ op'[t] = "flush"
      BY <2>32, ZenonT(30) DEF flush_count, CallInv, CallOK, TypeOK, Goto
    <3>4. QED
      BY <3>2, <3>3 DEF CountOK
  <2>40. QED
    BY <1>2, <2>4, <2>21, <2>22, <2>23, <2>24, <2>25, <2>26, <2>27, <2>28, <2>29, <2>30, <2>31, <2>32, ZenonT(30)
    DEF WriteStep
<1>3. QED
  BY <1>1, <1>2, StepKinds, ZenonT(30)

\* CountInv holds in every reachable state.
LEMMA CountInvariant == Spec => []CountInv
<1>1. Init => CountInv
  <2> SUFFICES ASSUME Init PROVE CountInv
    OBVIOUS
  <2>1. LiveSlots = {}
    BY Zenon DEF Init, LiveSlots
  <2>2. Live = 0
    BY <2>1, FS_EmptySet, Zenon DEF Live
  <2>3. QED
    BY <2>2 DEF Init, CountInv, InWrite
<1>2. Base /\ Base' /\ CountInv /\ [Next]_vars => CountInv'
  <2> SUFFICES ASSUME Base, Base', CountInv, [Next]_vars PROVE CountInv'
    OBVIOUS
  <2>1. ASSUME UNCHANGED <<state, seq, count, pc, op, it>> PROVE CountInv'
    BY <2>1, Zenon DEF CountInv, CountOK, Live, LiveSlots, Quiet, InWrite
  <2>2. QED
    BY <2>1, CountStep, NextKinds, Zenon DEF Tick
<1>3. QED
  BY <1>1, <1>2, BaseInvariant, PTL DEF Spec

\* The atomic_fetch_sub calls on s->count never wrap it below zero: between
\* writers it is at least the number of live entries.
THEOREM CountCorrect == Spec => []CountCoversLive
<1>1. CountInv => CountCoversLive
  BY Zenon DEF CountInv, CountCoversLive, Live
<1>2. QED
  BY <1>1, CountInvariant, PTL
=============================================================================
