---------------------------- MODULE ShardProofs ----------------------------
(***************************************************************************)
(* Proofs about Shard for every number of threads, keys and slots: types,  *)
(* the lock, probe chains and the lock-free reads; then ownership of       *)
(* entries and of their storage: no value is in two places or released     *)
(* while in use, no key is in the table twice, and an insertion loses an   *)
(* entry only when every slot is live.                                     *)
(***************************************************************************)
EXTENDS Shard, TLAPS

USE DEF lock, table, store, env, args, carry, loop, read, vars

Step(t) == Caller(t) \/ Writer(t) \/ Reader(t)

-----------------------------------------------------------------------------
(* Facts about the helpers.                                                *)

\* Slot numbers stay in range: the increment wraps, and a home is a slot.
LEMMA SlotArithmetic ==
    /\ 0 \in Slots /\ 0 \in 0 .. Cap /\ 0 \in 0 .. Retries
    /\ \A s \in Slots : NextSlot(s) \in Slots
    /\ \A k \in Keys : Home[k] \in Slots
    /\ \A n \in 0 .. Cap : n < Cap => n \in Slots /\ n + 1 \in 0 .. Cap
  BY CapAssumption, HomeAssumption, BoundsAssumption DEF Slots, NextSlot

\* probe_dist numbers the slots of a probe sequence: the next slot is one
\* further from the home, until the sequence is back at the home.
LEMMA ProbeFacts ==
    ASSUME NEW h \in Slots, NEW r \in Slots, NEW s \in Slots
    PROVE  /\ probe_dist(h, s) \in 0 .. Cap - 1
           /\ probe_dist(h, h) = 0
           /\ probe_dist(h, r) = probe_dist(h, s) => r = s
           /\ probe_dist(h, s) + 1 < Cap => probe_dist(h, NextSlot(s)) = probe_dist(h, s) + 1
  BY CapAssumption DEF Slots, NextSlot, probe_dist

\* The fields of an entry, and the uint8 arithmetic of probe_dist.
LEMMA EntryFacts ==
    /\ Blank \in Entries
    /\ \A e \in Entries : e.val \in Nat /\ Release(e) \subseteq Nat
    /\ \A p \in 0 .. PdMod - 1 : IncPd(p) \in 0 .. PdMod - 1
    /\ 0 \in 0 .. PdMod - 1
  BY WidthAssumption DEF Blank, Entries, Release, IncPd

\* What vc_set builds is an entry.
LEMMA NewEntry ==
    ASSUME NEW k \in Keys, NEW v \in Nat, NEW ttl \in TTLs, NEW mem \in Tiers, NEW n \in Nat
    PROVE  [key |-> k, val |-> v + 1, mem |-> mem,
            exp |-> IF ttl = 0 THEN 0 ELSE n + ttl] \in Entries
  BY TTLAssumption, TierAssumption DEF Entries

\* The program points are members of PCs.
LEMMA Labels ==
    /\ "idle" \in PCs /\ "lock" \in PCs /\ "wbegin" \in PCs /\ "find" \in PCs /\ "evict" \in PCs
    /\ "insert" \in PCs /\ "place" \in PCs /\ "swap" \in PCs /\ "flush" \in PCs /\ "wend" \in PCs
    /\ "unlock" \in PCs /\ "gbegin" \in PCs /\ "gload" \in PCs /\ "gcmp" \in PCs /\ "gexp" \in PCs
    /\ "gsnap" \in PCs /\ "ghit" \in PCs /\ "gmiss" \in PCs /\ "gclk" \in PCs /\ "lfind" \in PCs
  BY Zenon DEF PCs

-----------------------------------------------------------------------------
(* Types.  TypeOK is not inductive: that Home is applied to a key, and that *)
(* the loop counters stay in range, follows from where in its call a thread *)
(* is.                                                                     *)

Scanning(t) == pc[t] \in {"gload", "gcmp", "gexp", "gsnap", "ghit", "gmiss"}

CallOK(t) ==
    /\ pc[t] \in {"gbegin", "gload", "gcmp", "gexp", "gsnap", "ghit", "gmiss", "gclk", "lfind"}
         => op[t] = "get"
    /\ pc[t] = "find" => op[t] \in {"set", "del"}
    /\ pc[t] \in {"evict", "insert", "place", "swap"} => op[t] = "set"
    /\ pc[t] = "flush" => op[t] = "flush"
    /\ pc[t] \in {"wbegin", "wend"} => op[t] \in {"set", "del", "flush"}
    /\ pc[t] = "lock" => op[t] # "none"
    /\ pc[t] # "idle" /\ op[t] \in {"set", "del", "get"} => key[t] \in Keys
    /\ pc[t] \in {"gcmp", "place", "swap"} => it[t] < Cap
    /\ pc[t] \in {"idle", "gbegin"} \/ Scanning(t) => retry[t] < Retries
    /\ pc[t] = "idle" \/ (op[t] = "flush" /\ pc[t] \in {"lock", "wbegin"}) => it[t] = 0
    /\ op[t] = "set" /\ pc[t] \in {"lock", "wbegin", "find", "evict"} => inc[t].key = key[t]

CallInv == \A t \in Threads : CallOK(t)

\* A thread's step leaves the local variables of the others alone.
LEMMA OthersUnchanged ==
    ASSUME TypeOK, NEW t \in Threads, Step(t), NEW u \in Threads, u # t
    PROVE  /\ pc'[u] = pc[u] /\ op'[u] = op[u] /\ key'[u] = key[u]
           /\ inc'[u] = inc[u] /\ ipd'[u] = ipd[u] /\ slot'[u] = slot[u] /\ it'[u] = it[u]
           /\ sq'[u] = sq[u] /\ retry'[u] = retry[u] /\ res'[u] = res[u]
<1> DEFINE P == /\ pc'[u] = pc[u] /\ op'[u] = op[u] /\ key'[u] = key[u]
                /\ inc'[u] = inc[u] /\ ipd'[u] = ipd[u] /\ slot'[u] = slot[u] /\ it'[u] = it[u]
                /\ sq'[u] = sq[u] /\ retry'[u] = retry[u] /\ res'[u] = res[u]
<1> USE DEF TypeOK, Goto
<1>1. ASSUME NEW k \in Keys, NEW ttl \in TTLs, NEW mem \in Tiers, vc_set(t, k, ttl, mem)
      PROVE  P
  BY <1>1, Zenon DEF vc_set, Call
<1>2. ASSUME NEW k \in Keys, vc_del(t, k)
      PROVE  P
  BY <1>2, Zenon DEF vc_del, Call
<1>3. ASSUME NEW k \in Keys, vc_get(t, k)
      PROVE  P
  BY <1>3, Zenon DEF vc_get, Call
<1>4. CASE vc_flush(t)
  BY <1>4, Zenon DEF vc_flush, Call
<1>5. CASE shard_lock(t)
  BY <1>5, Zenon DEF shard_lock
<1>6. CASE seq_write_begin(t)
  BY <1>6, Zenon DEF seq_write_begin
<1>7. CASE seq_write_end(t)
  BY <1>7, Zenon DEF seq_write_end
<1>8. CASE shard_unlock(t)
  BY <1>8, Zenon DEF shard_unlock, Return
<1>9. CASE remove_found(t)
  BY <1>9, ZenonT(30) DEF remove_found, Bury, AfterLookup, StartInsert
<1>10. CASE remove_notfound(t)
  BY <1>10, Zenon DEF remove_notfound, AfterLookup, StartInsert
<1>11. CASE evict_pass(t)
  BY <1>11, Zenon DEF evict_pass
<1>12. CASE evict_take(t)
  BY <1>12, Zenon DEF evict_take, Bury, StartInsert
<1>13. CASE evict_none(t)
  BY <1>13, Zenon DEF evict_none, StartInsert
<1>14. CASE insert_claim(t)
  BY <1>14, Zenon DEF insert_claim
<1>15. CASE insert_pass(t)
  BY <1>15, Zenon DEF insert_pass, Advance
<1>16. CASE insert_place(t)
  BY <1>16, Zenon DEF insert_place, Store
<1>17. CASE insert_swap(t)
  BY <1>17, Zenon DEF insert_swap, Store, Advance
<1>18. CASE insert_drop(t)
  BY <1>18, Zenon DEF insert_drop
<1>19. CASE flush_slot(t)
  BY <1>19, Zenon DEF flush_slot, Bury
<1>20. CASE flush_count(t)
  BY <1>20, Zenon DEF flush_count
<1>21. CASE seq_read_begin(t)
  BY <1>21, Zenon DEF seq_read_begin
<1>22. CASE find_load(t)
  BY <1>22, Zenon DEF find_load
<1>23. CASE find_compare(t)
  BY <1>23, Zenon DEF find_compare
<1>24. CASE find_expiry(t)
  BY <1>24, Zenon DEF find_expiry
<1>25. CASE get_snapshot(t)
  BY <1>25, Zenon DEF get_snapshot
<1>26. CASE validate_hit(t)
  BY <1>26, Zenon DEF validate_hit
<1>27. CASE validate_miss(t)
  BY <1>27, Zenon DEF validate_miss, Return
<1>28. CASE validate_fail(t)
  BY <1>28, Zenon DEF validate_fail
<1>29. CASE get_reference(t)
  BY <1>29, Zenon DEF get_reference, Return
<1>30. CASE locked_hit(t)
  BY <1>30, ZenonT(30) DEF locked_hit
<1>31. CASE locked_miss(t)
  BY <1>31, Zenon DEF locked_miss
<1>40. QED
  BY <1>1, <1>2, <1>3, <1>4, <1>5, <1>6, <1>7, <1>8, <1>9, <1>10, <1>11, <1>12, <1>13, <1>14,
     <1>15, <1>16, <1>17, <1>18, <1>19, <1>20, <1>21, <1>22, <1>23, <1>24, <1>25, <1>26,
     <1>27, <1>28, <1>29, <1>30, <1>31, ZenonT(30)
  DEF Step, Caller, Writer, Reader

\* What AfterLookup assigns has its type.
LEMMA AfterLookupType ==
    ASSUME TypeOK, NEW t \in Threads, Home[key[t]] \in Slots, NEW c \in Int, AfterLookup(t, c)
    PROVE  /\ count' \in Int /\ slot' \in [Threads -> Slots] /\ it' \in [Threads -> 0 .. Cap]
           /\ ipd' \in [Threads -> 0 .. PdMod - 1] /\ pc' \in [Threads -> PCs]
<1> USE Labels, EntryFacts, SlotArithmetic DEF TypeOK, Goto
<1>1. CASE op[t] = "del" /\ Goto(t, "wend") /\ UNCHANGED <<slot, it, ipd>>
  BY <1>1, Zenon DEF AfterLookup
<1>2. CASE /\ op[t] = "set" /\ Overfull(c) /\ Goto(t, "evict")
           /\ slot' = [slot EXCEPT ![t] = clock_hand]
           /\ it' = [it EXCEPT ![t] = 0]
           /\ UNCHANGED ipd
  BY <1>2, Zenon DEF AfterLookup
<1>3. CASE op[t] = "set" /\ ~Overfull(c) /\ StartInsert(t)
  BY <1>3, Zenon DEF AfterLookup, StartInsert
<1>4. QED
  BY <1>1, <1>2, <1>3, Zenon DEF AfterLookup

\* vc_create leaves every variable with its type.
LEMMA TypeInit == Init => TypeOK
  BY EntryFacts, SlotArithmetic
  DEF Init, TypeOK, PCs, States, NotFound

\* Every step of a thread keeps every variable's type.
LEMMA TypeStep ==
    ASSUME TypeOK, CallInv, NEW t \in Threads, Step(t)
    PROVE  TypeOK'
<1> USE Labels, EntryFacts DEF TypeOK, Goto, NotFound
<1>a. 0 \in 0 .. Cap /\ 0 \in 0 .. Retries
  BY SlotArithmetic, Zenon
<1>b. pc[t] \in {"find", "evict", "gbegin"} => Home[key[t]] \in Slots
  BY SlotArithmetic, Zenon DEF CallInv, CallOK
<1>c. pc[t] \in {"gcmp", "swap"} => it[t] < Cap
  BY Zenon DEF CallInv, CallOK
<1>d. pc[t] \in {"ghit", "gmiss"} => retry[t] + 1 \in 0 .. Retries
  BY BoundsAssumption DEF CallInv, CallOK, Scanning
<1>e. NextSlot(slot[t]) \in Slots /\ ent[slot[t]] \in Entries /\ pd[slot[t]] \in 0 .. PdMod - 1
  BY SlotArithmetic, Zenon
<1>f. it[t] < Cap => it[t] \in Slots /\ it[t] + 1 \in 0 .. Cap
  BY SlotArithmetic, Zenon
<1> USE <1>a, <1>b, <1>c, <1>d, <1>e, <1>f
<1>1. ASSUME NEW k \in Keys, NEW ttl \in TTLs, NEW mem \in Tiers, vc_set(t, k, ttl, mem)
      PROVE  TypeOK'
  <2>1. [key |-> k, val |-> calls + 1, mem |-> mem,
         exp |-> IF ttl = 0 THEN 0 ELSE now + ttl] \in Entries
    BY NewEntry, Zenon
  <2>2. QED
    BY <1>1, <2>1, Zenon DEF vc_set, Call
<1>2. ASSUME NEW k \in Keys, vc_del(t, k)
      PROVE  TypeOK'
  BY <1>2 DEF vc_del, Call
<1>3. ASSUME NEW k \in Keys, vc_get(t, k)
      PROVE  TypeOK'
  BY <1>3 DEF vc_get, Call
<1>4. CASE vc_flush(t)
  BY <1>4 DEF vc_flush, Call
<1>5. CASE shard_lock(t)
  BY <1>5, Zenon DEF shard_lock
<1>6. CASE seq_write_begin(t)
  BY <1>6 DEF seq_write_begin
<1>7. CASE seq_write_end(t)
  BY <1>7 DEF seq_write_end
<1>8. CASE shard_unlock(t)
  BY <1>8, Zenon DEF shard_unlock, Return
<1>9. CASE remove_found(t)
  <2>1. PICK s \in Slots : Bury(s)
    BY <1>9, Zenon DEF remove_found
  <2>2. state' \in [Slots -> States] /\ freed' \subseteq Nat /\ UNCHANGED <<ent, pd, clk>>
    BY <2>1, Zenon DEF Bury, States
  <2>3. QED
    BY <1>9, <2>2, AfterLookupType, SMTT(30) DEF remove_found, AfterLookup
<1>10. CASE remove_notfound(t)
  BY <1>10, AfterLookupType, Zenon DEF remove_notfound, AfterLookup
<1>11. CASE evict_pass(t)
  BY <1>11, Zenon DEF evict_pass
<1>12. CASE evict_take(t)
  <2>1. state' \in [Slots -> States] /\ freed' \subseteq Nat
    BY <1>12, Zenon DEF evict_take, Bury, States
  <2>2. slot' \in [Threads -> Slots] /\ clock_hand' \in Slots
    BY <1>12, Zenon DEF evict_take, StartInsert
  <2>3. QED
    BY <1>12, <2>1, <2>2 DEF evict_take, Bury, StartInsert
<1>13. CASE evict_none(t)
  BY <1>13, Zenon DEF evict_none, StartInsert
<1>14. CASE insert_claim(t)
  BY <1>14 DEF insert_claim, States
<1>15. CASE insert_pass(t)
  BY <1>15, Zenon DEF insert_pass, Advance
<1>16. CASE insert_place(t)
  BY <1>16, Zenon DEF insert_place, Store, States
<1>17. CASE insert_swap(t)
  <2>1. state' \in [Slots -> States] /\ ent' \in [Slots -> Entries]
    BY <1>17, Zenon DEF insert_swap, Store, States
  <2>2. pd' \in [Slots -> 0 .. PdMod - 1] /\ clk' \in [Slots -> {0, 1}]
    BY <1>17, Zenon DEF insert_swap, Store
  <2>3. inc' \in [Threads -> Entries] /\ ipd' \in [Threads -> 0 .. PdMod - 1]
    BY <1>17, Zenon DEF insert_swap, Advance
  <2>4. slot' \in [Threads -> Slots] /\ it' \in [Threads -> 0 .. Cap] /\ pc' \in [Threads -> PCs]
    BY <1>17, Zenon DEF insert_swap, Advance
  <2>5. QED
    BY <1>17, <2>1, <2>2, <2>3, <2>4, Zenon DEF insert_swap
<1>18. CASE insert_drop(t)
  BY <1>18, Zenon DEF insert_drop
<1>19. CASE flush_slot(t)
  BY <1>19, Zenon DEF flush_slot, Bury, States
<1>20. CASE flush_count(t)
  BY <1>20 DEF flush_count
<1>21. CASE seq_read_begin(t)
  BY <1>21, Zenon DEF seq_read_begin
<1>22. CASE find_load(t)
  <2>1. slot' \in [Threads -> Slots]
    BY <1>22, Zenon DEF find_load
  <2>2. it' \in [Threads -> 0 .. Cap]
    BY <1>22, Zenon DEF find_load
  <2>3. pc' \in [Threads -> PCs]
    BY <1>22, Zenon DEF find_load
  <2>4. QED
    BY <1>22, <2>1, <2>2, <2>3, Zenon DEF find_load
<1>23. CASE find_compare(t)
  <2>1. slot' \in [Threads -> Slots]
    BY <1>23, Zenon DEF find_compare
  <2>2. it' \in [Threads -> 0 .. Cap]
    BY <1>23, Zenon DEF find_compare
  <2>3. pc' \in [Threads -> PCs]
    BY <1>23, Zenon DEF find_compare
  <2>4. QED
    BY <1>23, <2>1, <2>2, <2>3, Zenon DEF find_compare
<1>24. CASE find_expiry(t)
  BY <1>24, ZenonT(30) DEF find_expiry
<1>25. CASE get_snapshot(t)
  <2>1. res' \in [Threads -> Nat \cup {Torn}]
    BY <1>25, ZenonT(30) DEF get_snapshot
  <2>2. pc' \in [Threads -> PCs]
    BY <1>25, Zenon DEF get_snapshot
  <2>3. QED
    BY <1>25, <2>1, <2>2, Zenon DEF get_snapshot
<1>26. CASE validate_hit(t)
  BY <1>26, Zenon DEF validate_hit
<1>27. CASE validate_miss(t)
  BY <1>27, Zenon DEF validate_miss, Return
<1>28. CASE validate_fail(t)
  BY <1>28, Zenon DEF validate_fail
<1>29. CASE get_reference(t)
  BY <1>29, Zenon DEF get_reference, Return
<1>30. CASE locked_hit(t)
  BY <1>30 DEF locked_hit
<1>31. CASE locked_miss(t)
  BY <1>31, Zenon DEF locked_miss
<1>40. QED
  BY <1>1, <1>2, <1>3, <1>4, <1>5, <1>6, <1>7, <1>8, <1>9, <1>10, <1>11, <1>12, <1>13, <1>14,
     <1>15, <1>16, <1>17, <1>18, <1>19, <1>20, <1>21, <1>22, <1>23, <1>24, <1>25, <1>26,
     <1>27, <1>28, <1>29, <1>30, <1>31, ZenonT(30)
  DEF Step, Caller, Writer, Reader

\* Every step keeps CallInv: what a thread's local variables are worth at each
\* point of vc_set, vc_del, vc_flush and vc_get.
LEMMA CallStep ==
    ASSUME TypeOK, TypeOK', CallInv, NEW t \in Threads, Step(t)
    PROVE  CallInv'
<1>a. SUFFICES CallOK(t)'
  <2>1. ASSUME NEW u \in Threads, u # t PROVE CallOK(u)'
    BY <2>1, OthersUnchanged DEF CallInv, CallOK, Scanning
  <2>2. QED
    BY <2>1, Zenon DEF CallInv
<1>b. CallOK(t)
  BY Zenon DEF CallInv
<1> USE <1>b, CapAssumption, BoundsAssumption DEF TypeOK, CallOK, Scanning, Goto
<1>1. ASSUME NEW k \in Keys, NEW ttl \in TTLs, NEW mem \in Tiers, vc_set(t, k, ttl, mem)
      PROVE  CallOK(t)'
  BY <1>1, Zenon DEF vc_set, Call
<1>2. ASSUME NEW k \in Keys, vc_del(t, k)
      PROVE  CallOK(t)'
  BY <1>2, Zenon DEF vc_del, Call
<1>3. ASSUME NEW k \in Keys, vc_get(t, k)
      PROVE  CallOK(t)'
  BY <1>3, Zenon DEF vc_get, Call
<1>4. CASE vc_flush(t)
  BY <1>4, Zenon DEF vc_flush, Call
<1>5. CASE shard_lock(t)
  BY <1>5, Zenon DEF shard_lock
<1>6. CASE seq_write_begin(t)
  BY <1>6, Zenon DEF seq_write_begin
<1>7. CASE seq_write_end(t)
  BY <1>7, Zenon DEF seq_write_end
<1>8. CASE shard_unlock(t)
  BY <1>8 DEF shard_unlock, Return
<1>9. CASE remove_found(t)
  BY <1>9 DEF remove_found, Bury, AfterLookup, StartInsert
<1>10. CASE remove_notfound(t)
  BY <1>10, ZenonT(30) DEF remove_notfound, AfterLookup, StartInsert
<1>11. CASE evict_pass(t)
  BY <1>11, Zenon DEF evict_pass
<1>12. CASE evict_take(t)
  BY <1>12, ZenonT(30) DEF evict_take, Bury, StartInsert
<1>13. CASE evict_none(t)
  BY <1>13, Zenon DEF evict_none, StartInsert
<1>14. CASE insert_claim(t)
  BY <1>14, ZenonT(30) DEF insert_claim
<1>15. CASE insert_pass(t)
  BY <1>15, Zenon DEF insert_pass, Advance
<1>16. CASE insert_place(t)
  BY <1>16, ZenonT(30) DEF insert_place, Store
<1>17. CASE insert_swap(t)
  BY <1>17, ZenonT(30) DEF insert_swap, Store, Advance
<1>18. CASE insert_drop(t)
  BY <1>18, Zenon DEF insert_drop
<1>19. CASE flush_slot(t)
  BY <1>19, Zenon DEF flush_slot, Bury
<1>20. CASE flush_count(t)
  BY <1>20, Zenon DEF flush_count
<1>21. CASE seq_read_begin(t)
  BY <1>21, Zenon DEF seq_read_begin
<1>22. CASE find_load(t)
  BY <1>22, ZenonT(30) DEF find_load
<1>23. CASE find_compare(t)
  BY <1>23, ZenonT(30) DEF find_compare
<1>24. CASE find_expiry(t)
  BY <1>24, ZenonT(30) DEF find_expiry
<1>25. CASE get_snapshot(t)
  BY <1>25, ZenonT(30) DEF get_snapshot
<1>26. CASE validate_hit(t)
  BY <1>26, Zenon DEF validate_hit
<1>27. CASE validate_miss(t)
  BY <1>27 DEF validate_miss, Return
<1>28. CASE validate_fail(t)
  BY <1>28 DEF validate_fail
<1>29. CASE get_reference(t)
  BY <1>29 DEF get_reference, Return
<1>30. CASE locked_hit(t)
  BY <1>30, Zenon DEF locked_hit
<1>31. CASE locked_miss(t)
  BY <1>31, Zenon DEF locked_miss
<1>40. QED
  BY <1>a, <1>1, <1>2, <1>3, <1>4, <1>5, <1>6, <1>7, <1>8, <1>9, <1>10, <1>11, <1>12, <1>13, <1>14,
     <1>15, <1>16, <1>17, <1>18, <1>19, <1>20, <1>21, <1>22, <1>23, <1>24, <1>25, <1>26,
     <1>27, <1>28, <1>29, <1>30, <1>31, ZenonT(30)
  DEF Step, Caller, Writer, Reader

-----------------------------------------------------------------------------
(* Mutual exclusion, and the parity of seq.                                *)

\* The two increments of seq alternate between even and odd.
LEMMA Parity == \A n \in Nat : (n + 1) % 2 = 0 <=> n % 2 # 0
  OBVIOUS

\* The five ways a step can concern wlock and seq: not at all, shard_lock,
\* seq_write_begin, seq_write_end, shard_unlock.
LEMMA LockTransitions ==
    ASSUME TypeOK, CallInv, NEW t \in Threads, Step(t)
    PROVE  \/ (HasLock(t)' <=> HasLock(t)) /\ (InWrite(t)' <=> InWrite(t)) /\ UNCHANGED lock
           \/ ~HasLock(t) /\ HasLock(t)' /\ ~InWrite(t)' /\ wlock = 0 /\ wlock' = 1 /\ seq' = seq
           \/ HasLock(t) /\ ~InWrite(t) /\ InWrite(t)' /\ wlock' = wlock /\ seq' = seq + 1
           \/ InWrite(t) /\ ~InWrite(t)' /\ HasLock(t)' /\ wlock' = wlock /\ seq' = seq + 1
           \/ HasLock(t) /\ ~InWrite(t) /\ ~HasLock(t)' /\ wlock' = 0 /\ seq' = seq
<1> DEFINE P ==
           \/ (HasLock(t)' <=> HasLock(t)) /\ (InWrite(t)' <=> InWrite(t)) /\ UNCHANGED lock
           \/ ~HasLock(t) /\ HasLock(t)' /\ ~InWrite(t)' /\ wlock = 0 /\ wlock' = 1 /\ seq' = seq
           \/ HasLock(t) /\ ~InWrite(t) /\ InWrite(t)' /\ wlock' = wlock /\ seq' = seq + 1
           \/ InWrite(t) /\ ~InWrite(t)' /\ HasLock(t)' /\ wlock' = wlock /\ seq' = seq + 1
           \/ HasLock(t) /\ ~InWrite(t) /\ ~HasLock(t)' /\ wlock' = 0 /\ seq' = seq
<1> USE DEF TypeOK, HasLock, InWrite, Goto
<1>1. ASSUME NEW k \in Keys, NEW ttl \in TTLs, NEW mem \in Tiers, vc_set(t, k, ttl, mem)
      PROVE  P
  BY <1>1, Zenon DEF vc_set, Call
<1>2. ASSUME NEW k \in Keys, vc_del(t, k)
      PROVE  P
  BY <1>2, Zenon DEF vc_del, Call
<1>3. ASSUME NEW k \in Keys, vc_get(t, k)
      PROVE  P
  BY <1>3, Zenon DEF vc_get, Call
<1>4. CASE vc_flush(t)
  BY <1>4, Zenon DEF vc_flush, Call
<1>5. CASE shard_lock(t)
  BY <1>5, Zenon DEF shard_lock
<1>6. CASE seq_write_begin(t)
  BY <1>6, Zenon DEF seq_write_begin
<1>7. CASE seq_write_end(t)
  BY <1>7, Zenon DEF seq_write_end
<1>8. CASE shard_unlock(t)
  BY <1>8, Zenon DEF shard_unlock, Return
<1>9. CASE remove_found(t)
  BY <1>9, ZenonT(30) DEF remove_found, Bury, AfterLookup, StartInsert
<1>10. CASE remove_notfound(t)
  BY <1>10, Zenon DEF remove_notfound, AfterLookup, StartInsert
<1>11. CASE evict_pass(t)
  BY <1>11, Zenon DEF evict_pass
<1>12. CASE evict_take(t)
  BY <1>12, Zenon DEF evict_take, Bury, StartInsert
<1>13. CASE evict_none(t)
  BY <1>13, Zenon DEF evict_none, StartInsert
<1>14. CASE insert_claim(t)
  BY <1>14, Zenon DEF insert_claim
<1>15. CASE insert_pass(t)
  BY <1>15, Zenon DEF insert_pass, Advance
<1>16. CASE insert_place(t)
  BY <1>16, Zenon DEF insert_place, Store
<1>17. CASE insert_swap(t)
  BY <1>17, Zenon DEF insert_swap, Store, Advance
<1>18. CASE insert_drop(t)
  BY <1>18, Zenon DEF insert_drop
<1>19. CASE flush_slot(t)
  BY <1>19, Zenon DEF flush_slot, Bury
<1>20. CASE flush_count(t)
  BY <1>20, Zenon DEF flush_count
<1>21. CASE seq_read_begin(t)
  BY <1>21, Zenon DEF seq_read_begin
<1>22. CASE find_load(t)
  BY <1>22, Zenon DEF find_load
<1>23. CASE find_compare(t)
  BY <1>23, Zenon DEF find_compare
<1>24. CASE find_expiry(t)
  BY <1>24, Zenon DEF find_expiry
<1>25. CASE get_snapshot(t)
  BY <1>25, Zenon DEF get_snapshot
<1>26. CASE validate_hit(t)
  BY <1>26, Zenon DEF validate_hit
<1>27. CASE validate_miss(t)
  BY <1>27, Zenon DEF validate_miss, Return
<1>28. CASE validate_fail(t)
  BY <1>28, Zenon DEF validate_fail
<1>29. CASE get_reference(t)
  BY <1>29, Zenon DEF get_reference, Return
<1>30. CASE locked_hit(t)
  BY <1>30, Zenon DEF locked_hit
<1>31. CASE locked_miss(t)
  BY <1>31, Zenon DEF locked_miss
<1>40. QED
  BY <1>1, <1>2, <1>3, <1>4, <1>5, <1>6, <1>7, <1>8, <1>9, <1>10, <1>11, <1>12, <1>13, <1>14,
     <1>15, <1>16, <1>17, <1>18, <1>19, <1>20, <1>21, <1>22, <1>23, <1>24, <1>25, <1>26,
     <1>27, <1>28, <1>29, <1>30, <1>31, ZenonT(30)
  DEF Step, Caller, Writer, Reader

\* Every step keeps WriterExclusion: wlock and seq change only where a thread
\* enters or leaves its section.
LEMMA ExclusionStep ==
    ASSUME TypeOK, CallInv, WriterExclusion, NEW t \in Threads, Step(t)
    PROVE  WriterExclusion'
<1>1. ASSUME NEW u \in Threads, u # t
      PROVE  (HasLock(u)' <=> HasLock(u)) /\ (InWrite(u)' <=> InWrite(u))
  BY <1>1, OthersUnchanged, Zenon DEF HasLock, InWrite
<1>2. \A u \in Threads : (InWrite(u) => HasLock(u)) /\ (InWrite(u)' => HasLock(u)')
  BY Zenon DEF HasLock
<1>3. seq \in Nat
  BY Zenon DEF TypeOK
<1> HIDE DEF HasLock, InWrite
<1>4. CASE (HasLock(t)' <=> HasLock(t)) /\ (InWrite(t)' <=> InWrite(t)) /\ UNCHANGED lock
  BY <1>1, <1>4, Zenon DEF WriterExclusion, Quiet
<1>5. CASE ~HasLock(t) /\ HasLock(t)' /\ ~InWrite(t)' /\ wlock = 0 /\ wlock' = 1 /\ seq' = seq
  BY <1>1, <1>2, <1>5 DEF WriterExclusion, Quiet
<1>6. CASE HasLock(t) /\ ~InWrite(t) /\ InWrite(t)' /\ wlock' = wlock /\ seq' = seq + 1
  BY <1>1, <1>2, <1>3, <1>6, Parity, Zenon DEF WriterExclusion, Quiet
<1>7. CASE InWrite(t) /\ ~InWrite(t)' /\ HasLock(t)' /\ wlock' = wlock /\ seq' = seq + 1
  BY <1>1, <1>2, <1>3, <1>7, Parity, Zenon DEF WriterExclusion, Quiet
<1>8. CASE HasLock(t) /\ ~InWrite(t) /\ ~HasLock(t)' /\ wlock' = 0 /\ seq' = seq
  BY <1>1, <1>2, <1>8 DEF WriterExclusion, Quiet
<1>9. QED
  BY <1>4, <1>5, <1>6, <1>7, <1>8, LockTransitions, Zenon

-----------------------------------------------------------------------------
(* What steps do to the table.                                             *)

\* The steps of a thread between seq_write_begin and seq_write_end.
WriteStep(t) ==
    \/ seq_write_end(t) \/ remove_found(t) \/ remove_notfound(t)
    \/ evict_pass(t) \/ evict_take(t) \/ evict_none(t)
    \/ insert_claim(t) \/ insert_pass(t) \/ insert_place(t) \/ insert_swap(t) \/ insert_drop(t)
    \/ flush_slot(t) \/ flush_count(t)

\* Any other step leaves the table alone but for the reference bits, and its
\* thread does not get past the start of a write section.
QuietStep(t) ==
    /\ ~InWrite(t)
    /\ UNCHANGED <<state, ent, pd, count, clock_hand, freed, now>>
    /\ pc'[t] \notin {"evict", "insert", "place", "swap", "wend"}

\* Every step either leaves the slots alone or is made by the one writer inside
\* its section.
LEMMA StepKinds ==
    ASSUME TypeOK, NEW t \in Threads, Step(t)
    PROVE  (InWrite(t) /\ WriteStep(t)) \/ QuietStep(t)
<1> USE DEF TypeOK, InWrite, QuietStep, Goto
<1>1. ASSUME NEW k \in Keys, NEW ttl \in TTLs, NEW mem \in Tiers, vc_set(t, k, ttl, mem)
      PROVE  QuietStep(t)
  BY <1>1, Zenon DEF vc_set, Call
<1>2. ASSUME NEW k \in Keys, vc_del(t, k)
      PROVE  QuietStep(t)
  BY <1>2, Zenon DEF vc_del, Call
<1>3. ASSUME NEW k \in Keys, vc_get(t, k)
      PROVE  QuietStep(t)
  BY <1>3, Zenon DEF vc_get, Call
<1>4. CASE vc_flush(t)
  BY <1>4, Zenon DEF vc_flush, Call
<1>5. CASE shard_lock(t)
  BY <1>5, Zenon DEF shard_lock
<1>6. CASE seq_write_begin(t)
  BY <1>6, Zenon DEF seq_write_begin
<1>7. CASE shard_unlock(t)
  BY <1>7, Zenon DEF shard_unlock, Return
<1>8. CASE seq_read_begin(t)
  BY <1>8, Zenon DEF seq_read_begin
<1>9. CASE find_load(t)
  BY <1>9, Zenon DEF find_load
<1>10. CASE find_compare(t)
  BY <1>10, Zenon DEF find_compare
<1>11. CASE find_expiry(t)
  BY <1>11, Zenon DEF find_expiry
<1>12. CASE get_snapshot(t)
  BY <1>12, Zenon DEF get_snapshot
<1>13. CASE validate_hit(t)
  BY <1>13, Zenon DEF validate_hit
<1>14. CASE validate_miss(t)
  BY <1>14, Zenon DEF validate_miss, Return
<1>15. CASE validate_fail(t)
  BY <1>15, Zenon DEF validate_fail
<1>16. CASE get_reference(t)
  BY <1>16, Zenon DEF get_reference, Return
<1>17. CASE locked_hit(t)
  BY <1>17, Zenon DEF locked_hit
<1>18. CASE locked_miss(t)
  BY <1>18, Zenon DEF locked_miss
<1>30. CASE WriteStep(t)
  BY <1>30, Zenon DEF WriteStep, seq_write_end, remove_found, remove_notfound, evict_pass, evict_take,
     evict_none, insert_claim, insert_pass, insert_place, insert_swap, insert_drop, flush_slot,
     flush_count
<1>40. QED
  BY <1>30, <1>1, <1>2, <1>3, <1>4, <1>5, <1>6, <1>7, <1>8, <1>9, <1>10, <1>11, <1>12, <1>13, <1>14,
     <1>15, <1>16, <1>17, <1>18, Zenon
  DEF Step, Caller, Writer, Reader, WriteStep

\* No step makes a slot EMPTY again.
LEMMA NoNewEmpty ==
    ASSUME TypeOK, NEW t \in Threads, Step(t), NEW s \in Slots, state'[s] = "EMPTY"
    PROVE  state[s] = "EMPTY"
<1>1. CASE QuietStep(t)
  BY <1>1, Zenon DEF QuietStep
<1>2. CASE WriteStep(t)
  BY <1>2, Zenon DEF WriteStep, TypeOK, seq_write_end, remove_found, remove_notfound, evict_pass, evict_take,
     evict_none, insert_claim, insert_pass, insert_place, insert_swap, insert_drop, flush_slot,
     flush_count, Bury, Store
<1>3. QED
  BY <1>1, <1>2, StepKinds, Zenon

-----------------------------------------------------------------------------
(* Probe chains.  ProbeChain alone is not inductive: the entry an insertion *)
(* carries, and the one it is about to displace, need their chains too.    *)

Inserting(t) == pc[t] \in {"insert", "place", "swap"}

\* No slot of k's probe sequence before s is EMPTY.
Chained(k, s) ==
    \A j \in Slots : probe_dist(Home[k], j) < probe_dist(Home[k], s) => state[j] # "EMPTY"

LiveChained == \A s \in LiveSlots : ent[s].key \in Keys /\ Chained(ent[s].key, s)

CarryChained(t) ==
    /\ Inserting(t) => inc[t].key \in Keys /\ Chained(inc[t].key, slot[t])
    /\ pc[t] = "swap" =>
         /\ state[slot[t]] = "BUSY"
         /\ ent[slot[t]].key \in Keys /\ Chained(ent[slot[t]].key, slot[t])

ChainInv == LiveChained /\ \A t \in Threads : CarryChained(t)

\* The slots before the next slot are those before s, and s.
LEMMA ProbeSuccessor ==
    ASSUME NEW h \in Slots, NEW s \in Slots, NEW j \in Slots,
           probe_dist(h, j) < probe_dist(h, NextSlot(s))
    PROVE  j = s \/ probe_dist(h, j) < probe_dist(h, s)
  BY CapAssumption DEF Slots, NextSlot, probe_dist

\* A home is the first slot of its probe sequence.
LEMMA ProbeHome ==
    ASSUME NEW h \in Slots, NEW j \in Slots
    PROVE  ~(probe_dist(h, j) < probe_dist(h, h))
  BY CapAssumption DEF Slots, probe_dist

\* Store makes its slot live with the incoming entry, and writes to no other.
LEMMA StoreSlots ==
    ASSUME TypeOK, NEW t \in Threads, Store(t)
    PROVE  /\ LiveSlots' = LiveSlots \cup {slot[t]} /\ slot[t] \in Slots
           /\ state'[slot[t]] = "LIVE" /\ ent'[slot[t]] = inc[t]
           /\ \A s \in Slots : s # slot[t] => ent'[s] = ent[s]
<1>1. slot[t] \in Slots
  BY Zenon DEF TypeOK
<1>2. state'[slot[t]] = "LIVE" /\ \A s \in Slots : s # slot[t] => state'[s] = state[s]
  BY <1>1, Zenon DEF Store, TypeOK
<1>3. ent'[slot[t]] = inc[t] /\ \A s \in Slots : s # slot[t] => ent'[s] = ent[s]
  BY <1>1, Zenon DEF Store, TypeOK
<1>4. LiveSlots' = LiveSlots \cup {slot[t]}
  BY <1>1, <1>2, Zenon DEF LiveSlots
<1>5. QED
  BY <1>1, <1>2, <1>3, <1>4, Zenon

\* Every step keeps ChainInv: a slot that held something is never EMPTY again,
\* and the entry _shard_insert carries has passed no EMPTY slot since its home.
LEMMA ChainStep ==
    ASSUME TypeOK, TypeOK', CallInv, WriterExclusion, ChainInv, NEW t \in Threads, Step(t)
    PROVE  ChainInv'
<1> USE DEF ChainInv
<1>1. ASSUME NEW k \in Keys, NEW s \in Slots, Chained(k, s)
      PROVE  Chained(k, s)'
  BY <1>1, NoNewEmpty, Zenon DEF Chained
<1>2. ASSUME NEW k \in Keys, NEW s \in Slots, Chained(k, s), state'[s] # "EMPTY"
      PROVE  Chained(k, NextSlot(s))'
  BY <1>1, <1>2, ProbeSuccessor, SlotArithmetic, Zenon DEF Chained
<1>3. ASSUME NEW k \in Keys
      PROVE  Chained(k, Home[k])'
  BY ProbeHome, SlotArithmetic, Zenon DEF Chained
<1>4. CASE QuietStep(t)
  <2>1. LiveChained'
    BY <1>1, <1>4, Zenon DEF QuietStep, LiveChained, LiveSlots
  <2>2. CarryChained(t)'
    BY <1>4, Zenon DEF QuietStep, CarryChained, Inserting
  <2>3. ASSUME NEW u \in Threads, u # t PROVE CarryChained(u)'
    BY <1>1, <1>4, <2>3, OthersUnchanged DEF QuietStep, CarryChained, Inserting, TypeOK
  <2>4. QED
    BY <2>1, <2>2, <2>3, Zenon
<1>5. CASE InWrite(t) /\ WriteStep(t)
  <2>1. ASSUME NEW u \in Threads, u # t PROVE CarryChained(u)'
    <3>1. ~HasLock(u)
      BY <1>5, <2>1, Zenon DEF WriterExclusion, HasLock
    <3>2. pc'[u] = pc[u]
      BY <2>1, OthersUnchanged, Zenon
    <3>3. QED
      BY <3>1, <3>2, Zenon DEF HasLock, InWrite, CarryChained, Inserting
  <2>2. SUFFICES LiveChained' /\ CarryChained(t)'
    BY <2>1, Zenon
  <2>3. CarryChained(t) /\ slot[t] \in Slots
    BY Zenon DEF TypeOK
  <2>4. pc[t] \in {"find", "evict"} /\ op[t] = "set" => key[t] \in Keys /\ inc[t].key = key[t]
    BY Zenon DEF CallInv, CallOK
  <2>5. pc[t] = "evict" => op[t] = "set"
    BY Zenon DEF CallInv, CallOK
  <2>11. CASE seq_write_end(t)
    BY <2>11, <1>1, <1>2, <1>3, <2>3, ZenonT(30) DEF seq_write_end, LiveChained, LiveSlots, CarryChained, Inserting, TypeOK, Goto
  <2>12. CASE remove_found(t)
    <3>1. PICK s \in Slots : Bury(s)
      BY <2>12, Zenon DEF remove_found
    <3>2. ent' = ent /\ \A r \in LiveSlots' : r \in LiveSlots
      BY <3>1, Zenon DEF Bury, LiveSlots, TypeOK
    <3>3. LiveChained'
      BY <1>1, <3>2, Zenon DEF LiveChained, LiveSlots
    <3>4. /\ pc[t] = "find" /\ inc' = inc /\ pc'[t] \in {"wend", "evict", "insert"}
          /\ pc'[t] = "insert" => op[t] = "set" /\ slot'[t] = Home[key[t]]
      BY <2>12, Zenon DEF remove_found, AfterLookup, StartInsert, TypeOK, Goto
    <3>5. CarryChained(t)'
      BY <1>3, <2>4, <3>4, Zenon DEF CarryChained, Inserting
    <3>6. QED
      BY <3>3, <3>5, Zenon
  <2>13. CASE remove_notfound(t)
    <3>1. LiveChained'
      BY <1>1, <2>13, Zenon DEF remove_notfound, LiveChained, LiveSlots
    <3>2. /\ pc[t] = "find" /\ inc' = inc /\ pc'[t] \in {"wend", "evict", "insert"}
          /\ pc'[t] = "insert" => op[t] = "set" /\ slot'[t] = Home[key[t]]
      BY <2>13, Zenon DEF remove_notfound, AfterLookup, StartInsert, TypeOK, Goto
    <3>3. CarryChained(t)'
      BY <1>3, <2>4, <3>2, Zenon DEF CarryChained, Inserting
    <3>4. QED
      BY <3>1, <3>3, Zenon
  <2>14. CASE evict_pass(t)
    BY <2>14, <1>1, <1>2, <1>3, <2>3, Zenon DEF evict_pass, LiveChained, LiveSlots, CarryChained, Inserting, TypeOK, Goto
  <2>15. CASE evict_take(t)
    BY <2>15, <1>1, <1>3, <2>4, <2>5, Zenon DEF evict_take, Bury, StartInsert, LiveChained, LiveSlots, CarryChained, Inserting,
       TypeOK, Goto
  <2>16. CASE evict_none(t)
    BY <2>16, <1>1, <1>3, <2>4, <2>5, Zenon DEF evict_none, StartInsert, LiveChained, LiveSlots, CarryChained, Inserting,
       TypeOK, Goto
  <2>17. CASE insert_claim(t)
    BY <2>17, <1>1, <1>2, <1>3, <2>3, ZenonT(30) DEF insert_claim, LiveChained, LiveSlots, CarryChained, Inserting, TypeOK, Goto
  <2>18. CASE insert_pass(t)
    BY <2>18, <1>1, <1>2, <1>3, <2>3, Zenon DEF insert_pass, Advance, LiveChained, LiveSlots, CarryChained, Inserting, TypeOK, Goto
  <2>19. CASE insert_place(t)
    <3>1. /\ LiveSlots' = LiveSlots \cup {slot[t]} /\ state'[slot[t]] = "LIVE" /\ ent'[slot[t]] = inc[t]
          /\ \A s \in Slots : s # slot[t] => ent'[s] = ent[s]
      BY <2>19, StoreSlots, Zenon DEF insert_place
    <3>2. inc[t].key \in Keys /\ Chained(inc[t].key, slot[t])
      BY <2>19, <2>3, Zenon DEF insert_place, CarryChained, Inserting
    <3>3. ASSUME NEW s \in LiveSlots' PROVE ent'[s].key \in Keys /\ Chained(ent[s].key, s)'
      <4>1. CASE s = slot[t]
        BY <1>1, <2>3, <3>1, <3>2, <4>1, Zenon DEF Chained
      <4>2. CASE s # slot[t]
        BY <1>1, <3>1, <3>3, <4>2, Zenon DEF LiveChained, LiveSlots, Chained
      <4>3. QED
        BY <4>1, <4>2, Zenon
    <3>4. LiveChained'
      BY <3>3, Zenon DEF LiveChained
    <3>5. CarryChained(t)'
      BY <2>19, Zenon DEF insert_place, CarryChained, Inserting, TypeOK, Goto
    <3>6. QED
      BY <3>4, <3>5, Zenon
  <2>20. CASE insert_swap(t)
    <3>1. /\ LiveSlots' = LiveSlots \cup {slot[t]} /\ state'[slot[t]] = "LIVE" /\ ent'[slot[t]] = inc[t]
          /\ \A s \in Slots : s # slot[t] => ent'[s] = ent[s]
      BY <2>20, StoreSlots, Zenon DEF insert_swap
    <3>2. inc[t].key \in Keys /\ Chained(inc[t].key, slot[t])
      BY <2>20, <2>3, Zenon DEF insert_swap, CarryChained, Inserting
    <3>3. ASSUME NEW s \in LiveSlots' PROVE ent'[s].key \in Keys /\ Chained(ent[s].key, s)'
      <4>1. CASE s = slot[t]
        BY <1>1, <2>3, <3>1, <3>2, <4>1, Zenon DEF Chained
      <4>2. CASE s # slot[t]
        BY <1>1, <3>1, <3>3, <4>2, Zenon DEF LiveChained, LiveSlots, Chained
      <4>3. QED
        BY <4>1, <4>2, Zenon
    <3>4. LiveChained'
      BY <3>3, Zenon DEF LiveChained
    <3>5. pc'[t] = "insert" /\ inc'[t] = ent[slot[t]] /\ slot'[t] = NextSlot(slot[t])
      BY <2>20, Zenon DEF insert_swap, Advance, TypeOK, Goto
    <3>6. ent[slot[t]].key \in Keys /\ Chained(ent[slot[t]].key, slot[t])
      BY <2>20, <2>3, Zenon DEF insert_swap, CarryChained
    <3>7. CarryChained(t)'
      BY <1>2, <2>3, <3>1, <3>5, <3>6, Zenon DEF CarryChained, Inserting
    <3>8. QED
      BY <3>4, <3>7, Zenon
  <2>21. CASE insert_drop(t)
    BY <2>21, <1>1, <1>2, <1>3, <2>3, Zenon DEF insert_drop, LiveChained, LiveSlots, CarryChained, Inserting, TypeOK, Goto
  <2>22. CASE flush_slot(t)
    BY <2>22, <1>1, <1>2, <1>3, <2>3, ZenonT(30) DEF flush_slot, Bury, LiveChained, LiveSlots, CarryChained, Inserting, TypeOK, Goto
  <2>23. CASE flush_count(t)
    BY <2>23, <1>1, <1>2, <1>3, <2>3, Zenon DEF flush_count, LiveChained, LiveSlots, CarryChained, Inserting, TypeOK, Goto
  <2>40. QED
    BY <1>5, <2>2, <2>11, <2>12, <2>13, <2>14, <2>15, <2>16, <2>17, <2>18, <2>19, <2>20, <2>21, <2>22,
     <2>23, ZenonT(30) DEF WriteStep
<1>6. QED
  BY <1>4, <1>5, StepKinds, Zenon

-----------------------------------------------------------------------------
(* The inductive invariant, and what follows from it.                      *)

Base == TypeOK /\ CallInv /\ WriterExclusion /\ ChainInv

\* Every step is a step of a thread, of the clock, or changes nothing.
LEMMA NextKinds ==
    ASSUME [Next]_vars
    PROVE  (\E t \in Threads : Step(t)) \/ Tick \/ UNCHANGED vars
  BY Zenon DEF Next, Step, Finished

\* The invariant the other proofs build on holds initially.
LEMMA BaseInit == Init => Base
<1> SUFFICES ASSUME Init PROVE Base
  BY Zenon
<1>1. TypeOK
  BY TypeInit, Zenon
<1>2. CallInv
  BY BoundsAssumption DEF Init, CallInv, CallOK, Scanning
<1>3. WriterExclusion
  BY DEF Init, WriterExclusion, HasLock, InWrite, Quiet
<1>4. ChainInv
  BY Zenon DEF Init, ChainInv, LiveChained, LiveSlots, CarryChained, Inserting
<1>5. QED
  BY <1>1, <1>2, <1>3, <1>4, Zenon DEF Base

\* Every step keeps it.
LEMMA BaseNext == Base /\ [Next]_vars => Base'
<1> SUFFICES ASSUME Base, [Next]_vars PROVE Base'
  BY Zenon
<1> USE DEF Base
<1>1. ASSUME NEW t \in Threads, Step(t) PROVE Base'
  <2>1. TypeOK'
    BY <1>1, TypeStep, Zenon
  <2>2. QED
    BY <1>1, <2>1, CallStep, ExclusionStep, ChainStep, Zenon
<1>2. CASE Tick
  <2>1. TypeOK'
    BY <1>2, BoundsAssumption DEF Tick, TypeOK
  <2>2. CallInv'
    BY <1>2, Zenon DEF Tick, CallInv, CallOK, Scanning
  <2>3. WriterExclusion'
    BY <1>2, Zenon DEF Tick, WriterExclusion, HasLock, InWrite, Quiet
  <2>4. ChainInv'
    BY <1>2, Zenon DEF Tick, ChainInv, LiveChained, LiveSlots, CarryChained, Inserting, Chained
  <2>5. QED
    BY <2>1, <2>2, <2>3, <2>4, Zenon
<1>3. CASE UNCHANGED vars
  <2>1. TypeOK'
    BY <1>3, Zenon DEF TypeOK
  <2>2. CallInv'
    BY <1>3, Zenon DEF CallInv, CallOK, Scanning
  <2>3. WriterExclusion'
    BY <1>3, Zenon DEF WriterExclusion, HasLock, InWrite, Quiet
  <2>4. ChainInv'
    BY <1>3, Zenon DEF ChainInv, LiveChained, LiveSlots, CarryChained, Inserting, Chained
  <2>5. QED
    BY <2>1, <2>2, <2>3, <2>4, Zenon
<1>4. QED
  BY <1>1, <1>2, <1>3, NextKinds, Zenon

\* Types, calls, exclusion and chains hold in every reachable state.
LEMMA BaseInvariant == Spec => []Base
  BY BaseInit, BaseNext, PTL DEF Spec

\* The functions of voidcache.c keep every field of the shard and every local
\* variable within its type, however their steps interleave.
THEOREM TypeCorrect == Spec => []TypeOK
<1>1. Base => TypeOK
  BY Zenon DEF Base
<1>2. QED
  BY <1>1, BaseInvariant, PTL

\* shard_lock admits one thread at a time, and seq is odd exactly while a
\* writer is between seq_write_begin and seq_write_end.
THEOREM ExclusionCorrect == Spec => []WriterExclusion
<1>1. Base => WriterExclusion
  BY Zenon DEF Base
<1>2. QED
  BY <1>1, BaseInvariant, PTL

\* _shard_find's reliance on EMPTY as a sentinel is justified: no sequence of
\* insertions, displacements, deletions, evictions and flushes leaves a live
\* entry behind an EMPTY slot.
THEOREM ChainCorrect == Spec => []ProbeChain
<1>1. Base => ProbeChain
  BY Zenon DEF Base, ChainInv, LiveChained, Chained, ProbeChain
<1>2. QED
  BY <1>1, BaseInvariant, PTL

\* The premise of the seqlock: the table changes only while seq is odd, so a
\* reader that finds seq even and unchanged saw one state of the table.
THEOREM AnnouncedCorrect == Spec => WritesAreAnnounced
<1> DEFINE A == /\ <<state, ent>>' # <<state, ent>> => ~Quiet /\ ~Quiet'
                /\ \A s \in Slots : state'[s] = "EMPTY" => state[s] = "EMPTY"
<1>1. Base /\ [Next]_vars => [A]_vars
  <2> SUFFICES ASSUME Base, [Next]_vars PROVE A \/ UNCHANGED vars
    BY Zenon
  <2> USE DEF Base
  <2>1. ASSUME NEW t \in Threads, Step(t) PROVE A
    <3>1. \A s \in Slots : state'[s] = "EMPTY" => state[s] = "EMPTY"
      BY <2>1, NoNewEmpty, Zenon
    <3>2. CASE QuietStep(t)
      BY <3>1, <3>2, Zenon DEF QuietStep
    <3>3. CASE seq_write_end(t)
      BY <3>1, <3>3, Zenon DEF seq_write_end
    <3>4. CASE InWrite(t) /\ WriteStep(t) /\ ~seq_write_end(t)
      <4>1. seq' = seq
        BY <3>4, Zenon DEF WriteStep, remove_found, remove_notfound, evict_pass, evict_take, evict_none,
           insert_claim, insert_pass, insert_place, insert_swap, insert_drop, flush_slot,
           flush_count, AfterLookup
      <4>2. ~Quiet
        BY <3>4, Zenon DEF WriterExclusion
      <4>3. QED
        BY <3>1, <4>1, <4>2, Zenon DEF Quiet
    <3>5. QED
      BY <2>1, <3>2, <3>3, <3>4, StepKinds, Zenon
  <2>2. CASE Tick
    BY <2>2, Zenon DEF Tick
  <2>3. QED
    BY <2>1, <2>2, NextKinds, Zenon
<1>2. QED
  BY <1>1, BaseInvariant, PTL DEF Spec, WritesAreAnnounced

-----------------------------------------------------------------------------
(***************************************************************************)
(* The lock-free lookup of vc_get is correct whenever its validation        *)
(* succeeds.  The invariant follows a reader through _shard_find: as long   *)
(* as seq is what seq_read_begin returned, the slots it passed over neither *)
(* end nor answer the lookup.                                              *)
(***************************************************************************)
\* None of the first n slots of k's probe sequence ends or answers a lookup.
Passed(k, n) ==
    \A j \in Slots : probe_dist(Home[k], j) < n => state[j] # "EMPTY" /\ ~Holds(k, j)

Missing(k) == ~ \E s \in Slots : shard_find(k, s)

ScanOK(t) ==
    /\ pc[t] \in {"gload", "gcmp"} => Passed(key[t], it[t])
    /\ pc[t] \in {"gload", "gcmp"} /\ it[t] < Cap => probe_dist(Home[key[t]], slot[t]) = it[t]
    /\ pc[t] = "gcmp" => state[slot[t]] = "LIVE"
    /\ pc[t] \in {"gexp", "gsnap", "ghit"} => FirstMatch(key[t], slot[t])
    /\ pc[t] = "ghit" => res[t] = ent[slot[t]].val
    /\ pc[t] = "gmiss" => Missing(key[t])

ReadOK(t) ==
    Scanning(t) => /\ sq[t] % 2 = 0 /\ sq[t] <= seq
                   /\ sq[t] = seq => ScanOK(t)

ReadInv == \A t \in Threads : ReadOK(t)

-----------------------------------------------------------------------------
(* Probe sequences.                                                        *)

\* One more slot is passed.
LEMMA PassedOne ==
    ASSUME NEW k \in Keys, NEW s \in Slots, NEW n \in 0 .. Cap, probe_dist(Home[k], s) = n,
           Passed(k, n), state[s] # "EMPTY", ~Holds(k, s)
    PROVE  Passed(k, n + 1)
<1>1. ASSUME NEW j \in Slots, probe_dist(Home[k], j) < n + 1
      PROVE  j = s \/ probe_dist(Home[k], j) < n
  <2>1. Home[k] \in Slots
    BY SlotArithmetic, Zenon
  <2>2. probe_dist(Home[k], j) \in Int
    BY <2>1, ProbeFacts
  <2>3. probe_dist(Home[k], j) = n => j = s
    BY <2>1, ProbeFacts, Zenon
  <2>4. QED
    BY <1>1, <2>2, <2>3, CapAssumption
<1>2. QED
  BY <1>1, Zenon DEF Passed

\* At most one slot is the first match.
LEMMA FirstMatchUnique ==
    ASSUME NEW k \in Keys, NEW r \in Slots, NEW s \in Slots, FirstMatch(k, r), FirstMatch(k, s)
    PROVE  r = s
<1>1. Home[k] \in Slots
  BY SlotArithmetic, Zenon
<1>2. /\ probe_dist(Home[k], r) \in Int /\ probe_dist(Home[k], s) \in Int
      /\ probe_dist(Home[k], r) = probe_dist(Home[k], s) => r = s
  BY <1>1, ProbeFacts
<1>3. QED
  BY <1>2 DEF FirstMatch

-----------------------------------------------------------------------------
(* The steps of the reader itself.                                         *)

\* A step of vc_get keeps what its scan knows of the slots it has passed.
LEMMA ReaderStep ==
    ASSUME Base, Base', ReadInv, NEW t \in Threads, Step(t)
    PROVE  ReadOK(t)'
<1> USE DEF Base, Goto
<1>a. ReadOK(t)
  BY Zenon DEF ReadInv
<1>b. slot[t] \in Slots /\ it[t] \in 0 .. Cap /\ seq \in Nat /\ sq[t] \in Nat
  BY Zenon DEF TypeOK
<1>c. pc[t] = "gbegin" \/ Scanning(t) => key[t] \in Keys /\ Home[key[t]] \in Slots
  BY SlotArithmetic, ZenonT(30) DEF CallInv, CallOK, Scanning
<1>1. CASE seq_read_begin(t)
  <2>1. sq'[t] = seq /\ seq' = seq /\ seq % 2 = 0 /\ pc'[t] = "gload" /\ it'[t] = 0
        /\ slot'[t] = Home[key[t]] /\ key'[t] = key[t]
    BY <1>1, ZenonT(30) DEF seq_read_begin, TypeOK
  <2>2. key[t] \in Keys /\ Home[key[t]] \in Slots
    BY <1>1, <1>c, Zenon DEF seq_read_begin
  <2>3. Passed(key[t], 0)' /\ probe_dist(Home[key[t]], Home[key[t]]) = 0
    BY <2>1, <2>2, ProbeFacts DEF Passed
  <2>4. QED
    BY <2>1, <2>3, <1>b DEF ReadOK, ScanOK
<1>2. CASE find_load(t)
  <2> SUFFICES ASSUME sq[t] = seq PROVE ScanOK(t)'
    BY <1>2, <1>a, Zenon DEF find_load, ReadOK, Scanning
  <2>0. PICK k \in Keys, s \in Slots, n \in 0 .. Cap : k = key[t] /\ s = slot[t] /\ n = it[t]
    BY <1>2, <1>b, <1>c, Zenon DEF find_load, Scanning
  <2>1. /\ pc[t] = "gload" /\ Passed(k, n) /\ (n < Cap => probe_dist(Home[k], s) = n)
        /\ k \in Keys /\ Home[k] \in Slots
    BY <1>2, <2>0, <1>a, <1>c, Zenon DEF find_load, ReadOK, ScanOK, Scanning
  <2>2. UNCHANGED <<state, ent, now>> /\ key'[t] = k
    BY <1>2, <2>0, Zenon DEF find_load
  <2>3. CASE n = Cap /\ Goto(t, "gmiss")
    <3>1. Missing(k)
      BY <2>1, <2>3, ProbeFacts, CapAssumption DEF Missing, shard_find, FirstMatch, Passed
    <3>2. QED
      <4>1. Missing(k)'
        BY <2>2, <3>1, Zenon DEF Missing, shard_find, FirstMatch, Holds, entry_expired
      <4>2. QED
        BY <2>2, <2>3, <4>1, Zenon DEF ScanOK, TypeOK
  <2>4. CASE n < Cap /\ state[s] = "EMPTY" /\ Goto(t, "gmiss")
    <3>1. ASSUME NEW r \in Slots, FirstMatch(k, r) PROVE FALSE
      <4>1. /\ probe_dist(Home[k], r) \in Int /\ probe_dist(Home[k], s) = n
            /\ probe_dist(Home[k], r) = n => r = s
        BY <2>1, <2>4, ProbeFacts
      <4>2. QED
        BY <2>1, <2>4, <3>1, <4>1 DEF FirstMatch, Passed, Holds
    <3>2. QED
      <4>1. Missing(k)'
        BY <2>2, <3>1, Zenon DEF Missing, shard_find, FirstMatch, Holds, entry_expired
      <4>2. QED
        BY <2>2, <2>4, <4>1, Zenon DEF ScanOK, TypeOK
  <2>5. CASE n < Cap /\ state[s] = "LIVE" /\ Goto(t, "gcmp") /\ UNCHANGED <<slot, it>>
    BY <2>0, <2>1, <2>2, <2>5, ZenonT(30) DEF ScanOK, Passed, Holds, TypeOK
  <2>6. CASE /\ n < Cap /\ state[s] \in {"BUSY", "DEAD"}
             /\ slot' = [slot EXCEPT ![t] = NextSlot(s)]
             /\ it' = [it EXCEPT ![t] = @ + 1]
             /\ UNCHANGED pc
    <3>1. Passed(k, n + 1)
      BY <2>1, <2>6, PassedOne, ZenonT(30) DEF Holds
    <3>2. n + 1 < Cap => probe_dist(Home[k], NextSlot(s)) = n + 1
      BY <2>1, <2>6, ProbeFacts
    <3>3. pc'[t] = "gload" /\ it'[t] = n + 1 /\ slot'[t] = NextSlot(s)
      BY <2>0, <2>1, <2>6, Zenon DEF TypeOK
    <3>4. Passed(k, n + 1)'
      BY <2>2, <3>1, Zenon DEF Passed, Holds
    <3>5. QED
      BY <2>2, <3>2, <3>3, <3>4, Zenon DEF ScanOK
  <2>7. QED
    BY <1>2, <2>0, <2>3, <2>4, <2>5, <2>6, Zenon DEF find_load
<1>3. CASE find_compare(t)
  <2> SUFFICES ASSUME sq[t] = seq PROVE ScanOK(t)'
    BY <1>3, <1>a, Zenon DEF find_compare, ReadOK, Scanning
  <2>0. PICK k \in Keys, s \in Slots, n \in 0 .. Cap : k = key[t] /\ s = slot[t] /\ n = it[t]
    BY <1>3, <1>b, <1>c, Zenon DEF find_compare, Scanning
  <2>1. /\ pc[t] = "gcmp" /\ Passed(k, n) /\ state[s] = "LIVE" /\ k \in Keys /\ Home[k] \in Slots
        /\ n < Cap /\ probe_dist(Home[k], s) = n
    BY <1>3, <2>0, <1>a, <1>c, Zenon DEF find_compare, ReadOK, ScanOK, Scanning, CallInv, CallOK
  <2>2. UNCHANGED <<state, ent, now>> /\ key'[t] = k
    BY <1>3, <2>0, Zenon DEF find_compare
  <2>3. KeyOutcomes(t) = {ent[s].key = k}
    BY <2>0, <2>1, Zenon DEF KeyOutcomes
  <2>4. CASE ent[s].key = k /\ Goto(t, "gexp") /\ UNCHANGED <<slot, it>>
    <3>1. FirstMatch(k, s)
      BY <2>1, <2>4, Zenon DEF FirstMatch, Holds, Passed
    <3>2. FirstMatch(k, s)'
      BY <2>2, <3>1, Zenon DEF FirstMatch, Holds
    <3>3. QED
      BY <2>0, <2>2, <2>4, <3>2, Zenon DEF ScanOK, TypeOK
  <2>5. CASE /\ ent[s].key # k
             /\ slot' = [slot EXCEPT ![t] = NextSlot(s)]
             /\ it' = [it EXCEPT ![t] = @ + 1]
             /\ Goto(t, "gload")
    <3>1. Passed(k, n + 1)
      BY <2>1, <2>5, PassedOne, Zenon DEF Holds
    <3>2. n + 1 < Cap => probe_dist(Home[k], NextSlot(s)) = n + 1
      BY <2>1, ProbeFacts, Zenon
    <3>3. pc'[t] = "gload" /\ it'[t] = n + 1 /\ slot'[t] = NextSlot(s)
      BY <2>0, <2>5, ZenonT(30) DEF TypeOK
    <3>4. Passed(k, n + 1)'
      BY <2>2, <3>1, Zenon DEF Passed, Holds
    <3>5. QED
      BY <2>2, <3>2, <3>3, <3>4, Zenon DEF ScanOK
  <2>6. QED
    BY <1>3, <2>0, <2>3, <2>4, <2>5, Zenon DEF find_compare
<1>4. CASE find_expiry(t)
  <2> SUFFICES ASSUME sq[t] = seq PROVE ScanOK(t)'
    BY <1>4, <1>a, Zenon DEF find_expiry, ReadOK, Scanning
  <2>0. PICK k \in Keys, s \in Slots : k = key[t] /\ s = slot[t]
    BY <1>4, <1>b, <1>c, Zenon DEF find_expiry, Scanning
  <2>1. FirstMatch(k, s) /\ state[s] # "BUSY" /\ k \in Keys
    BY <1>4, <2>0, <1>a, <1>c, Zenon DEF find_expiry, ReadOK, ScanOK, Scanning, FirstMatch, Holds
  <2>2. UNCHANGED <<state, ent, now, slot>> /\ key'[t] = k
    BY <1>4, <2>0, Zenon DEF find_expiry
  <2>3. CASE entry_expired(ent[s]) /\ Goto(t, "gmiss")
    <3>1. Missing(k)
      BY <2>1, <2>3, FirstMatchUnique, Zenon DEF Missing, shard_find
    <3>2. Missing(k)'
      BY <2>2, <3>1, Zenon DEF Missing, shard_find, FirstMatch, Holds, entry_expired
    <3>3. QED
      BY <2>2, <2>3, <3>2, Zenon DEF ScanOK, TypeOK
  <2>4. CASE Goto(t, "gsnap")
    <3>1. FirstMatch(k, s)'
      BY <2>1, <2>2, Zenon DEF FirstMatch, Holds
    <3>2. QED
      BY <2>0, <2>2, <2>4, <3>1, Zenon DEF ScanOK, TypeOK
  <2>5. QED
    BY <1>4, <2>0, <2>1, <2>3, <2>4, Zenon DEF find_expiry
<1>5. CASE get_snapshot(t)
  <2>1. CASE Goto(t, "lock")
    BY <2>1, Zenon DEF ReadOK, Scanning, TypeOK
  <2>2. CASE Goto(t, "ghit") /\ \E v \in {ent[slot[t]].val} \cup (IF seq = sq[t] THEN {} ELSE {Torn}) :
                                  res' = [res EXCEPT ![t] = v]
    <3> SUFFICES ASSUME sq[t] = seq PROVE ScanOK(t)'
      BY <1>5, <1>a, Zenon DEF get_snapshot, ReadOK, Scanning
    <3>1. FirstMatch(key[t], slot[t])
      BY <1>5, <1>a, Zenon DEF get_snapshot, ReadOK, ScanOK, Scanning
    <3>2. UNCHANGED <<state, ent, slot, key>>
      BY <1>5, Zenon DEF get_snapshot
    <3>3. FirstMatch(key[t], slot[t])'
      BY <3>1, <3>2, ZenonT(30) DEF FirstMatch, Holds
    <3>4. res'[t] = ent[slot[t]].val /\ pc'[t] = "ghit"
      <4>1. PICK v \in {ent[slot[t]].val} \cup (IF seq = sq[t] THEN {} ELSE {Torn}) :
              res' = [res EXCEPT ![t] = v]
        BY <2>2, Zenon
      <4>2. v = ent[slot[t]].val
        BY <4>1, Zenon
      <4>3. QED
        BY <2>2, <4>1, <4>2, Zenon DEF TypeOK, Goto
    <3>5. QED
      BY <3>2, <3>3, <3>4, Zenon DEF ScanOK
  <2>3. QED
    BY <1>5, <2>1, <2>2, Zenon DEF get_snapshot
<1>10. ASSUME pc'[t] \notin {"gload", "gcmp", "gexp", "gsnap", "ghit", "gmiss"}
       PROVE  ReadOK(t)'
  BY <1>10, Zenon DEF ReadOK, Scanning
<1>11. ASSUME NEW k \in Keys, NEW ttl \in TTLs, NEW mem \in Tiers, vc_set(t, k, ttl, mem)
      PROVE  ReadOK(t)'
  BY <1>11, <1>10, Zenon DEF vc_set, Call, TypeOK
<1>12. ASSUME NEW k \in Keys, vc_del(t, k)
      PROVE  ReadOK(t)'
  BY <1>12, <1>10, Zenon DEF vc_del, Call, TypeOK
<1>13. ASSUME NEW k \in Keys, vc_get(t, k)
      PROVE  ReadOK(t)'
  BY <1>13, <1>10, Zenon DEF vc_get, Call, TypeOK
<1>14. CASE vc_flush(t)
  BY <1>14, <1>10, Zenon DEF vc_flush, Call, TypeOK
<1>15. CASE shard_lock(t)
  BY <1>15, <1>10, Zenon DEF shard_lock, TypeOK
<1>16. CASE seq_write_begin(t)
  BY <1>16, <1>10, Zenon DEF seq_write_begin, TypeOK
<1>17. CASE seq_write_end(t)
  BY <1>17, <1>10, Zenon DEF seq_write_end, TypeOK
<1>18. CASE shard_unlock(t)
  BY <1>18, <1>10, ZenonT(30) DEF shard_unlock, Return, TypeOK
<1>19. CASE remove_found(t)
  <2>1. pc'[t] \in {"wend", "evict", "insert"}
    BY <1>19, Zenon DEF remove_found, AfterLookup, StartInsert, TypeOK, Goto
  <2>2. QED
    BY <1>10, <2>1, Zenon
<1>20. CASE remove_notfound(t)
  BY <1>20, <1>10, ZenonT(30) DEF remove_notfound, AfterLookup, StartInsert, TypeOK
<1>21. CASE evict_pass(t)
  BY <1>21, <1>10, Zenon DEF evict_pass, TypeOK
<1>22. CASE evict_take(t)
  BY <1>22, <1>10, Zenon DEF evict_take, Bury, StartInsert, TypeOK
<1>23. CASE evict_none(t)
  BY <1>23, <1>10, Zenon DEF evict_none, StartInsert, TypeOK
<1>24. CASE insert_claim(t)
  BY <1>24, <1>10, ZenonT(30) DEF insert_claim, TypeOK
<1>25. CASE insert_pass(t)
  BY <1>25, <1>10, Zenon DEF insert_pass, Advance, TypeOK
<1>26. CASE insert_place(t)
  BY <1>26, <1>10, Zenon DEF insert_place, Store, TypeOK
<1>27. CASE insert_swap(t)
  BY <1>27, <1>10, ZenonT(30) DEF insert_swap, Store, Advance, TypeOK
<1>28. CASE insert_drop(t)
  BY <1>28, <1>10, Zenon DEF insert_drop, TypeOK
<1>29. CASE flush_slot(t)
  BY <1>29, <1>10, Zenon DEF flush_slot, Bury, TypeOK
<1>30. CASE flush_count(t)
  BY <1>30, <1>10, Zenon DEF flush_count, TypeOK
<1>31. CASE validate_hit(t)
  BY <1>31, <1>10, Zenon DEF validate_hit, TypeOK
<1>32. CASE validate_miss(t)
  BY <1>32, <1>10, Zenon DEF validate_miss, Return, TypeOK
<1>33. CASE validate_fail(t)
  BY <1>33, <1>10, Zenon DEF validate_fail, TypeOK
<1>34. CASE get_reference(t)
  BY <1>34, <1>10, Zenon DEF get_reference, Return, TypeOK
<1>35. CASE locked_hit(t)
  BY <1>35, <1>10, Zenon DEF locked_hit, TypeOK
<1>36. CASE locked_miss(t)
  BY <1>36, <1>10, Zenon DEF locked_miss, TypeOK
<1>50. QED
  BY <1>1, <1>2, <1>3, <1>4, <1>5,
     <1>11, <1>12, <1>13, <1>14, <1>15, <1>16, <1>17, <1>18, <1>19, <1>20, <1>21, <1>22,
     <1>23, <1>24, <1>25, <1>26, <1>27, <1>28, <1>29, <1>30, <1>31, <1>32, <1>33, <1>34,
     <1>35, <1>36, ZenonT(30)
  DEF Step, Caller, Writer, Reader

-----------------------------------------------------------------------------
(* Steps of other threads: while seq is even and equal to sq, no thread is  *)
(* in a write section, so nothing a reader has seen changes.               *)

\* While table and clock stand still, so does what a waiting reader knows.
LEMMA ScanKept ==
    ASSUME NEW u \in Threads, UNCHANGED <<state, ent, now>>, pc'[u] = pc[u], key'[u] = key[u],
           slot'[u] = slot[u], it'[u] = it[u], res'[u] = res[u], ScanOK(u)
    PROVE  ScanOK(u)'
<1>1. Passed(key[u], it[u]) => Passed(key[u], it[u])'
  BY Zenon DEF Passed, Holds
<1>2. FirstMatch(key[u], slot[u]) => FirstMatch(key[u], slot[u])'
  BY ZenonT(30) DEF FirstMatch, Holds
<1>3. Missing(key[u]) => Missing(key[u])'
  BY ZenonT(30) DEF Missing, shard_find, FirstMatch, Holds, entry_expired
<1>4. QED
  BY <1>1, <1>2, <1>3, Zenon DEF ScanOK

\* Another thread's step keeps it too, or changes seq.
LEMMA OtherStep ==
    ASSUME Base, ReadInv, NEW t \in Threads, Step(t), NEW u \in Threads, u # t
    PROVE  ReadOK(u)'
<1> USE DEF Base
<1> SUFFICES ASSUME Scanning(u)
             PROVE  /\ sq[u] % 2 = 0 /\ sq[u] <= seq'
                    /\ sq[u] = seq' => ScanOK(u)'
  BY OthersUnchanged, Zenon DEF ReadOK, Scanning
<1>1. sq[u] % 2 = 0 /\ sq[u] <= seq /\ (sq[u] = seq => ScanOK(u))
  BY Zenon DEF ReadInv, ReadOK
<1>2. seq \in Nat /\ sq[u] \in Nat
  BY Zenon DEF TypeOK
<1>3. seq' = seq \/ seq' = seq + 1
  BY LockTransitions, Zenon
<1>4. sq[u] <= seq' /\ (sq[u] = seq' => seq' = seq)
  BY <1>1, <1>2, <1>3, SMTT(30)
<1>5. ASSUME sq[u] = seq' PROVE ScanOK(u)'
  <2>1. Quiet /\ ScanOK(u)
    BY <1>1, <1>4, <1>5, Zenon DEF Quiet
  <2>2. QuietStep(t)
    BY <2>1, StepKinds, Zenon DEF WriterExclusion
  <2>3. UNCHANGED <<state, ent, now>>
    BY <2>2, Zenon DEF QuietStep
  <2>4. QED
    BY <2>1, <2>3, OthersUnchanged, ScanKept, Zenon
<1>6. QED
  BY <1>1, <1>4, <1>5, Zenon

\* Time only makes more entries expire, so a missing key stays missing.
LEMMA ClockStep ==
    ASSUME Base, ReadInv, Tick
    PROVE  ReadInv'
<1> USE DEF Base, Tick
<1>1. ASSUME NEW k \in Keys, Missing(k) PROVE Missing(k)'
  <2>1. ASSUME NEW s \in Slots, entry_expired(ent[s]) PROVE entry_expired(ent[s])'
    <3>1. ent[s].exp \in Nat /\ now \in Nat
      BY Zenon DEF TypeOK, Entries
    <3>2. QED
      BY <2>1, <3>1, BoundsAssumption DEF entry_expired
  <2>2. QED
    BY <1>1, <2>1, ZenonT(30) DEF Missing, shard_find, FirstMatch, Holds
<1>2. ASSUME NEW t \in Threads PROVE ReadOK(t)'
  <2>1. pc[t] = "gmiss" => key[t] \in Keys
    BY Zenon DEF CallInv, CallOK
  <2>2. ReadOK(t)
    BY Zenon DEF ReadInv
  <2>3. QED
    BY <1>1, <2>1, <2>2, Zenon DEF ReadOK, ScanOK, Scanning, Passed, FirstMatch, Holds
<1>3. QED
  BY <1>2, Zenon DEF ReadInv

-----------------------------------------------------------------------------
\* ReadInv holds in every reachable state.
LEMMA ReadInvariant == Spec => []ReadInv
<1>1. Init => ReadInv
  BY Zenon DEF Init, ReadInv, ReadOK, Scanning
<1>2. Base /\ Base' /\ ReadInv /\ [Next]_vars => ReadInv'
  <2> SUFFICES ASSUME Base, Base', ReadInv, [Next]_vars PROVE ReadInv'
    BY Zenon
  <2>1. ASSUME NEW t \in Threads, Step(t) PROVE ReadInv'
    BY <2>1, ReaderStep, OtherStep, ZenonT(30) DEF ReadInv
  <2>2. CASE UNCHANGED vars
    <3>1. ASSUME NEW t \in Threads, ScanOK(t) PROVE ScanOK(t)'
      BY <2>2, <3>1, ScanKept, Zenon
    <3>2. QED
      BY <2>2, <3>1, Zenon DEF ReadInv, ReadOK, Scanning
  <2>3. QED
    BY <2>1, <2>2, ClockStep, NextKinds, Zenon
<1>3. QED
  BY <1>1, <1>2, BaseInvariant, PTL DEF Spec

\* For any number of threads and slots: a vc_get that passes seq_read_retry
\* answers what _shard_find under the lock would answer at that moment.
THEOREM ReadsCorrect == Spec => []ValidatedReads
<1>1. Base /\ ReadInv => ValidatedReads
  BY Zenon DEF ReadInv, ReadOK, ScanOK, Scanning, Missing, ValidatedReads
<1>2. QED
  BY <1>1, BaseInvariant, ReadInvariant, PTL

-----------------------------------------------------------------------------
(* Ownership of entries and of their storage.                              *)

\* Thread t holds an entry that is not in the table: the one vc_set built or
\* one that _shard_insert displaced.
Carries(t) ==
    op[t] = "set" /\ pc[t] \in {"lock", "wbegin", "find", "evict", "insert", "place", "swap"}

-----------------------------------------------------------------------------
(* Storage.                                                                *)

\* v belongs to no entry of the table and has not been released.
Loose(v) == v \in 1 .. calls /\ v \notin freed /\ \A s \in LiveSlots : ent[s].val # v

LiveOwned ==
    /\ freed \subseteq 0 .. calls
    /\ \A s \in LiveSlots : ent[s].val \in 1 .. calls /\ ent[s].val \notin freed
    /\ \A r, s \in LiveSlots : ent[r].val = ent[s].val => r = s

CarryOwned(t) ==
    /\ Carries(t) => Loose(inc[t].val)
    /\ pc[t] = "swap" => Loose(ent[slot[t]].val)

CarriesApart ==
    /\ \A t, u \in Threads : Carries(t) /\ Carries(u) /\ inc[t].val = inc[u].val => t = u
    /\ \A t, u \in Threads : pc[t] = "swap" /\ Carries(u) => inc[u].val # ent[slot[t]].val

StorageInv == LiveOwned /\ (\A t \in Threads : CarryOwned(t)) /\ CarriesApart

\* Outside the write section a thread comes to hold an entry only by vc_set,
\* whose value is new, and which never expires if no TTL is asked for.
LEMMA CarryKinds ==
    ASSUME TypeOK, CallInv, NEW t \in Threads, Step(t), ~InWrite(t)
    PROVE  \/ calls' = calls /\ (Carries(t)' => Carries(t) /\ inc'[t] = inc[t])
           \/ calls' = calls + 1 /\ (Carries(t)' => inc'[t].val = calls + 1
                                                   /\ (TTLs = {0} => inc'[t].exp = 0))
<1> DEFINE P == \/ calls' = calls /\ (Carries(t)' => Carries(t) /\ inc'[t] = inc[t])
                \/ calls' = calls + 1 /\ (Carries(t)' => inc'[t].val = calls + 1
                                                        /\ (TTLs = {0} => inc'[t].exp = 0))
<1> USE DEF TypeOK, Carries, Goto
<1>1. ASSUME NEW k \in Keys, NEW ttl \in TTLs, NEW mem \in Tiers, vc_set(t, k, ttl, mem)
      PROVE  P
  BY <1>1, Zenon DEF vc_set, Call
<1>2. ASSUME NEW k \in Keys, vc_del(t, k)
      PROVE  P
  BY <1>2, Zenon DEF vc_del, Call
<1>3. ASSUME NEW k \in Keys, vc_get(t, k)
      PROVE  P
  BY <1>3, Zenon DEF vc_get, Call
<1>4. CASE vc_flush(t)
  BY <1>4, Zenon DEF vc_flush, Call
<1>5. CASE shard_lock(t)
  BY <1>5, Zenon DEF shard_lock
<1>6. CASE seq_write_begin(t)
  BY <1>6, Zenon DEF seq_write_begin
<1>7. CASE shard_unlock(t)
  BY <1>7, Zenon DEF shard_unlock, Return
<1>8. CASE seq_read_begin(t)
  BY <1>8, Zenon DEF seq_read_begin
<1>9. CASE find_load(t)
  BY <1>9, Zenon DEF find_load
<1>10. CASE find_compare(t)
  BY <1>10, Zenon DEF find_compare
<1>11. CASE find_expiry(t)
  BY <1>11, Zenon DEF find_expiry
<1>12. CASE get_snapshot(t)
  BY <1>12, Zenon DEF get_snapshot, CallInv, CallOK
<1>13. CASE validate_hit(t)
  BY <1>13, Zenon DEF validate_hit
<1>14. CASE validate_miss(t)
  BY <1>14, Zenon DEF validate_miss, Return
<1>15. CASE validate_fail(t)
  BY <1>15, Zenon DEF validate_fail, CallInv, CallOK
<1>16. CASE get_reference(t)
  BY <1>16, Zenon DEF get_reference, Return
<1>17. CASE locked_hit(t)
  BY <1>17, Zenon DEF locked_hit
<1>18. CASE locked_miss(t)
  BY <1>18, Zenon DEF locked_miss
<1>40. CASE WriteStep(t)
  BY <1>40, Zenon DEF WriteStep, InWrite, seq_write_end, remove_found, remove_notfound, evict_pass,
     evict_take, evict_none, insert_claim, insert_pass, insert_place, insert_swap, insert_drop,
     flush_slot, flush_count
<1>50. QED
  BY <1>40, <1>1, <1>2, <1>3, <1>4, <1>5, <1>6, <1>7, <1>8, <1>9, <1>10, <1>11, <1>12, <1>13, <1>14,
     <1>15, <1>16, <1>17, <1>18, ZenonT(30)
  DEF Step, Caller, Writer, Reader, WriteStep

\* Threads that carry nothing new, and swap nothing else, stay apart.
LEMMA ApartKept ==
    ASSUME CarriesApart, \A u \in Threads : Carries(u)' => Carries(u) /\ inc'[u] = inc[u],
           \A u \in Threads : pc'[u] = "swap" => pc[u] = "swap" /\ ent'[slot'[u]] = ent[slot[u]]
    PROVE  CarriesApart'
<1>1. ASSUME NEW u \in Threads, NEW w \in Threads, Carries(u)', Carries(w)', inc'[u].val = inc'[w].val
      PROVE  u = w
  BY <1>1, Zenon DEF CarriesApart
<1>2. ASSUME NEW u \in Threads, NEW w \in Threads, pc'[u] = "swap", Carries(w)'
      PROVE  inc'[w].val # ent'[slot'[u]].val
  BY <1>2, Zenon DEF CarriesApart
<1>3. QED
  BY <1>1, <1>2, Zenon DEF CarriesApart

\* A loose value put in a slot that was not live is owned by that slot.
LEMMA StoreOwned ==
    ASSUME NEW s \in Slots, LiveSlots \subseteq Slots, LiveOwned, Loose(ent'[s].val), calls' = calls,
           freed' = freed, LiveSlots' = LiveSlots \cup {s}, \A r \in Slots : r # s => ent'[r] = ent[r]
    PROVE  LiveOwned'
<1>1. ASSUME NEW r \in LiveSlots' PROVE ent'[r].val \in 1 .. calls /\ ent'[r].val \notin freed
  <2>1. CASE r = s
    BY <2>1, Zenon DEF Loose
  <2>2. CASE r # s
    BY <1>1, <2>2, Zenon DEF LiveOwned
  <2>3. QED
    BY <2>1, <2>2, Zenon
<1>2. ASSUME NEW r \in LiveSlots', r # s PROVE r \in LiveSlots /\ ent'[r] = ent[r] /\ ent[r].val # ent'[s].val
  BY <1>2, Zenon DEF Loose
<1>3. ASSUME NEW q \in LiveSlots', NEW r \in LiveSlots', ent'[q].val = ent'[r].val PROVE q = r
  <2>1. CASE q # s /\ r # s
    BY <1>2, <1>3, <2>1, Zenon DEF LiveOwned
  <2>2. QED
    BY <1>2, <1>3, <2>1, Zenon
<1>4. QED
  BY <1>1, <1>3, Zenon DEF LiveOwned

\* Every step keeps StorageInv: a value is in one slot or carried by one
\* vc_set, and a released value is in neither.
LEMMA StorageStep ==
    ASSUME Base, Base', StorageInv, NEW t \in Threads, Step(t)
    PROVE  StorageInv'
<1> USE DEF Base, StorageInv
<1>1. ASSUME NEW u \in Threads, u # t
      PROVE  (Carries(u)' <=> Carries(u)) /\ inc'[u] = inc[u] /\ pc'[u] = pc[u] /\ slot'[u] = slot[u]
  BY <1>1, OthersUnchanged, Zenon DEF Carries
<1>2. calls \in Nat
  BY Zenon DEF TypeOK
<1>3. CASE QuietStep(t)
  <2>1. LiveSlots' = LiveSlots /\ UNCHANGED <<ent, freed>> /\ pc'[t] # "swap" /\ ~InWrite(t)
    BY <1>3, Zenon DEF QuietStep, LiveSlots
  <2>2. calls' \in {calls, calls + 1}
    BY <2>1, CarryKinds, Zenon
  <2>9. 0 .. calls \subseteq 0 .. calls' /\ 1 .. calls \subseteq 1 .. calls'
    BY <1>2, <2>2
  <2>3. LiveOwned'
    BY <2>1, <2>9, Zenon DEF LiveOwned
  <2>4. \A v : Loose(v) => Loose(v)'
    BY <2>1, <2>9, Zenon DEF Loose
  <2>5. ASSUME NEW u \in Threads, u # t PROVE CarryOwned(u)'
    BY <1>1, <2>1, <2>4, <2>5, Zenon DEF CarryOwned
  <2>6. CASE calls' = calls /\ (Carries(t)' => Carries(t) /\ inc'[t] = inc[t])
    <3>1. CarryOwned(t)'
      BY <2>1, <2>4, <2>6, Zenon DEF CarryOwned
    <3>2. \A u \in Threads : Carries(u)' => Carries(u) /\ inc'[u] = inc[u]
      BY <1>1, <2>6, Zenon
    <3>3. \A u \in Threads : pc'[u] = "swap" => pc[u] = "swap" /\ ent'[slot'[u]] = ent[slot[u]]
      BY <1>1, <2>1, Zenon
    <3>4. QED
      BY <2>3, <2>5, <3>1, <3>2, <3>3, ApartKept, Zenon
  <2>7. CASE calls' = calls + 1 /\ (Carries(t)' => inc'[t].val = calls + 1)
    <3>0. PICK c \in Nat : c = calls
      BY <1>2, Zenon
    <3>1. Loose(c + 1)'
      BY <2>1, <2>7, <3>0 DEF Loose, LiveOwned
    <3>2. \A u \in Threads : CarryOwned(u)'
      BY <2>1, <2>5, <2>7, <3>0, <3>1, Zenon DEF CarryOwned
    <3>3. \A u \in Threads :
            /\ Carries(u) => inc[u].val # calls + 1
            /\ pc[u] = "swap" => ent[slot[u]].val # calls + 1
      BY <1>2, SMTT(30) DEF CarryOwned, Loose
    <3>4. CarriesApart'
      <4>1. ASSUME NEW u \in Threads, u # t, Carries(u)', Carries(t)' PROVE inc'[u].val # inc'[t].val
        BY <1>1, <2>7, <3>3, <4>1, Zenon
      <4>2. ASSUME NEW u \in Threads, NEW w \in Threads, Carries(u)', Carries(w)',
                   inc'[u].val = inc'[w].val
            PROVE  u = w
        <5>1. CASE u # t /\ w # t
          BY <1>1, <4>2, <5>1, Zenon DEF CarriesApart
        <5>2. QED
          BY <4>1, <4>2, <5>1, Zenon
      <4>3. ASSUME NEW u \in Threads, NEW w \in Threads, pc'[u] = "swap", Carries(w)'
            PROVE  inc'[w].val # ent'[slot'[u]].val
        <5>1. u # t /\ pc[u] = "swap" /\ ent'[slot'[u]] = ent[slot[u]]
          BY <1>1, <2>1, <4>3, Zenon
        <5>2. CASE w = t
          BY <2>7, <3>3, <4>3, <5>1, <5>2, Zenon
        <5>3. CASE w # t
          <6>1. Carries(w) /\ inc'[w] = inc[w]
            BY <1>1, <4>3, <5>3, Zenon
          <6>2. inc[w].val # ent[slot[u]].val
            BY <5>1, <6>1, Zenon DEF CarriesApart
          <6>3. QED
            BY <5>1, <6>1, <6>2, Zenon
        <5>4. QED
          BY <5>2, <5>3, Zenon
      <4>4. QED
        BY <4>2, <4>3, Zenon DEF CarriesApart
    <3>5. QED
      BY <2>3, <3>2, <3>4, Zenon
  <2>8. QED
    BY <2>1, <2>6, <2>7, CarryKinds, Zenon
<1>4. CASE InWrite(t) /\ WriteStep(t)
  <2>1. \A u \in Threads : u # t => pc[u] # "swap" /\ pc'[u] # "swap"
    BY <1>1, <1>4, ZenonT(30) DEF WriterExclusion, HasLock, InWrite
  <2>2. calls' = calls
    BY <1>4, Zenon DEF WriteStep, seq_write_end, remove_found, remove_notfound, evict_pass, evict_take,
       evict_none, insert_claim, insert_pass, insert_place, insert_swap, insert_drop, flush_slot,
       flush_count, AfterLookup
  <2>3. slot[t] \in Slots /\ (pc[t] \in {"evict", "insert", "place", "swap"} => Carries(t))
    BY Zenon DEF TypeOK, CallInv, CallOK, Carries
  <2>10. ASSUME LiveSlots' = LiveSlots, UNCHANGED <<ent, freed>>, pc'[t] # "swap",
                Carries(t)' => Carries(t) /\ inc'[t] = inc[t]
         PROVE  StorageInv'
    <3>1. LiveOwned' /\ \A v : Loose(v) => Loose(v)'
      BY <2>2, <2>10, Zenon DEF LiveOwned, Loose
    <3>2. \A u \in Threads : CarryOwned(u)'
      BY <1>1, <2>1, <2>10, <3>1, Zenon DEF CarryOwned
    <3>3. CarriesApart'
      <4>1. \A u \in Threads : pc'[u] # "swap" /\ (Carries(u)' => Carries(u) /\ inc'[u] = inc[u])
        BY <1>1, <2>1, <2>10, Zenon
      <4>2. QED
        BY <4>1, ApartKept, Zenon
    <3>4. QED
      BY <3>1, <3>2, <3>3, Zenon
  <2>11. ASSUME NEW s \in LiveSlots, Bury(s), pc[t] # "swap", pc'[t] # "swap",
                Carries(t)' => Carries(t) /\ inc'[t] = inc[t]
         PROVE  StorageInv'
    <3>0. \A v \in Release(ent[s]) : v = ent[s].val
      BY Zenon DEF Release
    <3>1. LiveSlots' = LiveSlots \ {s} /\ ent' = ent /\ \A v \in freed' : v \in freed \/ v = ent[s].val
      <4>1. state' = [state EXCEPT ![s] = "DEAD"] /\ freed' = freed \cup Release(ent[s]) /\ ent' = ent
        BY <2>11, Zenon DEF Bury
      <4>2. LiveSlots' = LiveSlots \ {s}
        BY <4>1, Zenon DEF LiveSlots, TypeOK
      <4>3. QED
        BY <3>0, <4>1, <4>2, Zenon
    <3>2. LiveOwned'
      <4>1. freed' \subseteq 0 .. calls
        <5>1. freed \subseteq 0 .. calls /\ ent[s].val \in 0 .. calls
          BY <1>2 DEF LiveOwned
        <5>2. QED
          BY <3>1, <5>1, Zenon
      <4>2. ASSUME NEW r \in LiveSlots, r # s
            PROVE  ent[r].val \in 1 .. calls /\ ent[r].val \notin freed'
        BY <3>1, <4>2, Zenon DEF LiveOwned
      <4>3. QED
        BY <2>2, <3>1, <4>1, <4>2, Zenon DEF LiveOwned
    <3>3. \A v : Loose(v) => Loose(v)'
      BY <2>2, <3>1, Zenon DEF Loose
    <3>4. \A u \in Threads : CarryOwned(u)'
      BY <1>1, <2>1, <2>11, <3>3, Zenon DEF CarryOwned
    <3>5. CarriesApart'
      <4>1. \A u \in Threads : pc'[u] # "swap" /\ (Carries(u)' => Carries(u) /\ inc'[u] = inc[u])
        BY <1>1, <2>1, <2>11, Zenon
      <4>2. QED
        BY <4>1, ApartKept, Zenon
    <3>6. QED
      BY <3>2, <3>4, <3>5, Zenon
  <2> USE DEF TypeOK, Goto, LiveSlots, Carries
  <2>21. CASE seq_write_end(t)
    BY <2>21, <2>3, <2>10, Zenon DEF seq_write_end
  <2>22. CASE remove_found(t)
    <3>1. PICK s \in LiveSlots : Bury(s)
      BY <2>22, Zenon DEF remove_found, shard_find, FirstMatch, Holds
    <3>2. QED
      BY <2>22, <2>11, <3>1, Zenon DEF remove_found, AfterLookup, StartInsert
  <2>23. CASE remove_notfound(t)
    BY <2>23, <2>3, <2>10, Zenon DEF remove_notfound, AfterLookup, StartInsert
  <2>24. CASE evict_pass(t)
    BY <2>24, <2>3, <2>10, Zenon DEF evict_pass
  <2>25. CASE evict_take(t)
    <3>1. NextSlot(slot[t]) \in LiveSlots
      BY <2>25, <2>3, SlotArithmetic, Zenon DEF evict_take
    <3>2. QED
      BY <2>25, <2>3, <2>11, <3>1, Zenon DEF evict_take, StartInsert
  <2>26. CASE evict_none(t)
    BY <2>26, <2>3, <2>10, ZenonT(30) DEF evict_none, StartInsert
  <2>27. CASE insert_claim(t)
    <3>1. /\ LiveSlots' = LiveSlots \ {slot[t]} /\ UNCHANGED <<ent, freed, inc, slot>>
          /\ Carries(t) /\ Carries(t)' /\ (pc'[t] = "swap" => slot[t] \in LiveSlots)
      BY <2>27, <2>3, Zenon DEF insert_claim
    <3> HIDE DEF LiveSlots, Carries
    <3>2. LiveOwned' /\ \A v : Loose(v) => Loose(v)'
      BY <2>2, <3>1, Zenon DEF LiveOwned, Loose
    <3>3. pc'[t] = "swap" => Loose(ent[slot[t]].val)'
      BY <2>2, <3>1, Zenon DEF LiveOwned, Loose
    <3>4. \A u \in Threads : pc'[t] = "swap" /\ Carries(u) => inc[u].val # ent[slot[t]].val
      BY <3>1, Zenon DEF CarryOwned, Loose
    <3>5. CarryOwned(t)'
      BY <3>1, <3>2, <3>3, Zenon DEF CarryOwned
    <3>6. ASSUME NEW u \in Threads, u # t PROVE CarryOwned(u)'
      BY <1>1, <2>1, <3>2, <3>6, Zenon DEF CarryOwned
    <3>7. \A u \in Threads : Carries(u)' => Carries(u) /\ inc'[u] = inc[u]
      BY <1>1, <3>1, Zenon
    <3>8. ASSUME NEW u \in Threads, NEW w \in Threads, Carries(u)', Carries(w)', inc'[u].val = inc'[w].val
          PROVE  u = w
      BY <3>7, <3>8, Zenon DEF CarriesApart
    <3>9. ASSUME NEW u \in Threads, NEW w \in Threads, pc'[u] = "swap", Carries(w)'
          PROVE  inc'[w].val # ent'[slot'[u]].val
      <4>1. u = t
        BY <2>1, <3>9, Zenon
      <4>2. QED
        BY <3>1, <3>4, <3>7, <3>9, <4>1, Zenon
    <3>10. CarriesApart'
      BY <3>8, <3>9, Zenon DEF CarriesApart
    <3>11. QED
      BY <3>2, <3>5, <3>6, <3>10, Zenon
  <2>28. CASE insert_pass(t)
    BY <2>28, <2>3, <2>10, Zenon DEF insert_pass, Advance
  <2>29. CASE insert_place(t)
    <3>1. /\ LiveSlots' = LiveSlots \cup {slot[t]} /\ freed' = freed
          /\ ent' = [ent EXCEPT ![slot[t]] = inc[t]]
          /\ Carries(t) /\ ~Carries(t)' /\ pc'[t] # "swap"
      <4>1. LiveSlots' = LiveSlots \cup {slot[t]}
        BY <2>29, StoreSlots, Zenon DEF insert_place
      <4>2. /\ freed' = freed /\ ent' = [ent EXCEPT ![slot[t]] = inc[t]]
            /\ Carries(t) /\ ~Carries(t)' /\ pc'[t] # "swap"
        BY <2>29, <2>3, Zenon DEF insert_place, Store
      <4>3. QED
        BY <4>1, <4>2, Zenon
    <3> HIDE DEF LiveSlots, Carries
    <3>2. ent'[slot[t]] = inc[t] /\ \A s \in Slots : s # slot[t] => ent'[s] = ent[s]
      BY <2>3, <3>1, Zenon
    <3>3. LiveSlots \subseteq Slots
      BY Zenon DEF LiveSlots
    <3>4. Loose(inc[t].val)
      BY <3>1, Zenon DEF CarryOwned
    <3>5. LiveOwned'
      BY <2>2, <2>3, <3>1, <3>2, <3>3, <3>4, StoreOwned, Zenon
    <3>6. \A v : Loose(v) /\ v # inc[t].val => Loose(v)'
      BY <2>2, <3>1, <3>2, <3>3, ZenonT(30) DEF Loose
    <3>7. \A u \in Threads : u # t /\ Carries(u) => inc[u].val # inc[t].val
      BY <3>1, Zenon DEF CarriesApart
    <3>8. \A u \in Threads : CarryOwned(u)'
      BY <1>1, <2>1, <3>1, <3>6, <3>7, ZenonT(30) DEF CarryOwned
    <3>9. CarriesApart'
      <4>1. \A u \in Threads : pc'[u] # "swap" /\ (Carries(u)' => Carries(u) /\ inc'[u] = inc[u])
        BY <1>1, <2>1, <3>1, Zenon
      <4>2. QED
        BY <4>1, ApartKept, Zenon
    <3>10. QED
      BY <3>5, <3>8, <3>9, Zenon
  <2>30. CASE insert_swap(t)
    <3>1. /\ LiveSlots' = LiveSlots \cup {slot[t]} /\ freed' = freed
          /\ ent' = [ent EXCEPT ![slot[t]] = inc[t]] /\ inc'[t] = ent[slot[t]]
          /\ Carries(t) /\ pc[t] = "swap" /\ pc'[t] # "swap"
      <4>1. LiveSlots' = LiveSlots \cup {slot[t]}
        BY <2>30, StoreSlots, Zenon DEF insert_swap
      <4>2. /\ freed' = freed /\ ent' = [ent EXCEPT ![slot[t]] = inc[t]]
            /\ inc'[t] = ent[slot[t]] /\ Carries(t) /\ pc[t] = "swap" /\ pc'[t] # "swap"
        BY <2>30, <2>3, Zenon DEF insert_swap, Store, Advance
      <4>3. QED
        BY <4>1, <4>2, Zenon
    <3> HIDE DEF LiveSlots, Carries
    <3>2. ent'[slot[t]] = inc[t] /\ \A s \in Slots : s # slot[t] => ent'[s] = ent[s]
      BY <2>3, <3>1, Zenon
    <3>3. LiveSlots \subseteq Slots
      BY Zenon DEF LiveSlots
    <3>4. Loose(inc[t].val) /\ Loose(ent[slot[t]].val) /\ inc[t].val # ent[slot[t]].val
      BY <3>1, Zenon DEF CarryOwned, CarriesApart
    <3>5. LiveOwned'
      BY <2>2, <2>3, <3>1, <3>2, <3>3, <3>4, StoreOwned, Zenon
    <3>6. \A v : Loose(v) /\ v # inc[t].val => Loose(v)'
      BY <2>2, <3>1, <3>2, <3>3, ZenonT(30) DEF Loose
    <3>7. \A u \in Threads : u # t /\ Carries(u) => inc[u].val # inc[t].val /\ inc[u].val # ent[slot[t]].val
      BY <3>1, Zenon DEF CarriesApart
    <3>8. Loose(inc[t].val)'
      BY <2>2, <3>1, <3>2, <3>3, <3>4, ZenonT(30) DEF Loose
    <3>9. \A u \in Threads : CarryOwned(u)'
      BY <1>1, <2>1, <3>1, <3>6, <3>7, <3>8, ZenonT(30) DEF CarryOwned
    <3>10. CarriesApart'
      <4>1. \A u \in Threads : pc'[u] # "swap"
        BY <2>1, <3>1, Zenon
      <4>2. ASSUME NEW u \in Threads, NEW w \in Threads, Carries(u)', Carries(w)',
                   inc'[u].val = inc'[w].val
            PROVE  u = w
        <5>1. ASSUME NEW x \in Threads, x # t, Carries(x)' PROVE inc'[x].val # inc'[t].val
          BY <1>1, <3>1, <3>7, <5>1, ZenonT(30)
        <5>2. CASE u # t /\ w # t
          BY <1>1, <4>2, <5>2, ZenonT(30) DEF CarriesApart
        <5>3. QED
          BY <4>2, <5>1, <5>2, Zenon
      <4>3. QED
        BY <4>1, <4>2, Zenon DEF CarriesApart
    <3>11. QED
      BY <3>5, <3>9, <3>10, Zenon
  <2>31. CASE insert_drop(t)
    BY <2>31, <2>3, <2>10, Zenon DEF insert_drop
  <2>32. CASE flush_slot(t)
    <3>1. CASE state[it[t]] = "LIVE"
      <4>1. it[t] \in LiveSlots
        BY <2>32, <3>1, SlotArithmetic, ZenonT(30) DEF flush_slot
      <4>2. QED
        BY <2>32, <2>11, <3>1, <4>1, ZenonT(30) DEF flush_slot
    <3>2. CASE state[it[t]] # "LIVE"
      BY <2>32, <2>10, <3>2, ZenonT(30) DEF flush_slot
    <3>3. QED
      BY <3>1, <3>2, Zenon
  <2>33. CASE flush_count(t)
    BY <2>33, <2>3, <2>10, Zenon DEF flush_count
  <2>40. QED
    BY <1>4, <2>21, <2>22, <2>23, <2>24, <2>25, <2>26, <2>27, <2>28, <2>29, <2>30, <2>31, <2>32,
     <2>33, ZenonT(30)
    DEF WriteStep
<1>5. QED
  BY <1>3, <1>4, StepKinds, Zenon

\* StorageInv holds in every reachable state.
LEMMA StorageInvariant == Spec => []StorageInv
<1>1. Init => StorageInv
  BY Zenon DEF Init, StorageInv, LiveOwned, LiveSlots, CarryOwned, CarriesApart, Carries
<1>2. Base /\ Base' /\ StorageInv /\ [Next]_vars => StorageInv'
  <2> SUFFICES ASSUME Base, Base', StorageInv, [Next]_vars PROVE StorageInv'
    BY Zenon
  <2>1. ASSUME UNCHANGED <<state, ent, freed, calls, pc, op, inc, slot>> PROVE StorageInv'
    BY <2>1, ZenonT(30) DEF StorageInv, LiveOwned, LiveSlots, CarryOwned, CarriesApart, Carries, Loose
  <2>2. QED
    BY <2>1, StorageStep, NextKinds, Zenon DEF Tick
<1>3. QED
  BY <1>1, <1>2, BaseInvariant, PTL DEF Spec

\* entry_free_resources releases a block only once and only while no other
\* entry holds it: every live entry's value is its own and is not released.
THEOREM StorageCorrect == Spec => []StorageOwnedOnce
<1>1. StorageInv => StorageOwnedOnce
  BY Zenon DEF StorageInv, LiveOwned, StorageOwnedOnce
<1>2. QED
  BY <1>1, StorageInvariant, PTL

-----------------------------------------------------------------------------
(* Keys.                                                                   *)

\* No entry of the table has key k.
NewKey(k) == \A s \in LiveSlots : ent[s].key # k

\* The keys of the table and of the entries threads carry, and (only if no
\* caller asks for a TTL) that none of these entries expires.
LiveUnique ==
    /\ TTLs = {0} => \A s \in LiveSlots : ent[s].exp = 0
    /\ \A r, s \in LiveSlots : ent[r].key = ent[s].key => r = s

CarryUnique(t) ==
    /\ TTLs = {0} /\ Carries(t) => inc[t].exp = 0
    /\ pc[t] \in {"evict", "insert", "place", "swap"} => NewKey(inc[t].key)
    /\ pc[t] = "swap" => /\ TTLs = {0} => ent[slot[t]].exp = 0
                         /\ ent[slot[t]].key # inc[t].key
                         /\ NewKey(ent[slot[t]].key)

KeysUnique == LiveUnique /\ \A t \in Threads : CarryUnique(t)

\* No entry of the table has expired.
Fresh == \A s \in LiveSlots : ~entry_expired(ent[s])

UniqueInv == TTLs = {0} => KeysUnique

\* The only live entry of a key is the one _shard_find returns.
LEMMA FoundIfThere ==
    ASSUME Base, LiveUnique, Fresh, NEW r \in LiveSlots
    PROVE  r \in Slots /\ ent[r].key \in Keys /\ shard_find(ent[r].key, r)
<1> DEFINE k == ent[r].key
<1>1. r \in Slots /\ k \in Keys /\ Chained(k, r) /\ Holds(k, r)
  BY Zenon DEF Base, ChainInv, LiveChained, Holds, LiveSlots
<1>2. ASSUME NEW j \in Slots, probe_dist(Home[k], j) < probe_dist(Home[k], r), Holds(k, j)
      PROVE  FALSE
  <2>1. j = r
    BY <1>2, Zenon DEF Holds, LiveSlots, LiveUnique
  <2>2. probe_dist(Home[k], r) \in Int
    BY <1>1, SlotArithmetic, CapAssumption DEF probe_dist, Slots
  <2>3. QED
    BY <1>2, <2>1, <2>2
<1>3. QED
  BY <1>1, <1>2, Zenon DEF shard_find, FirstMatch, Chained, Fresh

\* Storing an entry whose key is not in the table keeps the keys unique.
LEMMA StoreUnique ==
    ASSUME LiveUnique, LiveSlots \subseteq Slots, NEW x \in Slots, LiveSlots' = LiveSlots \cup {x},
           \A s \in Slots : s # x => ent'[s] = ent[s],
           \A s \in LiveSlots : ent[s].key # ent'[x].key,
           TTLs = {0} => ent'[x].exp = 0
    PROVE  LiveUnique'
<1>1. ASSUME NEW s \in LiveSlots', s # x PROVE s \in LiveSlots /\ ent'[s] = ent[s] /\ ent'[s].key # ent'[x].key
  BY <1>1, Zenon
<1>2. TTLs = {0} => \A s \in LiveSlots' : ent'[s].exp = 0
  BY <1>1, Zenon DEF LiveUnique
<1>3. ASSUME NEW r \in LiveSlots', NEW s \in LiveSlots', ent'[r].key = ent'[s].key PROVE r = s
  <2>1. CASE r = x \/ s = x
    BY <1>1, <1>3, <2>1, Zenon
  <2>2. CASE r # x /\ s # x
    BY <1>1, <1>3, <2>2, Zenon DEF LiveUnique
  <2>3. QED
    BY <2>1, <2>2, Zenon
<1>4. QED
  BY <1>2, <1>3, Zenon DEF LiveUnique

\* While no entry has expired, every step keeps the keys unique: vc_set removes
\* the key's entry before it inserts the new one, and displaced entries only move.
LEMMA UniqueStep ==
    ASSUME Base, Base', KeysUnique, Fresh, NEW t \in Threads, Step(t)
    PROVE  KeysUnique'
<1> USE DEF Base
<1>0. LiveUnique /\ \A u \in Threads : CarryUnique(u)
  BY Zenon DEF KeysUnique
<1>1. ASSUME NEW u \in Threads, u # t
      PROVE  (Carries(u)' <=> Carries(u)) /\ inc'[u] = inc[u] /\ pc'[u] = pc[u] /\ slot'[u] = slot[u]
  BY <1>1, OthersUnchanged, Zenon DEF Carries
<1>3. CASE QuietStep(t)
  <2>1. LiveSlots' = LiveSlots /\ ent' = ent /\ ~InWrite(t)
        /\ pc'[t] \notin {"evict", "insert", "place", "swap"}
    BY <1>3, Zenon DEF QuietStep, LiveSlots
  <2>2. LiveUnique'
    BY <1>0, <2>1, ZenonT(30) DEF LiveUnique
  <2>3. ASSUME NEW u \in Threads, u # t PROVE CarryUnique(u)'
    <3>1. CarryUnique(u) /\ inc'[u] = inc[u] /\ pc'[u] = pc[u] /\ slot'[u] = slot[u]
      BY <1>0, <1>1, <2>3, Zenon
    <3>2. Carries(u)' => Carries(u)
      BY <1>1, <2>3, Zenon
    <3>3. NewKey(inc[u].key) => NewKey(inc[u].key)'
      BY <2>1, <3>1, Zenon DEF NewKey
    <3>4. NewKey(ent[slot[u]].key) => NewKey(ent[slot[u]].key)'
      BY <2>1, <3>1, Zenon DEF NewKey
    <3>5. QED
      BY <2>1, <3>1, <3>2, <3>3, <3>4, Zenon DEF CarryUnique
  <2>4. TTLs = {0} /\ Carries(t)' => inc'[t].exp = 0
    BY <1>0, <2>1, CarryKinds, Zenon DEF CarryUnique
  <2>5. QED
    BY <2>1, <2>2, <2>3, <2>4, Zenon DEF KeysUnique, CarryUnique
<1>4. CASE InWrite(t) /\ WriteStep(t)
  <2>1. \A u \in Threads : u # t => pc'[u] \notin {"evict", "insert", "place", "swap"}
    BY <1>1, <1>4, ZenonT(30) DEF WriterExclusion, HasLock, InWrite
  <2>2. ASSUME NEW u \in Threads, u # t PROVE CarryUnique(u)'
    BY <1>0, <1>1, <2>1, <2>2, ZenonT(30) DEF CarryUnique
  <2>3. slot[t] \in Slots /\ (pc[t] \in {"evict", "insert", "place", "swap"} => Carries(t))
    BY Zenon DEF TypeOK, CallInv, CallOK, Carries
  <2>4. CarryUnique(t) /\ LiveSlots \subseteq Slots
    BY <1>0, Zenon DEF LiveSlots
  <2>10. ASSUME \A s \in LiveSlots' : s \in LiveSlots, ent' = ent, pc'[t] # "swap",
                Carries(t)' => Carries(t) /\ inc'[t] = inc[t],
                pc'[t] \in {"evict", "insert", "place"} => Carries(t)' /\ NewKey(inc[t].key)'
         PROVE  KeysUnique'
    <3>1. LiveUnique'
      BY <1>0, <2>10, Zenon DEF LiveUnique
    <3>2. CarryUnique(t)'
      BY <1>0, <2>10, Zenon DEF CarryUnique, NewKey
    <3>3. QED
      BY <2>2, <3>1, <3>2, Zenon DEF KeysUnique
  <2>11. ASSUME \A s \in LiveSlots' : s \in LiveSlots, ent' = ent, NEW k, NewKey(k)
         PROVE  NewKey(k)'
    BY <2>11, Zenon DEF NewKey
  <2>12. pc[t] = "find" /\ op[t] = "set" => Carries(t) /\ key[t] = inc[t].key
    BY Zenon DEF CallInv, CallOK, Carries
  <2>21. CASE seq_write_end(t)
    BY <2>21, <2>3, <2>4, <2>10, ZenonT(30) DEF seq_write_end, TypeOK, Goto, LiveSlots, Carries, CarryUnique, NewKey
  <2>22. CASE remove_found(t)
    <3>1. PICK s \in Slots : shard_find(key[t], s) /\ Bury(s)
      BY <2>22, Zenon DEF remove_found
    <3>2. s \in LiveSlots /\ ent[s].key = key[t] /\ LiveSlots' = LiveSlots \ {s} /\ ent' = ent
      BY <3>1, Zenon DEF shard_find, FirstMatch, Holds, Bury, LiveSlots, TypeOK
    <3>3. \A r \in LiveSlots' : ent'[r].key # key[t]
      BY <1>0, <3>2, Zenon DEF LiveUnique
    <3>4. /\ op' = op /\ inc' = inc /\ pc[t] = "find"
          /\ \/ op[t] = "del" /\ pc'[t] = "wend"
             \/ op[t] = "set" /\ pc'[t] \in {"evict", "insert"}
      BY <2>22, Zenon DEF remove_found, AfterLookup, StartInsert, TypeOK, Goto
    <3>5. op[t] = "set" => Carries(t) /\ Carries(t)' /\ NewKey(inc[t].key)'
      BY <2>12, <3>3, <3>4, Zenon DEF Carries, NewKey
    <3>6. op[t] = "del" => ~Carries(t)'
      BY <3>4, Zenon DEF Carries
    <3>7. (\A r \in LiveSlots' : r \in LiveSlots) /\ pc'[t] # "swap"
      BY <3>2, <3>4, Zenon
    <3>8. pc'[t] \in {"evict", "insert", "place"} => op[t] = "set"
      BY <3>4, Zenon
    <3>9. QED
      BY <2>10, <3>2, <3>4, <3>5, <3>6, <3>7, <3>8, Zenon
  <2>23. CASE remove_notfound(t)
    <3>1. LiveSlots' = LiveSlots /\ ent' = ent /\ key[t] \in Keys /\ ~ \E s \in Slots : shard_find(key[t], s)
      BY <2>23, Zenon DEF remove_notfound, LiveSlots, CallInv, CallOK
    <3>2. ASSUME NEW r \in LiveSlots, ent[r].key = key[t] PROVE FALSE
      BY <1>0, <3>1, <3>2, FoundIfThere, Zenon
    <3>3. QED
      BY <2>23, <2>10, <2>12, <3>1, <3>2, ZenonT(30)
      DEF remove_notfound, AfterLookup, StartInsert, TypeOK, Goto, Carries, NewKey
  <2>24. CASE evict_pass(t)
    BY <2>24, <2>3, <2>4, <2>10, ZenonT(30) DEF evict_pass, TypeOK, Goto, LiveSlots, Carries, CarryUnique, NewKey
  <2>25. CASE evict_take(t)
    BY <2>25, <2>3, <2>4, <2>10, ZenonT(30) DEF evict_take, Bury, StartInsert, TypeOK, Goto, LiveSlots, Carries, CarryUnique, NewKey
  <2>26. CASE evict_none(t)
    BY <2>26, <2>3, <2>4, <2>10, ZenonT(30) DEF evict_none, StartInsert, TypeOK, Goto, LiveSlots, Carries, CarryUnique, NewKey
  <2>27. CASE insert_claim(t)
    <3>1. /\ LiveSlots' = LiveSlots \ {slot[t]} /\ UNCHANGED <<ent, inc, slot>> /\ pc[t] = "insert"
          /\ Carries(t) /\ (pc'[t] = "swap" => slot[t] \in LiveSlots)
      BY <2>27, <2>3, Zenon DEF insert_claim, LiveSlots, TypeOK, Goto
    <3>2. LiveUnique'
      BY <1>0, <3>1, Zenon DEF LiveUnique
    <3>3. NewKey(inc[t].key) /\ (TTLs = {0} => inc[t].exp = 0)
      BY <2>4, <3>1, Zenon DEF CarryUnique
    <3>4. CarryUnique(t)'
      BY <1>0, <3>1, <3>3, Zenon DEF CarryUnique, NewKey, LiveUnique
    <3>5. QED
      BY <2>2, <3>2, <3>4, Zenon DEF KeysUnique
  <2>28. CASE insert_pass(t)
    BY <2>28, <2>3, <2>4, <2>10, ZenonT(30) DEF insert_pass, Advance, TypeOK, Goto, LiveSlots, Carries, CarryUnique, NewKey
  <2>29. CASE insert_place(t)
    <3>1. /\ LiveSlots' = LiveSlots \cup {slot[t]} /\ pc[t] = "place" /\ pc'[t] = "wend"
          /\ ent' = [ent EXCEPT ![slot[t]] = inc[t]] /\ ~Carries(t)'
      <4>1. LiveSlots' = LiveSlots \cup {slot[t]}
        BY <2>29, StoreSlots, Zenon DEF insert_place
      <4>2. /\ pc[t] = "place" /\ pc'[t] = "wend"
            /\ ent' = [ent EXCEPT ![slot[t]] = inc[t]] /\ ~Carries(t)'
        BY <2>29, <2>3, Zenon DEF insert_place, Store, TypeOK, Goto, Carries
      <4>3. QED
        BY <4>1, <4>2, Zenon
    <3>2. ent'[slot[t]] = inc[t] /\ \A s \in Slots : s # slot[t] => ent'[s] = ent[s]
      BY <2>29, StoreSlots, Zenon DEF insert_place
    <3>3. NewKey(inc[t].key) /\ (TTLs = {0} => inc[t].exp = 0)
      BY <2>3, <2>4, <3>1, ZenonT(30) DEF CarryUnique
    <3>4. LiveUnique'
      <4>1. (\A s \in LiveSlots : ent[s].key # ent'[slot[t]].key) /\ (TTLs = {0} => ent'[slot[t]].exp = 0)
        BY <3>2, <3>3, Zenon DEF NewKey
      <4>2. slot[t] \in Slots /\ LiveUnique /\ LiveSlots \subseteq Slots
        BY <1>0, <2>3, <2>4, Zenon
      <4>3. LiveSlots' = LiveSlots \cup {slot[t]} /\ \A s \in Slots : s # slot[t] => ent'[s] = ent[s]
        BY <3>1, <3>2, Zenon
      <4>4. QED
        BY <4>1, <4>2, <4>3, StoreUnique, Zenon
    <3>5. CarryUnique(t)'
      BY <3>1, ZenonT(30) DEF CarryUnique
    <3>6. QED
      BY <2>2, <3>4, <3>5, Zenon DEF KeysUnique
  <2>30. CASE insert_swap(t)
    <3>1. /\ LiveSlots' = LiveSlots \cup {slot[t]} /\ pc[t] = "swap" /\ pc'[t] = "insert"
          /\ ent' = [ent EXCEPT ![slot[t]] = inc[t]] /\ inc'[t] = ent[slot[t]]
      <4>1. LiveSlots' = LiveSlots \cup {slot[t]}
        BY <2>30, StoreSlots, Zenon DEF insert_swap
      <4>2. /\ pc[t] = "swap" /\ pc'[t] = "insert"
            /\ ent' = [ent EXCEPT ![slot[t]] = inc[t]] /\ inc'[t] = ent[slot[t]]
        BY <2>30, <2>3, Zenon DEF insert_swap, Store, Advance, TypeOK, Goto
      <4>3. QED
        BY <4>1, <4>2, Zenon
    <3>2. ent'[slot[t]] = inc[t] /\ \A s \in Slots : s # slot[t] => ent'[s] = ent[s]
      BY <2>30, StoreSlots, Zenon DEF insert_swap
    <3>3. /\ NewKey(inc[t].key) /\ NewKey(ent[slot[t]].key) /\ ent[slot[t]].key # inc[t].key
          /\ TTLs = {0} => inc[t].exp = 0 /\ ent[slot[t]].exp = 0
      BY <2>3, <2>4, <3>1, ZenonT(30) DEF CarryUnique
    <3>4. LiveUnique'
      <4>1. (\A s \in LiveSlots : ent[s].key # ent'[slot[t]].key) /\ (TTLs = {0} => ent'[slot[t]].exp = 0)
        BY <3>2, <3>3, Zenon DEF NewKey
      <4>2. slot[t] \in Slots /\ LiveUnique /\ LiveSlots \subseteq Slots
        BY <1>0, <2>3, <2>4, Zenon
      <4>3. LiveSlots' = LiveSlots \cup {slot[t]} /\ \A s \in Slots : s # slot[t] => ent'[s] = ent[s]
        BY <3>1, <3>2, Zenon
      <4>4. QED
        BY <4>1, <4>2, <4>3, StoreUnique, Zenon
    <3>5. NewKey(inc[t].key)'
      BY <2>4, <3>1, <3>2, <3>3, Zenon DEF NewKey
    <3>6. CarryUnique(t)'
      BY <3>1, <3>3, <3>5, Zenon DEF CarryUnique
    <3>7. QED
      BY <2>2, <3>4, <3>6, Zenon DEF KeysUnique
  <2>31. CASE insert_drop(t)
    BY <2>31, <2>3, <2>4, <2>10, ZenonT(30) DEF insert_drop, TypeOK, Goto, LiveSlots, Carries, CarryUnique, NewKey
  <2>32. CASE flush_slot(t)
    BY <2>32, <2>3, <2>4, <2>10, ZenonT(30) DEF flush_slot, Bury, TypeOK, Goto, LiveSlots, Carries, CarryUnique, NewKey
  <2>33. CASE flush_count(t)
    BY <2>33, <2>3, <2>4, <2>10, ZenonT(30) DEF flush_count, TypeOK, Goto, LiveSlots, Carries, CarryUnique, NewKey
  <2>40. QED
    BY <1>4, <2>21, <2>22, <2>23, <2>24, <2>25, <2>26, <2>27, <2>28, <2>29, <2>30, <2>31, <2>32,
     <2>33, ZenonT(30)
    DEF WriteStep
<1>5. QED
  BY <1>3, <1>4, StepKinds, Zenon

\* UniqueInv holds in every reachable state.
LEMMA UniqueInvariant == Spec => []UniqueInv
<1>1. Init => UniqueInv
  BY ZenonT(30) DEF Init, UniqueInv, KeysUnique, LiveUnique, LiveSlots, CarryUnique, Carries
<1>2. Base /\ Base' /\ UniqueInv /\ [Next]_vars => UniqueInv'
  <2> SUFFICES ASSUME Base, Base', KeysUnique, TTLs = {0}, [Next]_vars PROVE KeysUnique'
    BY Zenon DEF UniqueInv
  <2>1. Fresh
    BY Zenon DEF KeysUnique, LiveUnique, Fresh, entry_expired
  <2>2. ASSUME UNCHANGED <<state, ent, pc, op, inc, slot>> PROVE KeysUnique'
    BY <2>2, ZenonT(30) DEF KeysUnique, LiveUnique, LiveSlots, CarryUnique, Carries, NewKey
  <2>3. QED
    BY <2>1, <2>2, UniqueStep, NextKinds, Zenon DEF Tick
<1>3. QED
  BY <1>1, <1>2, BaseInvariant, PTL DEF Spec

\* While no caller asks for a TTL, vc_set's removal of the old entry leaves
\* _shard_insert a table in which the key does not occur.
THEOREM UniqueCorrect == Spec => []NoDuplicates
<1>1. UniqueInv => NoDuplicates
  BY Zenon DEF UniqueInv, KeysUnique, LiveUnique, NoDuplicates
<1>2. QED
  BY <1>1, UniqueInvariant, PTL

-----------------------------------------------------------------------------
(* The insertion loop visits the slots in the order of key[t]'s probe       *)
(* sequence and leaves each of them live.                                  *)

Filled(k, n) == \A j \in Slots : probe_dist(Home[k], j) < n => state[j] = "LIVE"

DropOK(t) ==
    Inserting(t) => /\ it[t] < Cap => probe_dist(Home[key[t]], slot[t]) = it[t]
                    /\ Filled(key[t], it[t])

DropInv == \A t \in Threads : DropOK(t)

\* Going on from a live slot.
LEMMA FilledOne ==
    ASSUME NEW k \in Keys, NEW s \in Slots, NEW n \in 0 .. Cap, probe_dist(Home[k], s) = n,
           \A j \in Slots : probe_dist(Home[k], j) < n => state'[j] = "LIVE", state'[s] = "LIVE"
    PROVE  /\ Filled(k, n + 1)'
           /\ n + 1 < Cap => probe_dist(Home[k], NextSlot(s)) = n + 1
<1>1. Home[k] \in Slots
  BY SlotArithmetic, Zenon
<1>2. n + 1 < Cap => probe_dist(Home[k], NextSlot(s)) = n + 1
  BY <1>1, ProbeFacts, Zenon
<1>3. ASSUME NEW j \in Slots, probe_dist(Home[k], j) < n + 1 PROVE state'[j] = "LIVE"
  <2>1. probe_dist(Home[k], j) \in Int /\ (probe_dist(Home[k], j) = n => j = s)
    BY <1>1, ProbeFacts
  <2>2. QED
    BY <1>3, <2>1, CapAssumption
<1>4. QED
  BY <1>2, <1>3, Zenon DEF Filled

\* Every step keeps DropInv: the insertion loop of _shard_insert passes a slot
\* only when it is live, and makes live the one it swaps.
LEMMA DropStep ==
    ASSUME Base, Base', DropInv, NEW t \in Threads, Step(t)
    PROVE  DropInv'
<1> USE DEF Base
<1>1. CASE QuietStep(t)
  <2>1. ASSUME NEW u \in Threads, u # t PROVE DropOK(u)'
    BY <1>1, <2>1, OthersUnchanged, ZenonT(30) DEF QuietStep, DropInv, DropOK, Filled, Inserting
  <2>2. DropOK(t)'
    BY <1>1, Zenon DEF QuietStep, DropOK, Inserting
  <2>3. QED
    BY <2>1, <2>2, Zenon DEF DropInv
<1>2. CASE InWrite(t) /\ WriteStep(t)
  <2>1. ASSUME NEW u \in Threads, u # t PROVE DropOK(u)'
    <3>1. ~HasLock(u)
      BY <1>2, <2>1, Zenon DEF WriterExclusion, HasLock
    <3>2. pc'[u] = pc[u]
      BY <2>1, OthersUnchanged, Zenon
    <3>3. QED
      BY <3>1, <3>2, Zenon DEF HasLock, InWrite, DropOK, Inserting
  <2>2. SUFFICES DropOK(t)'
    BY <2>1, Zenon DEF DropInv
  <2>3. ASSUME pc'[t] \notin {"insert", "place", "swap"} PROVE DropOK(t)'
    BY <2>3, Zenon DEF DropOK, Inserting
  <2>4. DropOK(t) /\ slot[t] \in Slots /\ it[t] \in 0 .. Cap
    BY Zenon DEF DropInv, TypeOK
  <2>5. pc[t] \in {"find", "evict", "insert", "place", "swap"} => key[t] \in Keys
    BY Zenon DEF CallInv, CallOK
  <2>6. ASSUME StartInsert(t), key'[t] = key[t], key[t] \in Keys PROVE DropOK(t)'
    <3>1. Home[key[t]] \in Slots
      BY <2>6, SlotArithmetic, Zenon
    <3>2. slot'[t] = Home[key[t]] /\ it'[t] = 0
      BY <2>6, Zenon DEF StartInsert, TypeOK
    <3>3. probe_dist(Home[key[t]], Home[key[t]]) = 0
          /\ \A j \in Slots : ~(probe_dist(Home[key[t]], j) < 0)
      BY <3>1, ProbeFacts, ProbeHome, Zenon
    <3>4. QED
      BY <2>6, <3>2, <3>3, Zenon DEF DropOK, Filled
  <2>21. CASE seq_write_end(t)
    BY <2>21, <2>3, Zenon DEF seq_write_end, TypeOK, Goto
  <2>22. CASE remove_found(t)
    BY <2>22, <2>3, <2>5, <2>6, ZenonT(30) DEF remove_found, AfterLookup, TypeOK, Goto
  <2>23. CASE remove_notfound(t)
    BY <2>23, <2>3, <2>5, <2>6, ZenonT(30) DEF remove_notfound, AfterLookup, TypeOK, Goto
  <2>24. CASE evict_pass(t)
    BY <2>24, <2>3, Zenon DEF evict_pass
  <2>25. CASE evict_take(t)
    BY <2>25, <2>5, <2>6, Zenon DEF evict_take
  <2>26. CASE evict_none(t)
    BY <2>26, <2>5, <2>6, Zenon DEF evict_none
  <2>27. CASE insert_claim(t)
    <3>1. PICK k \in Keys, s \in Slots, n \in 0 .. Cap : k = key[t] /\ s = slot[t] /\ n = it[t]
      BY <2>27, <2>4, <2>5, Zenon DEF insert_claim
    <3>2. n < Cap /\ probe_dist(Home[k], s) = n /\ Filled(k, n)
      BY <2>27, <2>4, <3>1, Zenon DEF insert_claim, DropOK, Inserting
    <3>3. /\ state' = [state EXCEPT ![s] = "BUSY"]
          /\ key'[t] = k /\ slot'[t] = s /\ it'[t] = n
      BY <2>27, <3>1, ZenonT(30) DEF insert_claim
    <3>4. \A j \in Slots : probe_dist(Home[k], j) < n => state'[j] = state[j]
      <4> SUFFICES ASSUME NEW j \in Slots, probe_dist(Home[k], j) < n PROVE state'[j] = state[j]
        BY Zenon
      <4>1. j # s
        BY <3>2
      <4> QED
        BY <3>3, <4>1, Zenon DEF TypeOK
    <3>5. Filled(k, n)'
      BY <3>2, <3>4, Zenon DEF Filled
    <3>6. QED
      BY <3>2, <3>3, <3>5, Zenon DEF DropOK
  <2>28. CASE insert_pass(t)
    <3>1. PICK k \in Keys, s \in Slots, n \in 0 .. Cap : k = key[t] /\ s = slot[t] /\ n = it[t]
      BY <2>28, <2>4, <2>5, Zenon DEF insert_pass
    <3>2. n < Cap /\ probe_dist(Home[k], s) = n /\ Filled(k, n)
      BY <2>28, <2>4, <3>1, ZenonT(30) DEF insert_pass, DropOK, Inserting, CallInv, CallOK
    <3>3. state'[s] = "LIVE" /\ \A j \in Slots : state[j] = "LIVE" => state'[j] = "LIVE"
      BY <2>28, <3>1, Zenon DEF insert_pass, TypeOK
    <3>4. key'[t] = k /\ slot'[t] = NextSlot(s) /\ it'[t] = n + 1
      BY <2>28, <3>1, ZenonT(30) DEF insert_pass, Advance, TypeOK
    <3>5. /\ Filled(k, n + 1)'
          /\ n + 1 < Cap => probe_dist(Home[k], NextSlot(s)) = n + 1
      BY <3>2, <3>3, FilledOne, ZenonT(30) DEF Filled
    <3>6. QED
      BY <3>4, <3>5, Zenon DEF DropOK
  <2>29. CASE insert_place(t)
    BY <2>29, <2>3, ZenonT(30) DEF insert_place, Store, TypeOK, Goto
  <2>30. CASE insert_swap(t)
    <3>1. PICK k \in Keys, s \in Slots, n \in 0 .. Cap : k = key[t] /\ s = slot[t] /\ n = it[t]
      BY <2>30, <2>4, <2>5, Zenon DEF insert_swap
    <3>2. n < Cap /\ probe_dist(Home[k], s) = n /\ Filled(k, n)
      BY <2>30, <2>4, <3>1, Zenon DEF insert_swap, DropOK, Inserting, CallInv, CallOK
    <3>3. state'[s] = "LIVE" /\ \A j \in Slots : state[j] = "LIVE" => state'[j] = "LIVE"
      BY <2>30, <3>1, Zenon DEF insert_swap, Store, TypeOK
    <3>4. key'[t] = k /\ slot'[t] = NextSlot(s) /\ it'[t] = n + 1
      BY <2>30, <3>1, ZenonT(30) DEF insert_swap, Advance, TypeOK
    <3>5. /\ Filled(k, n + 1)'
          /\ n + 1 < Cap => probe_dist(Home[k], NextSlot(s)) = n + 1
      BY <3>2, <3>3, FilledOne, ZenonT(30) DEF Filled
    <3>6. QED
      BY <3>4, <3>5, Zenon DEF DropOK
  <2>31. CASE insert_drop(t)
    BY <2>31, <2>3, Zenon DEF insert_drop, TypeOK, Goto
  <2>32. CASE flush_slot(t)
    BY <2>32, <2>3, Zenon DEF flush_slot
  <2>33. CASE flush_count(t)
    BY <2>33, <2>3, Zenon DEF flush_count, TypeOK, Goto
  <2>40. QED
    BY <1>2, <2>2, <2>21, <2>22, <2>23, <2>24, <2>25, <2>26, <2>27, <2>28, <2>29, <2>30, <2>31, <2>32,
     <2>33, ZenonT(30)
    DEF WriteStep
<1>3. QED
  BY <1>1, <1>2, StepKinds, Zenon

\* DropInv holds in every reachable state.
LEMMA DropInvariant == Spec => []DropInv
<1>1. Init => DropInv
  BY Zenon DEF Init, DropInv, DropOK, Inserting
<1>2. Base /\ Base' /\ DropInv /\ [Next]_vars => DropInv'
  <2> SUFFICES ASSUME Base, Base', DropInv, [Next]_vars PROVE DropInv'
    BY Zenon
  <2>1. ASSUME UNCHANGED <<state, pc, key, slot, it>> PROVE DropInv'
    BY <2>1, Zenon DEF DropInv, DropOK, Inserting, Filled
  <2>2. QED
    BY <2>1, DropStep, NextKinds, Zenon DEF Tick
<1>3. QED
  BY <1>1, <1>2, BaseInvariant, PTL DEF Spec

\* After a round of Cap slots, each was left live.
LEMMA DropFull == Base /\ DropInv => DropOnlyWhenFull
<1> SUFFICES ASSUME Base, DropInv, NEW t \in Threads, pc[t] = "insert", it[t] = Cap
             PROVE  LiveSlots = Slots
  BY Zenon DEF DropOnlyWhenFull
<1>1. Filled(key[t], Cap) /\ Home[key[t]] \in Slots
  BY SlotArithmetic, Zenon DEF Base, CallInv, CallOK, DropInv, DropOK, Inserting
<1>2. \A j \in Slots : probe_dist(Home[key[t]], j) < Cap
  BY <1>1, ProbeFacts, CapAssumption
<1>3. QED
  BY <1>1, <1>2, Zenon DEF Filled, LiveSlots

\* _shard_insert returns without storing the entry it carries only when the
\* table has no slot that is not live.
THEOREM DropCorrect == Spec => []DropOnlyWhenFull
  BY DropFull, BaseInvariant, DropInvariant, PTL
=============================================================================
