------------------------------- MODULE Shard -------------------------------
(***************************************************************************)
(* One shard of the cache (vc_shard_t): a Robin Hood table with tombstones *)
(* that writers change under a spin lock and a sequence counter, and that  *)
(* readers scan without the lock, validating the counter afterwards.       *)
(*                                                                         *)
(* Every atomic access that another thread can observe is a step of its    *)
(* own.  The scan of a thread that holds wlock is one step: nobody else    *)
(* changes a slot's state or key meanwhile.                                *)
(*                                                                         *)
(* Abstractions.  A key is its identity and its home slot, hash & (cap-1). *)
(* A value is the number of the call that stored it, so two values are     *)
(* never confused; "mem" says whether its bytes are inline in the slot, in  *)
(* a slab block or in a mapping (then the key may be on the heap too).     *)
(* The hit, miss, set and eviction statistics are left out.  Memory is     *)
(* sequentially consistent.                                                *)
(***************************************************************************)
EXTENDS Integers, FiniteSets

CONSTANTS
    Threads,    \* threads calling the library
    Keys,       \* keys whose hash selects this shard
    Cap,        \* s->cap, the number of slots
    Home,       \* table_slot of each key's hash
    TTLs,       \* the ttl_sec arguments callers use, 0 = never expires
    Tiers,      \* the storage tiers that callers' values need
    EvictPct,   \* load, in percent, from which vc_set evicts (85 in the code)
    PdMod,      \* number of values of the uint8 probe_dist (256 in the code)
    Retries,    \* VC_SEQLOCK_RETRY
    MaxCalls,   \* bound: calls made to the library
    MaxTime,    \* bound: the last instant of the monotonic clock
    Pace        \* by how much the clock advances between two steps

ASSUME CapAssumption     == Cap \in Nat \ {0}
ASSUME HomeAssumption    == Home \in [Keys -> 0 .. Cap - 1]
ASSUME TTLAssumption     == TTLs \subseteq Nat
ASSUME TierAssumption    == Tiers \subseteq {"inline", "slab", "mmap"}
ASSUME WidthAssumption   == PdMod \in Nat \ {0} /\ EvictPct \in Nat
ASSUME BoundsAssumption  == Retries \in Nat \ {0} /\ MaxCalls \in Nat /\ MaxTime \in Nat /\ Pace \in Nat

VARIABLES
    wlock,      \* 0 = free, 1 = locked
    seq,        \* sequence counter, odd while a writer is active
    state,      \* per slot: EMPTY, BUSY, LIVE or DEAD
    ent,        \* per slot: the entry's key, value and expiry
    pd,         \* per slot: probe_dist
    clk,        \* per slot: clock_bit
    count,      \* s->count
    clock_hand, \* CLOCK hand
    freed,      \* values whose external storage was released
    now,        \* mono_ns
    calls,      \* calls made so far
    pc,         \* per thread: the next step of its call, "idle" between calls
    op,         \* per thread: the function called
    key,        \* per thread: its key argument
    inc,        \* per thread: the entry "incoming" of _shard_insert
    ipd,        \* per thread: its probe_dist
    slot,       \* per thread: the loop's slot
    it,         \* per thread: the loop's iteration counter
    sq,         \* per thread: the counter seq_read_begin returned
    retry,      \* per thread: retries of vc_get so far
    res         \* per thread: what vc_get found, NotFound if nothing

lock  == <<wlock, seq>>
table == <<state, ent, pd, clk>>
store == <<table, count, clock_hand, freed>>
env   == <<now, calls>>
args  == <<op, key>>
carry == <<inc, ipd>>
loop  == <<slot, it>>
read  == <<sq, retry, res>>
vars  == <<lock, store, env, pc, args, carry, loop, read>>

-----------------------------------------------------------------------------
Slots    == 0 .. Cap - 1
States   == {"EMPTY", "BUSY", "LIVE", "DEAD"}
NoKey    == "nokey"
NotFound == 0
Torn     == -1      \* bytes copied while a writer was storing them

Entries == [key : Keys \cup {NoKey}, val : Nat, mem : {"inline", "slab", "mmap"},
            exp : Nat]

\* The fields of a zero-filled slot of the mapped table.
Blank == [key |-> NoKey, val |-> 0, mem |-> "inline", exp |-> 0]

\* (slot + 1) & (cap - 1), and the uint8 increment of probe_dist.
NextSlot(s) == IF s = Cap - 1 THEN 0 ELSE s + 1
IncPd(p)    == IF p = PdMod - 1 THEN 0 ELSE p + 1

\* How many slots s lies after h: (s + cap - h) & (cap - 1).
probe_dist(h, s) == IF s >= h THEN s - h ELSE s + Cap - h

\* entry_expired
entry_expired(e) == e.exp # 0 /\ now > e.exp

Holds(k, s) == state[s] = "LIVE" /\ ent[s].key = k

\* Slot s is the first one of k's probe sequence with a live entry of k, and
\* no EMPTY slot ends the scan before it.
FirstMatch(k, s) ==
    /\ Holds(k, s)
    /\ \A j \in Slots : probe_dist(Home[k], j) < probe_dist(Home[k], s)
                          => state[j] # "EMPTY" /\ ~Holds(k, j)

\* _shard_find by the holder of wlock: the slot it returns, if it returns one.
\* A match that has expired ends the scan with UINT32_MAX.
shard_find(k, s) == FirstMatch(k, s) /\ ~entry_expired(ent[s])

\* cnt * 100 / cap >= 85 (the uint32 product is exact below 42 million entries)
Overfull(cnt) == (cnt * 100) \div Cap >= EvictPct

External(e) == e.mem # "inline"

\* What entry_free_resources releases.
Release(e) == IF External(e) THEN {e.val} ELSE {}

Goto(t, l) == pc' = [pc EXCEPT ![t] = l]

Init ==
    /\ wlock = 0
    /\ seq = 0
    /\ state = [s \in Slots |-> "EMPTY"]
    /\ ent = [s \in Slots |-> Blank]
    /\ pd = [s \in Slots |-> 0]
    /\ clk = [s \in Slots |-> 0]
    /\ count = 0
    /\ clock_hand = 0
    /\ freed = {}
    /\ now = 1
    /\ calls = 0
    /\ pc = [t \in Threads |-> "idle"]
    /\ op = [t \in Threads |-> "none"]
    /\ key = [t \in Threads |-> NoKey]
    /\ inc = [t \in Threads |-> Blank]
    /\ ipd = [t \in Threads |-> 0]
    /\ slot = [t \in Threads |-> 0]
    /\ it = [t \in Threads |-> 0]
    /\ sq = [t \in Threads |-> 0]
    /\ retry = [t \in Threads |-> 0]
    /\ res = [t \in Threads |-> NotFound]

-----------------------------------------------------------------------------
(* The public functions, up to the shard lock.                             *)

Call(t, o, k) ==
    /\ pc[t] = "idle"
    /\ calls < MaxCalls
    /\ calls' = calls + 1
    /\ op' = [op EXCEPT ![t] = o]
    /\ key' = [key EXCEPT ![t] = k]
    /\ res' = [res EXCEPT ![t] = NotFound]
    /\ UNCHANGED <<lock, store, now, ipd, loop, sq, retry>>

\* Builds the entry outside the lock; its expiry is fixed here.
vc_set(t, k, ttl, mem) ==
    /\ Call(t, "set", k)
    /\ inc' = [inc EXCEPT ![t] =
                 [key |-> k, val |-> calls + 1, mem |-> mem,
                  exp |-> IF ttl = 0 THEN 0 ELSE now + ttl]]
    /\ Goto(t, "lock")

vc_del(t, k) == Call(t, "del", k) /\ Goto(t, "lock") /\ UNCHANGED inc

vc_flush(t) == Call(t, "flush", NoKey) /\ Goto(t, "lock") /\ UNCHANGED inc

vc_get(t, k) == Call(t, "get", k) /\ Goto(t, "gbegin") /\ UNCHANGED inc

-----------------------------------------------------------------------------
(* The writer's section.                                                   *)

\* Fault: the lock is stored without looking at it.
shard_lock_blind(t) ==
    /\ pc[t] = "lock"
    /\ wlock' = 1
    /\ Goto(t, IF op[t] = "get" THEN "lfind" ELSE "wbegin")
    /\ UNCHANGED <<seq, store, env, args, carry, loop, read>>

shard_lock(t) ==
    /\ pc[t] = "lock"
    /\ wlock = 0
    /\ wlock' = 1
    /\ Goto(t, IF op[t] = "get" THEN "lfind" ELSE "wbegin")
    /\ UNCHANGED <<seq, store, env, args, carry, loop, read>>

seq_write_begin(t) ==
    /\ pc[t] = "wbegin"
    /\ seq' = seq + 1
    /\ Goto(t, IF op[t] = "flush" THEN "flush" ELSE "find")
    /\ UNCHANGED <<wlock, store, env, args, carry, loop, read>>

\* Fault: the slot becomes EMPTY, not a tombstone.
Bury_EMPTY(s) ==
    /\ state' = [state EXCEPT ![s] = "EMPTY"]
    /\ freed' = freed \cup Release(ent[s])
    /\ UNCHANGED <<ent, pd, clk>>

\* entry_free_resources and the store of DEAD: a reader cannot tell them apart.
Bury(s) ==
    /\ state' = [state EXCEPT ![s] = "DEAD"]
    /\ freed' = freed \cup Release(ent[s])
    /\ UNCHANGED <<ent, pd, clk>>

\* Fault: the loop starts at iteration 1.
StartInsert_from1(t) ==
    /\ Goto(t, "insert")
    /\ slot' = [slot EXCEPT ![t] = Home[key[t]]]
    /\ it' = [it EXCEPT ![t] = 1]
    /\ ipd' = [ipd EXCEPT ![t] = 0]

StartInsert(t) ==
    /\ Goto(t, "insert")
    /\ slot' = [slot EXCEPT ![t] = Home[key[t]]]
    /\ it' = [it EXCEPT ![t] = 0]
    /\ ipd' = [ipd EXCEPT ![t] = 0]

\* What follows the lookup: vc_del is done, vc_set checks the load.
AfterLookup(t, cnt) ==
    /\ count' = cnt
    /\ \/ op[t] = "del" /\ Goto(t, "wend") /\ UNCHANGED <<slot, it, ipd>>
       \/ /\ op[t] = "set" /\ Overfull(cnt) /\ Goto(t, "evict")
          /\ slot' = [slot EXCEPT ![t] = clock_hand]
          /\ it' = [it EXCEPT ![t] = 0]
          /\ UNCHANGED ipd
       \/ op[t] = "set" /\ ~Overfull(cnt) /\ StartInsert(t)
    /\ UNCHANGED <<lock, clock_hand, env, args, inc, read>>

\* Fault: the old entry is found and left in the table.
remove_found_kept(t) ==
    /\ pc[t] = "find"
    /\ \E s \in Slots : shard_find(key[t], s)
    /\ AfterLookup(t, count)
    /\ UNCHANGED <<table, freed>>

remove_found(t) ==
    /\ pc[t] = "find"
    /\ \E s \in Slots : shard_find(key[t], s) /\ Bury(s)
    /\ AfterLookup(t, count - 1)

remove_notfound(t) ==
    /\ pc[t] = "find"
    /\ ~ \E s \in Slots : shard_find(key[t], s)
    /\ AfterLookup(t, count)
    /\ UNCHANGED <<table, freed>>

\* _shard_evict_one: an iteration that passes over the slot, giving a
\* referenced entry its second chance.
evict_pass(t) ==
    LET h == NextSlot(slot[t]) IN
    /\ pc[t] = "evict"
    /\ it[t] < Cap
    /\ ~(state[h] = "LIVE" /\ clk[h] = 0)
    /\ clk' = IF state[h] = "LIVE" THEN [clk EXCEPT ![h] = 0] ELSE clk
    /\ slot' = [slot EXCEPT ![t] = h]
    /\ it' = [it EXCEPT ![t] = @ + 1]
    /\ UNCHANGED <<lock, state, ent, pd, count, clock_hand, freed, env, pc, args, carry, read>>

evict_take(t) ==
    LET h == NextSlot(slot[t]) IN
    /\ pc[t] = "evict"
    /\ it[t] < Cap
    /\ state[h] = "LIVE" /\ clk[h] = 0
    /\ Bury(h)
    /\ count' = count - 1
    /\ clock_hand' = h
    /\ StartInsert(t)
    /\ UNCHANGED <<lock, env, args, inc, read>>

\* A full sweep found only referenced entries.
evict_none(t) ==
    /\ pc[t] = "evict"
    /\ it[t] = Cap
    /\ StartInsert(t)
    /\ UNCHANGED <<lock, store, env, args, inc, read>>

\* _shard_insert: the slot is free, or its entry is nearer its home than
\* incoming is; it turns BUSY before its fields are stored.
insert_claim(t) ==
    LET s == slot[t] IN
    /\ pc[t] = "insert"
    /\ it[t] < Cap
    /\ \/ state[s] \in {"EMPTY", "DEAD"} /\ Goto(t, "place")
       \/ state[s] = "LIVE" /\ pd[s] < ipd[t] /\ Goto(t, "swap")
    /\ state' = [state EXCEPT ![s] = "BUSY"]
    /\ UNCHANGED <<lock, ent, pd, clk, count, clock_hand, freed, env, args, carry, loop, read>>

Advance(t, e, p) ==
    /\ inc' = [inc EXCEPT ![t] = e]
    /\ ipd' = [ipd EXCEPT ![t] = IncPd(p)]
    /\ slot' = [slot EXCEPT ![t] = NextSlot(@)]
    /\ it' = [it EXCEPT ![t] = @ + 1]

\* Fault: the loop has no bound.
insert_pass_unbounded(t) ==
    LET s == slot[t] IN
    /\ pc[t] = "insert"
    /\ state[s] = "LIVE" /\ ~(pd[s] < ipd[t])
    /\ Advance(t, inc[t], ipd[t])
    /\ UNCHANGED <<lock, store, env, pc, args, read>>

insert_pass(t) ==
    LET s == slot[t] IN
    /\ pc[t] = "insert"
    /\ it[t] < Cap
    /\ state[s] = "LIVE" /\ ~(pd[s] < ipd[t])
    /\ Advance(t, inc[t], ipd[t])
    /\ UNCHANGED <<lock, store, env, pc, args, read>>

Store(t) ==
    /\ ent' = [ent EXCEPT ![slot[t]] = inc[t]]
    /\ pd' = [pd EXCEPT ![slot[t]] = ipd[t]]
    /\ clk' = [clk EXCEPT ![slot[t]] = 1]
    /\ state' = [state EXCEPT ![slot[t]] = "LIVE"]

insert_place(t) ==
    /\ pc[t] = "place"
    /\ Store(t)
    /\ Goto(t, "wend")
    /\ UNCHANGED <<lock, count, clock_hand, freed, env, args, carry, loop, read>>

\* Fault: the displaced entry does not become incoming, which is stored again.
insert_swap_again(t) ==
    /\ pc[t] = "swap"
    /\ Store(t)
    /\ Advance(t, inc[t], pd[slot[t]])
    /\ Goto(t, "insert")
    /\ UNCHANGED <<lock, count, clock_hand, freed, env, args, read>>

\* The displaced entry becomes incoming; its clock_bit is not carried along.
insert_swap(t) ==
    /\ pc[t] = "swap"
    /\ Store(t)
    /\ Advance(t, ent[slot[t]], pd[slot[t]])
    /\ Goto(t, "insert")
    /\ UNCHANGED <<lock, count, clock_hand, freed, env, args, read>>

\* The loop runs out of slots and incoming is forgotten.
insert_drop(t) ==
    /\ pc[t] = "insert"
    /\ it[t] = Cap
    /\ Goto(t, "wend")
    /\ UNCHANGED <<lock, store, env, args, carry, loop, read>>

\* vc_flush: one slot per iteration, then the counter is reset.
flush_slot(t) ==
    LET j == it[t] IN
    /\ pc[t] = "flush"
    /\ j < Cap
    /\ IF state[j] = "LIVE" THEN Bury(j) ELSE UNCHANGED <<table, freed>>
    /\ it' = [it EXCEPT ![t] = j + 1]
    /\ UNCHANGED <<lock, count, clock_hand, env, pc, args, carry, slot, read>>

flush_count(t) ==
    /\ pc[t] = "flush"
    /\ it[t] = Cap
    /\ count' = 0
    /\ Goto(t, "wend")
    /\ UNCHANGED <<lock, table, clock_hand, freed, env, args, carry, loop, read>>

\* Fault: vc_set does not count its entry.
seq_write_end_uncounted(t) ==
    /\ pc[t] = "wend"
    /\ seq' = seq + 1
    /\ Goto(t, "unlock")
    /\ UNCHANGED <<wlock, store, env, args, carry, loop, read>>

\* vc_set counts its entry whether or not _shard_insert kept it.
seq_write_end(t) ==
    /\ pc[t] = "wend"
    /\ count' = IF op[t] = "set" THEN count + 1 ELSE count
    /\ seq' = seq + 1
    /\ Goto(t, "unlock")
    /\ UNCHANGED <<wlock, table, clock_hand, freed, env, args, carry, loop, read>>

\* The function returns and its local variables cease to exist; the result
\* of vc_get and the slot an inline result points into stay with the caller.
Return(t) ==
    /\ Goto(t, "idle")
    /\ inc' = [inc EXCEPT ![t] = Blank]
    /\ ipd' = [ipd EXCEPT ![t] = 0]
    /\ it' = [it EXCEPT ![t] = 0]
    /\ sq' = [sq EXCEPT ![t] = 0]
    /\ retry' = [retry EXCEPT ![t] = 0]

shard_unlock(t) ==
    /\ pc[t] = "unlock"
    /\ wlock' = 0
    /\ Return(t)
    /\ UNCHANGED <<seq, store, env, args, slot, res>>

-----------------------------------------------------------------------------
(* vc_get.  The lock-free attempt reads slots while writers store to them.  *)

\* Fault: an odd counter is accepted.
seq_read_begin_odd(t) ==
    /\ pc[t] = "gbegin"
    /\ sq' = [sq EXCEPT ![t] = seq]
    /\ slot' = [slot EXCEPT ![t] = Home[key[t]]]
    /\ it' = [it EXCEPT ![t] = 0]
    /\ Goto(t, "gload")
    /\ UNCHANGED <<lock, store, env, args, carry, retry, res>>

seq_read_begin(t) ==
    /\ pc[t] = "gbegin"
    /\ seq % 2 = 0
    /\ sq' = [sq EXCEPT ![t] = seq]
    /\ slot' = [slot EXCEPT ![t] = Home[key[t]]]
    /\ it' = [it EXCEPT ![t] = 0]
    /\ Goto(t, "gload")
    /\ UNCHANGED <<lock, store, env, args, carry, retry, res>>

\* _shard_find without the lock: the load of the slot's state.
find_load(t) ==
    LET s == slot[t] IN
    /\ pc[t] = "gload"
    /\ \/ it[t] = Cap /\ Goto(t, "gmiss") /\ UNCHANGED <<slot, it>>
       \/ /\ it[t] < Cap
          /\ \/ state[s] = "EMPTY" /\ Goto(t, "gmiss") /\ UNCHANGED <<slot, it>>
             \/ state[s] = "LIVE" /\ Goto(t, "gcmp") /\ UNCHANGED <<slot, it>>
             \/ /\ state[s] \in {"BUSY", "DEAD"}
                /\ slot' = [slot EXCEPT ![t] = NextSlot(s)]
                /\ it' = [it EXCEPT ![t] = @ + 1]
                /\ UNCHANGED pc
    /\ UNCHANGED <<lock, store, env, args, carry, read>>

\* The comparison of hash, length and key bytes.  A slot being stored to, or
\* one whose heap key was released, may compare either way.
KeyOutcomes(t) ==
    LET s == slot[t] IN
    IF state[s] = "BUSY" \/ (state[s] = "DEAD" /\ External(ent[s]))
    THEN BOOLEAN ELSE {ent[s].key = key[t]}

\* Fault: a slot of another key is passed over before the loop has advanced.
find_compare_stuck(t) ==
    /\ pc[t] = "gcmp"
    /\ \/ TRUE \in KeyOutcomes(t) /\ Goto(t, "gexp")
       \/ FALSE \in KeyOutcomes(t) /\ Goto(t, "gload")
    /\ UNCHANGED <<lock, store, env, args, carry, loop, read>>

find_compare(t) ==
    /\ pc[t] = "gcmp"
    /\ \/ /\ TRUE \in KeyOutcomes(t)
          /\ Goto(t, "gexp")
          /\ UNCHANGED <<slot, it>>
       \/ /\ FALSE \in KeyOutcomes(t)
          /\ slot' = [slot EXCEPT ![t] = NextSlot(@)]
          /\ it' = [it EXCEPT ![t] = @ + 1]
          /\ Goto(t, "gload")
    /\ UNCHANGED <<lock, store, env, args, carry, read>>

find_expiry(t) ==
    LET s == slot[t] IN
    /\ pc[t] = "gexp"
    /\ \/ (state[s] = "BUSY" \/ entry_expired(ent[s])) /\ Goto(t, "gmiss")
       \/ (state[s] = "BUSY" \/ ~entry_expired(ent[s])) /\ Goto(t, "gsnap")
    /\ UNCHANGED <<lock, store, env, args, carry, loop, read>>

\* Inline values go to the locked path.  The copy of an external value's
\* fields is torn when it overlaps a writer's stores.
get_snapshot(t) ==
    LET s == slot[t] IN
    /\ pc[t] = "gsnap"
    /\ \/ /\ External(ent[s]) \/ state[s] = "BUSY"
          /\ \E v \in {ent[s].val} \cup (IF seq = sq[t] THEN {} ELSE {Torn}) :
               res' = [res EXCEPT ![t] = v]
          /\ Goto(t, "ghit")
       \/ /\ ~External(ent[s]) \/ state[s] = "BUSY"
          /\ Goto(t, "lock")
          /\ UNCHANGED res
    /\ UNCHANGED <<lock, store, env, args, carry, loop, sq, retry>>

\* seq_read_retry: the answer counts only if no writer entered meanwhile.
validate_hit(t) ==
    /\ pc[t] = "ghit"
    /\ seq = sq[t]
    /\ Goto(t, "gclk")
    /\ UNCHANGED <<lock, store, env, args, carry, loop, read>>

\* Fault: a miss is not validated.
validate_miss_blind(t) ==
    /\ pc[t] = "gmiss"
    /\ Return(t)
    /\ UNCHANGED <<lock, store, env, args, slot, res>>

validate_miss(t) ==
    /\ pc[t] = "gmiss"
    /\ seq = sq[t]
    /\ Return(t)
    /\ UNCHANGED <<lock, store, env, args, slot, res>>

validate_fail(t) ==
    /\ pc[t] \in {"ghit", "gmiss"}
    /\ seq # sq[t]
    /\ retry' = [retry EXCEPT ![t] = @ + 1]
    /\ res' = [res EXCEPT ![t] = NotFound]
    /\ Goto(t, IF retry[t] + 1 = Retries THEN "lock" ELSE "gbegin")
    /\ UNCHANGED <<lock, store, env, args, carry, loop, sq>>

\* The reference bit is set after the validation, whatever the slot holds now.
get_reference(t) ==
    /\ pc[t] = "gclk"
    /\ clk' = [clk EXCEPT ![slot[t]] = 1]
    /\ Return(t)
    /\ UNCHANGED <<lock, state, ent, pd, count, clock_hand, freed, env, args, slot, res>>

\* The locked path looks the key up again; it leaves the counter alone.
locked_hit(t) ==
    /\ pc[t] = "lfind"
    /\ \E s \in Slots :
         /\ shard_find(key[t], s)
         /\ res' = [res EXCEPT ![t] = ent[s].val]
         /\ slot' = [slot EXCEPT ![t] = s]
         /\ clk' = [clk EXCEPT ![s] = 1]
    /\ Goto(t, "unlock")
    /\ UNCHANGED <<lock, state, ent, pd, count, clock_hand, freed, env, args, carry, it, sq, retry>>

\* Fault: the locked path buries an expired entry on its way out.
locked_miss_lazy(t) ==
    /\ pc[t] = "lfind"
    /\ ~ \E s \in Slots : shard_find(key[t], s)
    /\ IF \E s \in Slots : FirstMatch(key[t], s)
       THEN \E s \in Slots : FirstMatch(key[t], s) /\ Bury(s)
       ELSE UNCHANGED <<table, freed>>
    /\ Goto(t, "unlock")
    /\ UNCHANGED <<lock, count, clock_hand, env, args, carry, loop, read>>

locked_miss(t) ==
    /\ pc[t] = "lfind"
    /\ ~ \E s \in Slots : shard_find(key[t], s)
    /\ Goto(t, "unlock")
    /\ UNCHANGED <<lock, store, env, args, carry, loop, read>>

-----------------------------------------------------------------------------
Tick ==
    /\ now < MaxTime
    /\ now' = now + Pace
    /\ UNCHANGED <<lock, store, calls, pc, args, carry, loop, read>>

Caller(t) ==
    \/ \E k \in Keys, ttl \in TTLs, mem \in Tiers : vc_set(t, k, ttl, mem)
    \/ \E k \in Keys : vc_del(t, k) \/ vc_get(t, k)
    \/ vc_flush(t)

Writer(t) ==
    \/ shard_lock(t) \/ seq_write_begin(t) \/ seq_write_end(t) \/ shard_unlock(t)
    \/ remove_found(t) \/ remove_notfound(t)
    \/ evict_pass(t) \/ evict_take(t) \/ evict_none(t)
    \/ insert_claim(t) \/ insert_pass(t) \/ insert_place(t) \/ insert_swap(t) \/ insert_drop(t)
    \/ flush_slot(t) \/ flush_count(t)

Reader(t) ==
    \/ seq_read_begin(t) \/ find_load(t) \/ find_compare(t) \/ find_expiry(t)
    \/ get_snapshot(t) \/ validate_hit(t) \/ validate_miss(t) \/ validate_fail(t)
    \/ get_reference(t) \/ locked_hit(t) \/ locked_miss(t)

\* Every call allowed by the bound has been made and has returned.
Finished ==
    /\ calls = MaxCalls
    /\ \A t \in Threads : pc[t] = "idle"
    /\ UNCHANGED vars

Next == (\E t \in Threads : Caller(t) \/ Writer(t) \/ Reader(t)) \/ Tick \/ Finished

Spec == Init /\ [][Next]_vars

-----------------------------------------------------------------------------
PCs == {"idle", "lock", "wbegin", "find", "evict", "insert", "place", "swap", "flush", "wend",
        "unlock", "gbegin", "gload", "gcmp", "gexp", "gsnap", "ghit", "gmiss", "gclk", "lfind"}

\* Every variable has the type its C declaration gives it.
TypeOK ==
    /\ wlock \in {0, 1} /\ seq \in Nat
    /\ state \in [Slots -> States] /\ ent \in [Slots -> Entries]
    /\ pd \in [Slots -> 0 .. PdMod - 1] /\ clk \in [Slots -> {0, 1}]
    /\ count \in Int /\ clock_hand \in Slots /\ freed \subseteq Nat
    /\ now \in Nat /\ calls \in Nat
    /\ pc \in [Threads -> PCs]
    /\ op \in [Threads -> {"none", "set", "del", "flush", "get"}]
    /\ key \in [Threads -> Keys \cup {NoKey}]
    /\ inc \in [Threads -> Entries] /\ ipd \in [Threads -> 0 .. PdMod - 1]
    /\ slot \in [Threads -> Slots] /\ it \in [Threads -> 0 .. Cap]
    /\ sq \in [Threads -> Nat] /\ retry \in [Threads -> 0 .. Retries]
    /\ res \in [Threads -> Nat \cup {Torn}]

InWrite(t)  == pc[t] \in {"find", "evict", "insert", "place", "swap", "flush", "wend"}
HasLock(t)  == InWrite(t) \/ pc[t] \in {"wbegin", "unlock", "lfind"}
LiveSlots   == {s \in Slots : state[s] = "LIVE"}
Quiet       == seq % 2 = 0

\* wlock admits one thread at a time, and seq is odd exactly while that thread
\* is between seq_write_begin and seq_write_end ("odd = writer active").
WriterExclusion ==
    /\ \A t, u \in Threads : HasLock(t) /\ HasLock(u) => t = u
    /\ wlock = 1 <=> \E t \in Threads : HasLock(t)
    /\ ~Quiet <=> \E t \in Threads : InWrite(t)

\* "A key's probe chain is never broken by an EMPTY slot" (_shard_find): no
\* slot between the home of a live entry and the entry is EMPTY, whatever
\* displacements, deletions, evictions and flushes happened before.
ProbeChain ==
    \A s \in LiveSlots : \A j \in Slots :
        probe_dist(Home[ent[s].key], j) < probe_dist(Home[ent[s].key], s)
            => state[j] # "EMPTY"

\* A lock-free vc_get whose validation would succeed now answers what the
\* locked lookup would answer now: a miss is no unexpired first match, a hit
\* is the first match and carries its value, not a torn one.
ValidatedReads ==
    \A t \in Threads : seq = sq[t] =>
        /\ pc[t] = "gmiss" => ~ \E s \in Slots : shard_find(key[t], s)
        /\ pc[t] = "ghit" => FirstMatch(key[t], slot[t]) /\ res[t] = ent[slot[t]].val

\* External storage has one owner: no two live entries share a value, and
\* none holds a released one, so entry_free_resources never frees twice, however
\* often an entry was displaced.
StorageOwnedOnce ==
    \A s \in LiveSlots :
        /\ ent[s].val \notin freed
        /\ \A r \in LiveSlots : ent[r].val = ent[s].val => r = s

\* Between writers, count is never below the number of live entries, so its
\* unsigned decrements cannot wrap.
CountCoversLive == Quiet => count >= Cardinality(LiveSlots)

\* vc_set loses an entry in _shard_insert only when every slot is live.
DropOnlyWhenFull ==
    \A t \in Threads : pc[t] = "insert" /\ it[t] = Cap => LiveSlots = Slots

\* vc_set "has already removed old entry" (_shard_insert): while no key ever
\* expires, a key has at most one live entry between writers.
NoDuplicates ==
    Quiet /\ TTLs = {0} =>
        \A r, s \in LiveSlots : ent[r].key = ent[s].key => r = s

\* No step changes what a slot holds unless seq is odd, so an unchanged even
\* seq means an unchanged table; and no slot becomes EMPTY again.
WritesAreAnnounced ==
    [][ /\ <<state, ent>>' # <<state, ent>> => ~Quiet /\ ~Quiet'
        /\ \A s \in Slots : state'[s] = "EMPTY" => state[s] = "EMPTY" ]_vars

\* Every call returns: the spin on wlock ends because its holder leaves, the
\* lock-free attempts of vc_get are bounded, and no scan runs past cap slots.
\* (MaxCalls is part of the claim: the lock is not fair, so a thread could spin
\* for ever behind others that never stop calling.)
CallsReturn == \A t \in Threads : (pc[t] # "idle") ~> (pc[t] = "idle")
=============================================================================
