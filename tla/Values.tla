------------------------------- MODULE Values -------------------------------
(***************************************************************************)
(* Where vc_set puts a value, by its length, and what becomes of that      *)
(* storage when the entry is overwritten, deleted or flushed: the tier, the *)
(* layout of the payload, the slab class a block is taken from and the one *)
(* it is given back to.  Calls are sequential here, so that a free list is *)
(* a stack; Shard and Slab have the interleavings.  Contents are abstracted *)
(* to lengths.  One shard of Cap slots has all the keys, and no value has a *)
(* TTL: with one, a key may have an expired entry beside its new one, each  *)
(* with a storage of its own (Shard).                                      *)
(***************************************************************************)
EXTENDS Integers, Sequences, FiniteSets, Functions

CONSTANTS
    Keys,
    KeyLen,       \* per key: key_len
    Sizes,        \* the val_len arguments callers use
    Cap,          \* slots of the shard
    ArenaBlocks,  \* blocks per class (16 MB / block_size in the code)
    MaxCalls      \* bound: calls made

ASSUME KeyAssumption   == KeyLen \in [Keys -> Nat \ {0}]
ASSUME SizeAssumption  == Sizes \subseteq Nat
ASSUME ValuesBounds    == Cap \in Nat \ {0} /\ ArenaBlocks \in Nat /\ MaxCalls \in Nat

VARIABLES
    entry,         \* per key: the entry's fields, NoEntry if the key is absent
    stored,        \* per key: the length of the value the caller last stored
    free,          \* per class: its list of blocks, the head first
    lost,          \* history: the blocks of entries that _shard_insert dropped
    mapped,        \* per key: pages mapped for its values and not unmapped
    count,         \* s->count
    total_memory,  \* c->total_memory
    open,          \* the cache exists
    calls

storage == <<entry, stored, free, lost, mapped, count, total_memory, open, calls>>

-----------------------------------------------------------------------------
VC_SLAB_BASE    == 64
VC_SLAB_CLASSES == 16
PayloadBytes    == 32
PointerBytes    == 8
PageBytes       == 4096
UINT16_MAX      == 65535
Classes         == 0 .. VC_SLAB_CLASSES - 1

\* A block: the class whose arena it lies in, and its number there.
ArenaBlock == [arena : Classes, at : 1 .. ArenaBlocks]
NoBlock == [arena |-> 0, at |-> 0]
NoEntry == [flags |-> {}, key_len |-> 0, val_len |-> 0, end |-> 0, block |-> NoBlock]

\* VC_SLAB_BASE << c
slab_class_size[c \in Classes] == IF c = 0 THEN VC_SLAB_BASE ELSE 2 * slab_class_size[c - 1]

\* Fault: a value of exactly the class size plus one stays in the class.
slab_class_for_short(sz) ==
    LET from[c \in Classes] ==
          IF slab_class_size[c] + 1 < sz /\ c < VC_SLAB_CLASSES - 1 THEN from[c + 1] ELSE c
    IN from[0]

\* The loop of slab_class_for, from class c on.
slab_class_for(sz) ==
    LET from[c \in Classes] ==
          IF slab_class_size[c] < sz /\ c < VC_SLAB_CLASSES - 1 THEN from[c + 1] ELSE c
    IN from[0]

\* Fault: the length is stored without clipping, and wraps.
ClipLen_wrap(vl) == vl % (UINT16_MAX + 1)

\* The uint16 field: longer values are recorded as 65535 bytes.
ClipLen(vl) == IF vl > UINT16_MAX THEN UINT16_MAX ELSE vl

\* Fault: a key of up to 32 bytes stays in the payload next to the pointer.
Flags_crowded(kl, vl) ==
    IF kl + vl <= PayloadBytes THEN {}
    ELSE IF vl <= slab_class_size[VC_SLAB_CLASSES - 1]
         THEN {"VAL_SLAB"} \cup IF kl <= PayloadBytes THEN {} ELSE {"KEY_LONG"}
         ELSE {"VAL_MMAP", "KEY_LONG"}

\* The flags vc_set gives an entry.
Flags(kl, vl) ==
    IF kl + vl <= PayloadBytes THEN {}
    ELSE IF vl <= slab_class_size[VC_SLAB_CLASSES - 1]
         THEN {"VAL_SLAB"} \cup IF kl <= PayloadBytes - PointerBytes THEN {} ELSE {"KEY_LONG"}
         ELSE {"VAL_MMAP", "KEY_LONG"}

\* Where the value, or the pointer to it, begins in the payload (entry_val).
ValOffset(flags, kl) == IF "KEY_LONG" \in flags THEN PointerBytes ELSE kl

\* munmap and mmap work on whole pages.
Pages(len) == (len + PageBytes - 1) \div PageBytes

ValuesInit ==
    /\ entry = [k \in Keys |-> NoEntry]
    /\ stored = [k \in Keys |-> 0]
    /\ free = [c \in Classes |-> [j \in 1 .. ArenaBlocks |-> [arena |-> c, at |-> j]]]
    /\ lost = {}
    /\ mapped = [k \in Keys |-> 0]
    /\ count = 0 /\ total_memory = 0
    /\ open = TRUE
    /\ calls = 0

Present == {k \in Keys : stored[k] > 0}

CacheCall == open /\ calls < MaxCalls /\ calls' = calls + 1

\* Fault: the block of a value at the recorded maximum is not given back.
FreeSlab_leak(f, e) ==
    IF "VAL_SLAB" \in e.flags /\ e.val_len < UINT16_MAX
    THEN [f EXCEPT ![slab_class_for(e.val_len)] = <<e.block>> \o @] ELSE f

\* entry_free_resources: the class is computed from the recorded length.
FreeSlab(f, e) ==
    IF "VAL_SLAB" \in e.flags
    THEN [f EXCEPT ![slab_class_for(e.val_len)] = <<e.block>> \o @] ELSE f

FreePages(e) == IF "VAL_MMAP" \in e.flags THEN Pages(e.val_len) ELSE 0

\* The entry vc_set builds, and the pages it maps.
NewEntry(k, vl, b) ==
    LET fl == Flags(KeyLen[k], vl) IN
    [flags |-> fl, key_len |-> KeyLen[k], val_len |-> ClipLen(vl), block |-> b,
     end |-> ValOffset(fl, KeyLen[k]) + IF fl = {} THEN vl ELSE PointerBytes]
NewPages(k, vl) == IF "VAL_MMAP" \in Flags(KeyLen[k], vl) THEN Pages(vl) ELSE 0

\* _shard_insert, once the entries of k and v have gone.  When every slot is LIVE, the
\* entry it carries at the end, the new one or one it displaced, is in no slot any more,
\* and entry_free_resources is not called for it.
insert(k, v, e, vl) ==
    LET table   == [entry EXCEPT ![v] = NoEntry, ![k] = e]
        lengths == [stored EXCEPT ![v] = 0, ![k] = vl]
        rest    == Present \ {k, v} IN
    \/ /\ Cardinality(rest) < Cap
       /\ entry' = table /\ stored' = lengths
       /\ UNCHANGED lost
    \/ /\ Cardinality(rest) = Cap
       /\ \E x \in rest \cup {k} :
            /\ entry' = [table EXCEPT ![x] = NoEntry]
            /\ stored' = [lengths EXCEPT ![x] = 0]
            /\ lost' = IF "VAL_SLAB" \in table[x].flags THEN lost \cup {table[x].block} ELSE lost

\* What the sweep takes from a table 85% full: an entry, or none (k itself) if it
\* finds every clock bit set.
Victims(k) ==
    LET cnt == count - IF k \in Present THEN 1 ELSE 0 IN
    {k} \cup IF (cnt * 100) \div Cap >= 85 THEN Present \ {k} ELSE {}

\* vc_set under the lock: the old entry goes, the sweep may take another, the new entry
\* comes in.  f: the lists after slab_alloc.
Place(k, vl, b, f) ==
    \E v \in Victims(k) :
        LET gone == Present \cap {k, v} IN
        /\ insert(k, v, NewEntry(k, vl, b), vl)
        /\ free' = FreeSlab(FreeSlab(f, entry[k]), IF v = k THEN NoEntry ELSE entry[v])
        /\ mapped' = [x \in Keys |->
             mapped[x] - (IF x \in gone THEN FreePages(entry[x]) ELSE 0)
               + IF x = k THEN NewPages(k, vl) ELSE 0]
        /\ count' = count - Cardinality(gone) + 1
        /\ total_memory' = IF Flags(KeyLen[k], vl) = {} THEN total_memory ELSE total_memory + vl
        /\ UNCHANGED open

\* slab_alloc takes a block of the value's class before the old entry goes.
set_slab(k, vl) ==
    LET c == slab_class_for(vl) IN
    /\ CacheCall
    /\ vl > 0 /\ "VAL_SLAB" \in Flags(KeyLen[k], vl)
    /\ free[c] # <<>>
    /\ Place(k, vl, Head(free[c]), [free EXCEPT ![c] = Tail(@)])

set_other(k, vl) ==
    /\ CacheCall
    /\ vl > 0 /\ "VAL_SLAB" \notin Flags(KeyLen[k], vl)
    /\ Place(k, vl, NoBlock, free)

\* A length of 0 is refused with VC_ERR_INVAL.  VC_ERR_OOM: the class is exhausted,
\* or malloc or mmap fails and what was taken before is given back.
set_refused(k, vl) ==
    /\ CacheCall
    /\ vl = 0 \/ Flags(KeyLen[k], vl) # {}
    /\ UNCHANGED <<entry, stored, free, lost, mapped, count, total_memory, open>>

\* vc_flush does the same to every entry.
vc_del(k) ==
    /\ CacheCall
    /\ k \in Present
    /\ entry' = [entry EXCEPT ![k] = NoEntry]
    /\ stored' = [stored EXCEPT ![k] = 0]
    /\ free' = FreeSlab(free, entry[k])
    /\ mapped' = [mapped EXCEPT ![k] = @ - FreePages(entry[k])]
    /\ count' = count - 1
    /\ UNCHANGED <<lost, total_memory, open>>

\* vc_destroy frees every live entry's storage and unmaps the arenas.
vc_destroy ==
    /\ open /\ open' = FALSE
    /\ entry' = [k \in Keys |-> NoEntry]
    /\ stored' = [k \in Keys |-> 0]
    /\ mapped' = [k \in Keys |-> mapped[k] - FreePages(entry[k])]
    /\ UNCHANGED <<free, lost, count, total_memory, calls>>

Destroyed == ~open /\ UNCHANGED storage

ValuesNext ==
    \/ \E k \in Keys, vl \in Sizes : set_slab(k, vl) \/ set_other(k, vl) \/ set_refused(k, vl)
    \/ \E k \in Keys : vc_del(k)
    \/ vc_destroy
    \/ Destroyed

ValuesSpec == ValuesInit /\ [][ValuesNext]_storage

-----------------------------------------------------------------------------
OnSlab == {k \in Present : "VAL_SLAB" \in entry[k].flags}

\* slab_class_for picks the smallest class that holds sz bytes, so vc_set's copy
\* stays inside its block; and it still does after blocks of large values came
\* back to the class of their clipped length: that class is never a larger one.
ValueFitsBlock ==
    /\ \A k \in OnSlab : stored[k] <= slab_class_size[entry[k].block.arena]
    /\ \A c \in Classes : \A b \in Range(free[c]) : b.arena >= c

\* A block changes lists only when the 16-bit val_len was clipped: every list has blocks
\* of its own arena alone, but for the class of 65535 bytes, to which the blocks of all
\* larger classes come back.  The other classes lose blocks to no class but that one.
StraysAtLimit ==
    \A c \in Classes : \A b \in Range(free[c]) :
        b.arena = c \/ (c = slab_class_for(UINT16_MAX) /\ b.arena > c)

\* Key bytes and value bytes, or the pointers that stand for them, never run
\* past the payload's 32 bytes, at every boundary of vc_set's three paths.
PayloadFits == \A k \in Present : entry[k].end <= PayloadBytes

\* Every block of every arena is on exactly one list, once, or in exactly one entry, or
\* was lost with an entry that _shard_insert dropped from a full table: no block is given
\* out twice, a lost one included, and no other is lost, whichever class it comes back to.
BlocksConserved ==
    open =>
        /\ \A c \in Classes : IsInjective(free[c])
        /\ \A b \in ArenaBlock :
             LET lists   == {c \in Classes : b \in Range(free[c])}
                 entries == {k \in OnSlab : entry[k].block = b} IN
             \/ b \notin lost /\ entries = {} /\ \E c \in Classes : lists = {c}
             \/ b \notin lost /\ lists = {} /\ \E k \in Keys : entries = {k}
             \/ b \in lost /\ lists = {} /\ entries = {}
=============================================================================
