-------------------------------- MODULE Wal --------------------------------
(***************************************************************************)
(* The write-ahead log: a memory-mapped ring of records that vc_set and     *)
(* vc_del append to under wal_lock before they change the shard, a process *)
(* that may crash at any point, and wal_init, which maps the ring again.   *)
(*                                                                         *)
(* Positions and lengths are in units of the padding (8 bytes).  A record  *)
(* whose payload is not written yet is torn: its checksum does not match.  *)
(* The page cache survives the crash of the process, so the ring does too. *)
(* A shard is the map from its keys to their values: a value is the number *)
(* of the call that stores it, 0 = absent.                                 *)
(***************************************************************************)
EXTENDS Integers, FiniteSets

CONSTANTS
    Threads,    \* threads calling the library
    Keys,
    Lengths,    \* record lengths, header and padded payload
    Ring,       \* ring_size
    MaxCalls,   \* bound: calls made
    MaxCrashes  \* bound: crashes of the process

\* wal_append wraps a record to position 0 and writes it there without another look at
\* the ring's end: a record longer than the ring is outside the model.
ASSUME RingAssumption == Ring \in Nat /\ Lengths \subseteq 1 .. Ring
ASSUME WalBounds      == MaxCalls \in Nat /\ MaxCrashes \in Nat

VARIABLES
    ring,       \* the records whose header bytes are in the ring
    write_pos,  \* w->write_pos
    wal_seq,    \* w->wal_seq
    wal_lock,   \* w->wal_lock is held
    mem,        \* per key: the shard's value
    pc,         \* per thread: the next step of its call
    rec,        \* per thread: the record it appends
    calls,
    crashes,
    acked,      \* seq of the calls that returned VC_OK since the process started
    apart,      \* keys whose value and last record may differ
    met         \* threads whose call overlapped another call of the same key

log  == <<ring, write_pos, wal_seq, wal_lock>>
vars == <<log, mem, pc, rec, calls, crashes, acked, apart, met>>

-----------------------------------------------------------------------------
Records == [pos : 0 .. Ring - 1, len : Lengths, seq : Nat, op : {"SET", "DEL"},
            key : Keys, id : 1 .. MaxCalls, ok : BOOLEAN]
NoRecord == "none"

Goto(t, l) == pc' = [pc EXCEPT ![t] = l]

\* The bytes from pos on, len of them, no longer hold what they held: a
\* record goes when any byte of it is overwritten.
Overwrite(pos, len) == {r \in ring : r.pos + r.len <= pos \/ pos + len <= r.pos}

\* A new file is filled with zeros.
Init ==
    /\ ring = {}
    /\ write_pos = 0
    /\ wal_seq = 0
    /\ wal_lock = FALSE
    /\ mem = [k \in Keys |-> 0]
    /\ pc = [t \in Threads |-> "idle"]
    /\ rec = [t \in Threads |-> NoRecord]
    /\ calls = 0
    /\ crashes = 0
    /\ acked = {}
    /\ apart = {}
    /\ met = {}

\* vc_set and vc_del, up to the log.
vc_call(t, op, k, len) ==
    /\ pc[t] = "idle"
    /\ calls < MaxCalls
    /\ calls' = calls + 1
    /\ rec' = [rec EXCEPT ![t] = [pos |-> 0, len |-> len, seq |-> 0, op |-> op, key |-> k,
                                  id |-> calls + 1, ok |-> FALSE]]
    /\ LET others == {u \in Threads : pc[u] # "idle" /\ rec[u].key = k}
       IN met' = IF others = {} THEN met ELSE met \cup others \cup {t}
    /\ Goto(t, "append")
    /\ UNCHANGED <<log, mem, crashes, acked, apart>>

\* Where a record of len units goes: write_pos % ring_size, or 0 (wrap).
Position(len) ==
    LET pos == write_pos % Ring IN IF pos + len > Ring THEN 0 ELSE pos

\* Fault: the record is placed without the mutex.
append_header_unlocked(t) ==
    /\ pc[t] = "append"
    /\ LET r == [rec[t] EXCEPT !.pos = Position(rec[t].len), !.seq = wal_seq] IN
         /\ rec' = [rec EXCEPT ![t] = r]
         /\ ring' = Overwrite(r.pos, r.len) \cup {r}
    /\ wal_seq' = wal_seq + 1
    /\ Goto(t, "payload")
    /\ UNCHANGED <<write_pos, wal_lock, mem, calls, crashes, acked, apart, met>>

\* Fault: the sequence number is drawn when the call starts, before the mutex.
append_header_early(t) ==
    /\ pc[t] = "append"
    /\ ~wal_lock
    /\ wal_lock' = TRUE
    /\ LET r == [rec[t] EXCEPT !.pos = Position(rec[t].len), !.seq = rec[t].id - 1] IN
         /\ rec' = [rec EXCEPT ![t] = r]
         /\ ring' = Overwrite(r.pos, r.len) \cup {r}
    /\ wal_seq' = wal_seq + 1
    /\ Goto(t, "payload")
    /\ UNCHANGED <<write_pos, mem, calls, crashes, acked, apart, met>>

\* wal_append: the mutex is taken, the sequence number drawn, the header copied.
append_header(t) ==
    /\ pc[t] = "append"
    /\ ~wal_lock
    /\ wal_lock' = TRUE
    /\ LET r == [rec[t] EXCEPT !.pos = Position(rec[t].len), !.seq = wal_seq] IN
         /\ rec' = [rec EXCEPT ![t] = r]
         /\ ring' = Overwrite(r.pos, r.len) \cup {r}
    /\ wal_seq' = wal_seq + 1
    /\ Goto(t, "payload")
    /\ UNCHANGED <<write_pos, mem, calls, crashes, acked, apart, met>>

append_payload(t) ==
    /\ pc[t] = "payload"
    /\ ring' = (ring \ {rec[t]}) \cup {[rec[t] EXCEPT !.ok = TRUE]}
    /\ Goto(t, "advance")
    /\ UNCHANGED <<write_pos, wal_seq, wal_lock, mem, rec, calls, crashes, acked, apart, met>>

append_advance(t) ==
    /\ pc[t] = "advance"
    /\ write_pos' = rec[t].pos + rec[t].len
    /\ wal_lock' = FALSE
    /\ Goto(t, "apply")
    /\ UNCHANGED <<ring, wal_seq, mem, rec, calls, crashes, acked, apart, met>>

Return(t) ==
    /\ Goto(t, "idle")
    /\ rec' = [rec EXCEPT ![t] = NoRecord]
    /\ met' = met \ {t}
    /\ UNCHANGED <<log, calls, crashes>>

\* Fault: a deletion is logged and not applied.
apply_noDEL(t) ==
    LET r == rec[t] IN
    /\ pc[t] = "apply"
    /\ mem' = IF r.op = "SET" THEN [mem EXCEPT ![r.key] = r.id] ELSE mem
    /\ acked' = acked \cup {r.seq}
    /\ apart' = IF t \in met THEN apart \cup {r.key} ELSE apart \ {r.key}
    /\ Return(t)

\* The change of the shard, made under the shard's own lock.
apply(t) ==
    LET r == rec[t] IN
    /\ pc[t] = "apply"
    /\ mem' = [mem EXCEPT ![r.key] = IF r.op = "SET" THEN r.id ELSE 0]
    /\ acked' = acked \cup {r.seq}
    /\ apart' = IF t \in met THEN apart \cup {r.key} ELSE apart \ {r.key}
    /\ Return(t)

\* The value's storage cannot be allocated: VC_ERR_OOM, the record stays.
set_oom(t) ==
    /\ pc[t] = "apply" /\ rec[t].op = "SET"
    /\ apart' = apart \cup {rec[t].key}
    /\ Return(t)
    /\ UNCHANGED <<mem, acked>>

\* Evictions, by vc_set of another key, and vc_flush are not logged.
lose(k) ==
    /\ mem[k] # 0
    /\ mem' = [mem EXCEPT ![k] = 0]
    /\ apart' = apart \cup {k}
    /\ UNCHANGED <<log, pc, rec, calls, crashes, acked, met>>

\* The process dies; vc_create and wal_init run again on the same file.
restart ==
    /\ crashes < MaxCrashes
    /\ crashes' = crashes + 1
    /\ write_pos' = 0
    /\ wal_seq' = 0
    /\ wal_lock' = FALSE
    /\ mem' = [k \in Keys |-> 0]
    /\ pc' = [t \in Threads |-> "idle"]
    /\ rec' = [t \in Threads |-> NoRecord]
    /\ acked' = {}
    /\ apart' = {}
    /\ met' = {}
    /\ UNCHANGED <<ring, calls>>

Finished == calls = MaxCalls /\ (\A t \in Threads : pc[t] = "idle") /\ UNCHANGED vars

Next ==
    \/ \E t \in Threads :
         \/ \E op \in {"SET", "DEL"}, k \in Keys, len \in Lengths : vc_call(t, op, k, len)
         \/ append_header(t) \/ append_payload(t) \/ append_advance(t) \/ apply(t) \/ set_oom(t)
    \/ \E k \in Keys : lose(k)
    \/ restart
    \/ Finished

Spec == Init /\ [][Next]_vars

-----------------------------------------------------------------------------
(* What a reader of the ring finds.  No code reads it; this is the scan of  *)
(* README, "Fault Tolerance": from position 0, validate each record, stop   *)
(* at the first bad one, replay in sequence order.                          *)

\* S holds the valid record at position 0 and the valid one behind each of S.
ReadOn(S) ==
    \A r \in ring : r.ok /\ (r.pos = 0 \/ \E x \in S : r.pos = x.pos + x.len) => r \in S

\* The records found are the least such set.
Scan == {r \in ring : \A S \in SUBSET ring : ReadOn(S) => r \in S}

Replay(k) ==
    LET mine == {r \in Scan : r.key = k} IN
    IF mine = {} THEN 0
    ELSE LET last == CHOOSE r \in mine : \A x \in mine : x.seq <= r.seq
         IN IF last.op = "SET" THEN last.id ELSE 0

\* A call that returned survives the crash of the process: the scan finds its
\* record, unless the ring has wrapped since and overwrote it or the ones
\* before it.  One append at a time, and write_pos is where the next one goes.
AckedSurvive ==
    \A q \in acked :
        \/ \E r \in Scan : r.seq = q
        \/ \E r \in ring : r.pos = 0 /\ r.seq > q

\* Read by position, the ring holds the records of the current lap in order,
\* then what is left of the lap before it, also in order and all older, and so
\* on: no record stands between two laps' records.
RotationOrder ==
    crashes = 0 =>
        \A r, x \in ring : r.pos < x.pos /\ r.seq > x.seq =>
            \A y \in ring : IF y.pos <= r.pos THEN y.seq > x.seq
                            ELSE y.pos >= x.pos => y.seq < r.seq

\* The scan reaches every record of this process.
NotWrapped == \A q \in 0 .. wal_seq - 1 : \E r \in Scan : r.seq = q

\* Until the process restarts (wal_init starts afresh, without replaying) and as
\* long as the ring has not wrapped, replaying it between calls yields the shard
\* ("replay SET/DEL operations in sequence order"), save for a key whose last
\* change was an eviction or a flush, whose last vc_set failed after its append,
\* or whose last call overlapped another of the same key: vc_set and vc_del
\* append before they take the shard's lock, so the two may be applied in the
\* other order.
ReplayAgrees ==
    crashes = 0 /\ (\A t \in Threads : pc[t] = "idle") /\ NotWrapped =>
        \A k \in Keys \ apart : Replay(k) = mem[k]
=============================================================================
