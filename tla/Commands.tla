------------------------------ MODULE Commands ------------------------------
(***************************************************************************)
(* The key commands of the server.  A command is carried out by its worker *)
(* as a series of calls of the cache library, vc_get, vc_set and vc_del,    *)
(* each of them atomic (module Shard), with the calls of other workers in  *)
(* between.  vc_get hands out a pointer: the bytes behind it are copied in *)
(* a step of their own, and are any bytes if the shard changed meanwhile.  *)
(*                                                                         *)
(* A key may have several LIVE entries: one that has expired keeps its     *)
(* slot, lookups stop at it, and a new one is stored before or behind it.  *)
(*                                                                         *)
(* A value is a typed payload or a plain string.  Its text is a sequence   *)
(* of bytes: digits stand for themselves, Letter for any other byte.       *)
(***************************************************************************)
EXTENDS Integers, Sequences, FiniteSets, Functions

CONSTANTS
    Workers,   \* connections, each served by its own worker
    Keys,
    Table,     \* per shard: its slots, each named <<k, j>> for the j-th entry of k it would hold
    SlotRange, \* cursors have shard * SlotRange + slot: 2^20
    TtlRange,  \* ttl is a uint32_t: 2^32
    Stores,    \* what earlier requests may have left: per key, its entries as lookups come by them
    Requests,  \* the requests clients send
    MaxCmds,   \* bound: requests sent
    MaxLost    \* bound: entries that expire, are evicted or are displaced

ASSUME TableAssumption ==
    /\ Table \in Seq(Seq(Keys \X Nat))
    /\ \A k \in Keys : \E s \in DOMAIN Table : \E a \in DOMAIN Table[s] : Table[s][a] = <<k, 1>>
    /\ \A s, t \in DOMAIN Table : \A a \in DOMAIN Table[s], b \in DOMAIN Table[t] :
         /\ Table[s][a][1] = Table[t][b][1] => s = t
         /\ Table[s][a] = Table[t][b] => s = t /\ a = b
    /\ SlotRange \in Nat /\ \A s \in DOMAIN Table : Len(Table[s]) < SlotRange
ASSUME TtlAssumption == TtlRange \in Nat \ {0}
ASSUME CommandsBounds == MaxCmds \in Nat /\ MaxLost \in Nat

VARIABLES
    store,  \* per key: the value vc_get finds
    behind, \* per key: its other LIVE entries, the expired one lookups stop at first
    cmd,    \* per worker: the request
    pc,     \* per worker: the next call of its command
    i,      \* per worker: the argument a loop has come to
    got,    \* per worker: the value behind the pointer vc_get returned
    acc,    \* per worker: what the loop has collected
    reply,  \* per worker: the replies written to wbuf for the command
    sent, lost,
    base,   \* history, per worker: the store when its command began
    under,  \* history, per worker: the other entries when its command began
    met     \* history: the workers whose command met another one, see Conflict

local == <<cmd, pc, i, got, acc, reply>>
cache == <<store, behind>>
began == <<base, under>>
vars  == <<cache, local, sent, lost, began, met>>

-----------------------------------------------------------------------------
Letter == 10
Nul    == 11
VC_WIRE_MAGIC_LEN == 4

Value(type, num, text, ttl) == [type |-> type, num |-> num, text |-> text, ttl |-> ttl]
None    == Value("none", 0, <<>>, 0)
Garbage == Value("string", 0, <<Nul>>, 0)
Expired == Value("expired", 0, <<>>, 0)

\* Length in bytes of what is stored.
Length(v) ==
    Len(v.text) + CASE v.type = "string" -> 0
                    [] v.type = "integer" -> VC_WIRE_MAGIC_LEN + 1 + 8
                    [] OTHER -> VC_WIRE_MAGIC_LEN + 1

\* strtoll: the digits the text begins with, 0 if there are none.
parse_int64(text) ==
    LET Digits(n) == \A j \in 1 .. n : text[j] <= 9
        val[n \in 0 .. Len(text)] == IF n = 0 THEN 0 ELSE 10 * val[n - 1] + text[n] IN
    val[CHOOSE n \in 0 .. Len(text) : Digits(n) /\ (n < Len(text) => ~Digits(n + 1))]

\* What INCR counts from: an int64 payload of the exact length, or digits.
Number(v) ==
    IF v.type = "integer" /\ v.text = <<>> THEN v.num
    ELSE IF v.type = "string" THEN parse_int64(v.text) ELSE 0

Reply(kind, n, vals) == [kind |-> kind, n |-> n, vals |-> vals]
INT(n)     == Reply("int", n, <<>>)
OK         == Reply("ok", 0, <<>>)
ERR        == Reply("error", 0, <<>>)
NULLREPLY  == Reply("null", 0, <<>>)
BULK(v)    == IF v = None THEN NULLREPLY ELSE Reply("bulk", 0, <<[v EXCEPT !.ttl = 0]>>)
Simple(v)  == Reply(v.type, 0, <<>>)
Map(v) ==
    IF v = None THEN NULLREPLY
    ELSE Reply("map", 0, <<[v EXCEPT !.ttl = 0, !.text = IF v.type = "integer" THEN <<>> ELSE @]>>)

ShardOf == [k \in Keys |-> CHOOSE s \in DOMAIN Table : \E j \in DOMAIN Table[s] : Table[s][j] = <<k, 1>>]
Cells   == UNION {Range(Table[s]) : s \in DOMAIN Table}
Scans    == {"KEYS", "SCAN"}
Readers  == {"GET", "EXISTS", "TTL", "TYPE", "MGET", "VCGET"} \cup Scans
Counters == {"INCR", "DECR", "INCRBY", "DECRBY"}
Writers  == {"SET", "DEL", "MSET", "FLUSHDB", "VCSET", "EXPIRE", "PERSIST", "APPEND", "RENAME"} \cup Counters
Shards(c) == {ShardOf[c.keys[j]] : j \in DOMAIN c.keys}

\* A request has the arguments its handler checks for, and n is the number its text stands
\* for, 0 if SET has none.  A scan uses the low bits of a cursor, a shard and a slot; a COUNT
\* below 0 is as good as 0.  A command that goes through all shards has keys of all.
ASSUME RequestAssumption ==
    \A c \in Requests :
        /\ c.name \in Readers \cup Writers
        /\ c.keys \in Seq(Keys) /\ c.keys # <<>> /\ c.args \in Seq(Seq(Nat))
        /\ c.name \in {"SET", "APPEND", "VCSET"} => c.args # <<>>
        /\ c.name \in {"SET", "EXPIRE"} => c.n \in Int
        /\ c.name = "RENAME" => Len(c.keys) = 2
        /\ c.name = "MSET" => Len(c.args) = Len(c.keys)
        /\ c.name \in Counters /\ c.args # <<>> => c.n = parse_int64(c.args[1])
        /\ c.name = "VCSET" => /\ c.type \in {"integer", "json", "binary", "string"}
                               /\ c.type = "integer" => c.n = parse_int64(c.args[1])
        /\ c.name \in Scans => c.n \in Nat /\ c.cursor \in 0 .. Len(Table) * SlotRange - 1
        /\ c.name \in Scans \cup {"FLUSHDB"} => \A k \in Keys : ShardOf[k] \in Shards(c)

\* vc_set has stored no empty value.
Payload(v) ==
    /\ v = Value(v.type, v.num, v.text, v.ttl) /\ v.type # "expired"
    /\ v.text \in Seq(Nat) /\ Length(v) > 0
ASSUME StoreAssumption ==
    \A s \in Stores : s = [k \in Keys |-> s[k]] /\
        \A k \in Keys : s[k] \in Seq(Range(s[k])) /\ \A v \in Range(s[k]) : v = Expired \/ Payload(v)

\* Two commands of which one writes to a shard the other one uses.
Conflict(c, d) ==
    Shards(c) \cap Shards(d) # {} /\ ~(c.name \in Readers /\ d.name \in Readers)

NoRequest == [name |-> "none", keys |-> <<>>]
Empty == [k \in Keys |-> None]
Bare  == [k \in Keys |-> <<>>]
Busy == {w \in Workers : pc[w] # "idle"}

\* The entries of a key, as lookups come by them: the value found, and the others.
First(line)  == IF line = <<>> \/ line[1] = Expired THEN None ELSE line[1]
Hidden(line) == IF line = <<>> \/ line[1] = Expired THEN line ELSE Tail(line)
Line(k) == IF store[k] = None THEN behind[k] ELSE <<store[k]>> \o behind[k]

Inserted(line, p, v) == SubSeq(line, 1, p - 1) \o <<v>> \o SubSeq(line, p, Len(line))
Removed(line, p) == SubSeq(line, 1, p - 1) \o SubSeq(line, p + 1, Len(line))

\* The entry in the slot e is LIVE when lookups find s and pass by b.
Lives(s, b, e) == e[2] <= Len(b[e[1]]) + IF s[e[1]] = None THEN 0 ELSE 1

Init ==
    /\ \E s \in Stores : /\ store = [k \in Keys |-> First(s[k])]
                        /\ behind = [k \in Keys |-> Hidden(s[k])]
    /\ cmd = [w \in Workers |-> NoRequest]
    /\ pc = [w \in Workers |-> "idle"]
    /\ i = [w \in Workers |-> 1]
    /\ got = [w \in Workers |-> None]
    /\ acc = [w \in Workers |-> <<>>]
    /\ reply = [w \in Workers |-> <<>>]
    /\ sent = 0 /\ lost = 0
    /\ base = [w \in Workers |-> Empty]
    /\ under = [w \in Workers |-> Bare]
    /\ met = {}

Goto(w, l) == pc' = [pc EXCEPT ![w] = l]
Answer(w, r) == reply' = [reply EXCEPT ![w] = Append(@, r)] /\ Goto(w, "done")
Key(w) == cmd[w].keys[1]
At(w, name, l) == cmd[w].name = name /\ pc[w] = l

\* Where a handler begins.
Entry(c) ==
    IF c.name = "SET"
    THEN IF "NX" \in c.flags THEN "nx" ELSE IF "XX" \in c.flags THEN "xx" ELSE "write"
    ELSE IF c.name \in {"MSET", "VCSET"} THEN "write" ELSE "read"

vc_dispatch(w, c) ==
    /\ pc[w] = "idle" /\ sent < MaxCmds
    /\ sent' = sent + 1
    /\ cmd' = [cmd EXCEPT ![w] = c]
    /\ Goto(w, Entry(c))
    /\ base' = [base EXCEPT ![w] = store]
    /\ under' = [under EXCEPT ![w] = behind]
    /\ LET others == {u \in Busy : Conflict(cmd[u], c)} IN
       met' = IF others = {} THEN met ELSE met \cup others \cup {w}
    /\ i' = [i EXCEPT ![w] = IF c.name \in Scans THEN c.cursor ELSE 1]
    /\ UNCHANGED <<cache, got, acc, reply, lost>>

-----------------------------------------------------------------------------
(* Calls of the library.                                                   *)

\* The bytes behind a pointer: the slot may have been reused, the storage freed.
Bytes(w) == IF w \in met THEN {got[w], Garbage} ELSE {got[w]}

Become(k, line) ==
    /\ store' = [store EXCEPT ![k] = First(line)]
    /\ behind' = [behind EXCEPT ![k] = Hidden(line)]

\* The entry vc_set finds is replaced.  If it finds none the new entry is stored at any
\* place among those lookups do not find, and is hidden itself unless it is the first.
\* Bound: the entries of a key, by the slots Table has for them.
insert(k, v) ==
    /\ <<k, Len(behind[k]) + 1>> \in Cells
    /\ \E p \in IF store[k] = None THEN 1 .. Len(behind[k]) + 1 ELSE {1} : Become(k, Inserted(behind[k], p, v))

\* vc_set by a handler that ignores the result: an empty value is refused, and
\* storage may be exhausted.
vc_set(w, k, v) ==
    \/ Length(v) > 0 /\ insert(k, v) /\ UNCHANGED met
    \/ Length(v) = 0 /\ UNCHANGED <<cache, met>>
    \/ met' = met \cup {w} /\ UNCHANGED cache

\* The entry vc_del finds is removed, and the one behind it comes forth.
vc_del(k) == IF store[k] = None THEN UNCHANGED cache ELSE Become(k, behind[k])

vc_get(w, l) ==
    /\ pc[w] = "read"
    /\ got' = [got EXCEPT ![w] = store[cmd[w].keys[i[w]]]]
    /\ Goto(w, l)
    /\ UNCHANGED <<cache, cmd, i, acc, reply, sent, lost, began, met>>

\* An entry expires and keeps its slot, is evicted (or dropped by an insert that finds no
\* slot), or is displaced to a slot behind the others by a key that shares the probe sequence.
lose(k) ==
    /\ \E j \in DOMAIN Line(k) :
         \/ Line(k)[j].ttl > 0 /\ Become(k, [Line(k) EXCEPT ![j] = Expired])
         \/ Become(k, Removed(Line(k), j))
         \/ j < Len(Line(k)) /\ Become(k, Append(Removed(Line(k), j), Line(k)[j]))
    /\ lost < MaxLost /\ lost' = lost + 1
    /\ met' = met \cup {w \in Busy : ShardOf[k] \in Shards(cmd[w])}
    /\ UNCHANGED <<local, sent, began>>

-----------------------------------------------------------------------------
(* The handlers.                                                           *)

Probe(w, l, exists, next) ==
    /\ At(w, "SET", l)
    /\ IF (store[Key(w)] # None) = exists THEN Goto(w, next) /\ UNCHANGED reply
                                          ELSE Answer(w, NULLREPLY)
    /\ UNCHANGED <<cache, cmd, i, got, acc, sent, lost, began, met>>

set_nx(w) == Probe(w, "nx", FALSE, IF "XX" \in cmd[w].flags THEN "xx" ELSE "write")
set_xx(w) == Probe(w, "xx", TRUE, "write")

\* The time to live of SET EX, SET PX and EXPIRE, in milliseconds: PX is cut to seconds,
\* and the seconds to the range of ttl.  0 is for ever.
Second == 1000
Seconds(c) ==
    IF ~(c.name = "SET" /\ "PX" \in c.flags) THEN c.n
    ELSE IF c.n >= 0 THEN c.n \div Second ELSE -((-c.n) \div Second)
Ttl(c) == Second * (Seconds(c) % TtlRange)

\* An empty value is stored as the byte that follows it.
cmd_set(w) ==
    LET text == IF cmd[w].args[1] = <<>> THEN <<Nul>> ELSE cmd[w].args[1] IN
    /\ At(w, "SET", "write")
    /\ \/ insert(Key(w), Value("string", 0, text, Ttl(cmd[w]))) /\ Answer(w, OK)
       \/ UNCHANGED cache /\ Answer(w, ERR)
    /\ UNCHANGED <<cmd, i, got, acc, sent, lost, began, met>>

\* A handler that reads one value and writes it, or something about it.
Show(w, name, answer(_)) ==
    \/ cmd[w].name = name /\ vc_get(w, "use")
    \/ /\ At(w, name, "use")
       /\ \E v \in Bytes(w) : Answer(w, answer(v))
       /\ UNCHANGED <<cache, cmd, i, got, acc, sent, lost, began, met>>

cmd_get(w)   == Show(w, "GET", BULK)
cmd_type(w)  == Show(w, "TYPE", Simple)
cmd_vcget(w) == Show(w, "VCGET", Map)

cmd_ttl(w) ==
    /\ At(w, "TTL", "read")
    /\ Answer(w, INT(IF store[Key(w)] = None THEN -2 ELSE -1))
    /\ UNCHANGED <<cache, cmd, i, got, acc, sent, lost, began, met>>

\* The end of a loop's body: the next argument, or the reply.
Loop(w, again, r) ==
    IF i[w] < Len(cmd[w].keys)
    THEN i' = [i EXCEPT ![w] = @ + 1] /\ Goto(w, again) /\ UNCHANGED reply
    ELSE Answer(w, r) /\ UNCHANGED i

\* deleted++ and found++: x stands for the argument that was counted.
Found(w, k, x) == acc' = IF store[k] = None THEN acc ELSE [acc EXCEPT ![w] = Append(@, x)]

cmd_del(w) ==
    LET k == cmd[w].keys[i[w]] IN
    /\ At(w, "DEL", "read")
    /\ Found(w, k, k)
    /\ vc_del(k)
    /\ Loop(w, "read", INT(Len(acc'[w])))
    /\ UNCHANGED <<cmd, got, sent, lost, began, met>>

cmd_exists(w) ==
    /\ At(w, "EXISTS", "read")
    /\ Found(w, cmd[w].keys[i[w]], i[w])
    /\ Loop(w, "read", INT(Len(acc'[w])))
    /\ UNCHANGED <<cache, cmd, got, sent, lost, began, met>>

Array(vs) == Reply("array", 0, [j \in DOMAIN vs |-> [vs[j] EXCEPT !.ttl = 0]])

cmd_mget(w) ==
    \/ cmd[w].name = "MGET" /\ vc_get(w, "use")
    \/ /\ At(w, "MGET", "use")
       /\ \E v \in Bytes(w) : acc' = [acc EXCEPT ![w] = Append(@, v)]
       /\ Loop(w, "read", Array(acc'[w]))
       /\ UNCHANGED <<cache, cmd, got, sent, lost, began, met>>

cmd_mset(w) ==
    /\ At(w, "MSET", "write")
    /\ vc_set(w, cmd[w].keys[i[w]], Value("string", 0, cmd[w].args[i[w]], 0))
    /\ Loop(w, "write", OK)
    /\ UNCHANGED <<cmd, got, acc, sent, lost, began>>

\* vc_flush goes from shard to shard; cmd.keys has a key of each.
cmd_flushdb(w) ==
    /\ At(w, "FLUSHDB", "read")
    /\ store' = [k \in Keys |-> IF ShardOf[k] = ShardOf[cmd[w].keys[i[w]]] THEN None ELSE store[k]]
    /\ behind' = [k \in Keys |-> IF ShardOf[k] = ShardOf[cmd[w].keys[i[w]]] THEN <<>> ELSE behind[k]]
    /\ Loop(w, "read", OK)
    /\ UNCHANGED <<cmd, got, acc, sent, lost, began, met>>

cmd_vcset(w) ==
    LET text == cmd[w].args[1]
        type == cmd[w].type IN
    /\ At(w, "VCSET", "write")
    /\ vc_set(w, Key(w),
              IF type = "integer" THEN Value("integer", parse_int64(text), <<>>, 0)
              ELSE Value(IF type = "json" THEN "json" ELSE "binary", 0, text, 0))
    /\ Answer(w, OK)
    /\ UNCHANGED <<cmd, i, got, acc, sent, lost, began>>

\* Fault: no return after the reply.
Require_on(w, name, otherwise) ==
    /\ At(w, name, "read")
    /\ got' = [got EXCEPT ![w] = store[Key(w)]]
    /\ IF store[Key(w)] = None THEN reply' = [reply EXCEPT ![w] = Append(@, otherwise)] ELSE UNCHANGED reply
    /\ Goto(w, "use")
    /\ UNCHANGED <<cache, cmd, i, acc, sent, lost, began, met>>

\* vc_get of a command that goes on if the key exists and answers if not.
Require(w, name, otherwise) ==
    /\ At(w, name, "read")
    /\ got' = [got EXCEPT ![w] = store[Key(w)]]
    /\ IF store[Key(w)] = None THEN Answer(w, otherwise) ELSE Goto(w, "use") /\ UNCHANGED reply
    /\ UNCHANGED <<cache, cmd, i, acc, sent, lost, began, met>>

\* The value is copied and stored again with another ttl.
Restore(w, name, ttl) ==
    /\ At(w, name, "use")
    /\ \E v \in Bytes(w) : vc_set(w, Key(w), [v EXCEPT !.ttl = ttl])
    /\ Answer(w, INT(1))
    /\ UNCHANGED <<cmd, i, got, acc, sent, lost, began>>

cmd_expire(w)  == Require(w, "EXPIRE", INT(0)) \/ Restore(w, "EXPIRE", Ttl(cmd[w]))
cmd_persist(w) == Require(w, "PERSIST", INT(0)) \/ Restore(w, "PERSIST", 0)

\* An argument overrides the delta of the handler, the sign of DECRBY included.
Delta(c) ==
    IF c.args # <<>> THEN parse_int64(c.args[1])
    ELSE IF c.name = "INCR" THEN 1 ELSE IF c.name = "DECR" THEN -1 ELSE 0

\* The new number is written to wbuf twice: as a typed payload before it is stored
\* and as an integer after.
cmd_incrby(w) ==
    \/ cmd[w].name \in Counters /\ vc_get(w, "use")
    \/ /\ cmd[w].name \in Counters /\ pc[w] = "use"
       /\ \E v \in Bytes(w) :
            LET cur == Value("integer", Number(v) + Delta(cmd[w]), <<>>, 0) IN
            /\ vc_set(w, Key(w), cur)
            /\ reply' = [reply EXCEPT ![w] = @ \o <<BULK(cur), INT(cur.num)>>]
       /\ Goto(w, "done")
       /\ UNCHANGED <<cmd, i, got, acc, sent, lost, began>>

Joined(v, text) ==
    IF v = None THEN Value("string", 0, text, 0) ELSE Value(v.type, v.num, v.text \o text, 0)

cmd_append(w) ==
    \/ cmd[w].name = "APPEND" /\ vc_get(w, "use")
    \/ /\ At(w, "APPEND", "use")
       /\ \E v \in IF got[w] = None THEN {None} ELSE Bytes(w) :
            LET new == Joined(v, cmd[w].args[1]) IN
            vc_set(w, Key(w), new) /\ Answer(w, INT(Length(new)))
       /\ UNCHANGED <<cmd, i, got, acc, sent, lost, began>>

\* The copy, vc_del of the old name, vc_set of the new one.
rename_del(w) ==
    /\ At(w, "RENAME", "use")
    /\ \E v \in Bytes(w) : got' = [got EXCEPT ![w] = v]
    /\ vc_del(Key(w))
    /\ Goto(w, "write")
    /\ UNCHANGED <<cmd, i, acc, reply, sent, lost, began, met>>

rename_set(w) ==
    /\ At(w, "RENAME", "write")
    /\ vc_set(w, cmd[w].keys[2], [got[w] EXCEPT !.ttl = 0])
    /\ Answer(w, OK)
    /\ UNCHANGED <<cmd, i, got, acc, sent, lost, began>>

\* Fault: the new name is written before the old one is deleted, which deletes a key
\* renamed to itself.
cmd_rename_late(w) ==
    \/ Require(w, "RENAME", ERR)
    \/ /\ At(w, "RENAME", "use")
       /\ vc_set(w, cmd[w].keys[2], [got[w] EXCEPT !.ttl = 0])
       /\ Goto(w, "write")
       /\ UNCHANGED <<cmd, i, got, acc, reply, sent, lost, began>>
    \/ /\ At(w, "RENAME", "write")
       /\ vc_del(Key(w))
       /\ Answer(w, OK)
       /\ UNCHANGED <<cmd, i, got, acc, sent, lost, began, met>>

cmd_rename(w) == Require(w, "RENAME", ERR) \/ rename_del(w) \/ rename_set(w)

\* KEYS and SCAN go through the slots of all shards without a lock, from the one at
\* their cursor, until they have as many keys as they may return.
Shard(w) == i[w] \div SlotRange
Slot(w)  == i[w] % SlotRange
Full(w)  == Len(acc[w]) = cmd[w].n
Slots(w) == Table[Shard(w) + 1]
Listing(w, next) == Reply("keys", IF cmd[w].name = "SCAN" THEN next ELSE 0, acc[w])
InScan(w)  == cmd[w].name \in Scans /\ pc[w] = "read"
InSlots(w) == InScan(w) /\ cmd[w].n # 0 /\ Slot(w) < Len(Slots(w))

\* COUNT 0: none of the loops is entered.
scan_none(w) ==
    /\ InScan(w) /\ cmd[w].n = 0
    /\ Answer(w, Listing(w, 0))
    /\ UNCHANGED <<cache, cmd, i, got, acc, sent, lost, began, met>>

\* The key of a LIVE entry is listed, be it expired or hidden.  acc has the slot.
scan_slot(w) ==
    LET e == Slots(w)[Slot(w) + 1] IN
    /\ InSlots(w) /\ ~Full(w)
    /\ IF Lives(store, behind, e)
       THEN \E bytes \in IF w \in met THEN {e, <<Garbage, 0>>} ELSE {e} : acc' = [acc EXCEPT ![w] = Append(@, bytes)]
       ELSE UNCHANGED acc
    /\ i' = [i EXCEPT ![w] = @ + 1]
    /\ UNCHANGED <<cache, cmd, pc, got, reply, sent, lost, began, met>>

\* Fault: the slot at which the scan stopped is skipped.
scan_stop_after(w) ==
    /\ InSlots(w) /\ Full(w)
    /\ Answer(w, Listing(w, i[w] + 1))
    /\ UNCHANGED <<cache, cmd, i, got, acc, sent, lost, began, met>>

\* Enough keys, with slots of the shard left: SCAN goes on here next time.
scan_stop(w) ==
    /\ InSlots(w) /\ Full(w)
    /\ Answer(w, Listing(w, i[w]))
    /\ UNCHANGED <<cache, cmd, i, got, acc, sent, lost, began, met>>

\* The end of a shard.  Without a next one, or with enough keys, the cursor is 0.
scan_shard(w) ==
    /\ InScan(w) /\ cmd[w].n # 0 /\ Slot(w) >= Len(Slots(w))
    /\ IF Shard(w) + 1 < Len(Table) /\ ~Full(w)
       THEN i' = [i EXCEPT ![w] = (Shard(w) + 1) * SlotRange] /\ UNCHANGED <<pc, reply>>
       ELSE Answer(w, Listing(w, 0)) /\ UNCHANGED i
    /\ UNCHANGED <<cache, cmd, got, acc, sent, lost, began, met>>

cmd_scan(w) == scan_none(w) \/ scan_slot(w) \/ scan_stop(w) \/ scan_shard(w)

\* process_conn frees the command and goes on to the next one.
finish(w) ==
    /\ pc[w] = "done" /\ Goto(w, "idle")
    /\ cmd' = [cmd EXCEPT ![w] = NoRequest]
    /\ i' = [i EXCEPT ![w] = 1]
    /\ got' = [got EXCEPT ![w] = None]
    /\ acc' = [acc EXCEPT ![w] = <<>>]
    /\ reply' = [reply EXCEPT ![w] = <<>>]
    /\ base' = [base EXCEPT ![w] = Empty]
    /\ under' = [under EXCEPT ![w] = Bare]
    /\ met' = met \ {w}
    /\ UNCHANGED <<cache, sent, lost>>

Finished == sent = MaxCmds /\ Busy = {} /\ UNCHANGED vars

worker(w) ==
    \/ \E c \in Requests : vc_dispatch(w, c)
    \/ set_nx(w) \/ set_xx(w) \/ cmd_set(w) \/ cmd_get(w) \/ cmd_type(w) \/ cmd_vcget(w) \/ cmd_ttl(w)
    \/ cmd_del(w) \/ cmd_exists(w) \/ cmd_mget(w) \/ cmd_mset(w) \/ cmd_flushdb(w) \/ cmd_vcset(w)
    \/ cmd_expire(w) \/ cmd_persist(w) \/ cmd_incrby(w) \/ cmd_append(w) \/ cmd_rename(w)
    \/ cmd_scan(w) \/ finish(w)

Next == (\E w \in Workers : worker(w)) \/ (\E k \in Keys : lose(k)) \/ Finished

Spec == Init /\ [][Next]_vars

-----------------------------------------------------------------------------
\* What a command does when it is one step, on a store s: its effect on its keys
\* and its reply.
With(s, k, v) == [s EXCEPT ![k] = v]
Result(s, r) == [store |-> s, reply |-> r]
Asked(c) == IF c.name = "SET" /\ "PX" \in c.flags THEN c.n ELSE Second * c.n

Atomic(c, s) ==
    LET k == c.keys[1]
        v == s[k]
        here == {c.keys[j] : j \in DOMAIN c.keys}
        last(x) == CHOOSE j \in DOMAIN c.keys : c.keys[j] = x /\ \A m \in DOMAIN c.keys : m > j => c.keys[m] # x IN
    CASE c.name = "SET" ->
           IF ("NX" \in c.flags /\ v # None) \/ ("XX" \in c.flags /\ v = None)
           THEN Result(s, NULLREPLY)
           ELSE Result(With(s, k, Value("string", 0, c.args[1], Asked(c))), OK)
      [] c.name = "GET"    -> Result(s, BULK(v))
      [] c.name = "VCGET"  -> Result(s, Map(v))
      [] c.name = "TYPE"   -> Result(s, Simple(v))
      [] c.name = "TTL"    -> Result(s, INT(IF v = None THEN -2 ELSE -1))
      [] c.name = "EXISTS" -> Result(s, INT(Cardinality({j \in DOMAIN c.keys : s[c.keys[j]] # None})))
      [] c.name = "MGET"   -> Result(s, Array([j \in DOMAIN c.keys |-> s[c.keys[j]]]))
      [] c.name = "DEL"    -> Result([x \in Keys |-> IF x \in here THEN None ELSE s[x]],
                                     INT(Cardinality({x \in here : s[x] # None})))
      [] c.name = "FLUSHDB" -> Result(Empty, OK)
      [] c.name = "MSET" ->
           Result([x \in Keys |-> IF x \in here THEN Value("string", 0, c.args[last(x)], 0) ELSE s[x]], OK)
      [] c.name = "VCSET" ->
           Result(With(s, k, IF c.type = "integer" THEN Value("integer", c.n, <<>>, 0)
                             ELSE Value(c.type, 0, c.args[1], 0)), OK)
      [] c.name \in {"EXPIRE", "PERSIST"} ->
           IF v = None THEN Result(s, INT(0))
           ELSE Result(With(s, k, [v EXCEPT !.ttl = IF c.name = "EXPIRE" THEN Asked(c) ELSE 0]), INT(1))
      [] c.name \in Counters ->
           LET by == IF c.args = <<>> THEN 1 ELSE c.n
               new == Number(v) + IF c.name \in {"INCR", "INCRBY"} THEN by ELSE -by IN
           Result(With(s, k, Value("integer", new, <<>>, 0)), INT(new))
      [] c.name = "APPEND" ->
           Result(With(s, k, Joined(v, c.args[1])), INT(Length(Joined(v, c.args[1]))))
      [] c.name = "RENAME" ->
           IF v = None THEN Result(s, ERR)
           ELSE Result(With(With(s, k, None), c.keys[2], [v EXCEPT !.ttl = 0]), OK)

\* Requests the code treats in its own way: an empty value is stored as one byte by
\* SET and dropped by MSET, VCSET stores a string as binary, DECRBY adds, like DECR with
\* an argument, and INCRBY without one adds nothing.  A time to live is kept in whole
\* seconds modulo 2^32, and one of 0, which PX below 1000 comes to, is for ever.
Irregular(c) ==
    \/ <<>> \in Range(c.args)
    \/ c.name = "VCSET" /\ c.type = "string"
    \/ c.name = "DECRBY" \/ (c.name = "DECR" /\ c.args # <<>>)
    \/ c.name = "INCRBY" /\ c.args = <<>>
    \/ c.name \in {"SET", "EXPIRE"} /\ (c.n < 0 \/ Asked(c) % Second # 0 \/ Asked(c) >= Second * TtlRange)
    \/ c.name = "EXPIRE" /\ c.n = 0

\* The keys of c that had other entries, x, than the one lookups find.
Crowded(c, x) == {k \in Keys : x[k] # <<>> /\ \E j \in DOMAIN c.keys : c.keys[j] = k}

\* The store t and the last reply r are those of one step of c on the store s, as far
\* as the shards of c's keys go.  SET may be refused storage, and says so.  A key that had
\* other entries x may be left with another value: what is stored may be hidden behind an
\* expired entry, and what is deleted may uncover an older value, which DEL of the same key
\* again then counts.
AsOneStep(c, s, x, t, r) ==
    LET one == Atomic(c, s)
        refused == c.name = "SET" /\ r = ERR IN
    /\ r = one.reply \/ refused \/ (c.name = "DEL" /\ Crowded(c, x) # {})
    /\ \A k \in Keys \ Crowded(c, x) : ShardOf[k] \in Shards(c) => t[k] = (IF refused THEN s ELSE one.store)[k]

\* Commands are atomic as long as they keep to shards of their own: one that meets
\* no other writer of its shards while it runs, loses no entry and is not refused
\* storage has the last reply of a single step on the store as it was when the command
\* began, and leaves the shards of its keys as that step would, whatever the other
\* workers do elsewhere; only its keys with expired entries in the table may differ.
\* (Read-modify-write commands that meet are not atomic: an INCR may be lost, EXPIRE may
\* bring back a deleted key, two SET NX may both succeed.)
Isolated ==
    \A w \in Workers : pc[w] = "done" /\ w \notin met /\ cmd[w].name \notin Scans /\ ~Irregular(cmd[w]) =>
        AsOneStep(cmd[w], base[w], under[w], store, reply[w][Len(reply[w])])

\* The cursor of the slot e.
Position(e) ==
    LET s == CHOOSE t \in DOMAIN Table : \E a \in DOMAIN Table[t] : Table[t][a] = e IN
    (s - 1) * SlotRange + (CHOOSE a \in DOMAIN Table[s] : Table[s][a] = e) - 1

\* SCAN came to its count with the last slot of a shard that is not the last: it
\* says 0 although other shards follow.
EndsEarly(w) ==
    /\ Full(w) /\ Shard(w) + 1 < Len(Table) /\ Slot(w) >= Len(Slots(w))

\* "SCAN returns [next_cursor, [keys]]": a client that goes on from the cursor it was
\* given misses no entry and gets none twice.  Of a scan that met no writer, every LIVE
\* entry from its cursor on is either in the reply, once, or still ahead of the next cursor,
\* and 0 means that none is ahead (but for EndsEarly and COUNT 0).  KEYS lists every entry
\* unless it comes to its limit.  Neither lists anything else.  So a key of one entry is
\* listed once; a key whose entries have expired is listed as often as it has entries.
ScanCovers ==
    \A w \in Workers : pc[w] = "done" /\ w \notin met /\ cmd[w].name \in Scans =>
        LET r == reply[w][1]
            from(cursor) == {e \in Cells : Lives(base[w], under[w], e) /\ Position(e) >= cursor}
            ahead == IF r.n = 0 THEN {} ELSE from(r.n)
            cut == EndsEarly(w) \/ cmd[w].n = 0 \/ (cmd[w].name = "KEYS" /\ Full(w)) IN
        /\ cut \/ from(cmd[w].cursor) \subseteq Range(r.vals) \cup ahead
        /\ Range(r.vals) \cap ahead = {} /\ IsInjective(r.vals)
        /\ \A e \in Range(r.vals) : Lives(base[w], under[w], e)

\* "Dispatch one command. Writes response": a command that has ended has written one
\* reply, on every path through its handler, so that replies stay in step with the
\* requests of a pipeline.  (Those of Counters write two.)
OneReply == \A w \in Workers : pc[w] = "done" /\ cmd[w].name \notin Counters => Len(reply[w]) = 1
=============================================================================
