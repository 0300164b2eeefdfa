--------------------------- MODULE CommandsProofs ---------------------------
(***************************************************************************)
(* The key commands, for every number of workers, every set of keys, every  *)
(* table and every set of requests.                                        *)
(***************************************************************************)
EXTENDS Commands, WellFoundedInduction, FiniteSetTheorems, TLAPS

USE DEF local, vars, cache, began

-----------------------------------------------------------------------------
(* The inductive invariant.                                                *)

\* The stores t and s agree on the shards of c's keys.
Same(c, t, s) == \A k \in Keys : ShardOf[k] \in Shards(c) => t[k] = s[k]

\* They agree on those keys, but for the ones of c that had other entries x.
Near(c, x, t, s) == \A k \in Keys \ Crowded(c, x) : ShardOf[k] \in Shards(c) => t[k] = s[k]

\* The keys a loop that has come to argument n has been through.
Before(c, n) == {c.keys[j] : j \in 1 .. n - 1}

\* The sequence a counts the members of S.
Counted(a, S) == a \in Seq(S) /\ IsInjective(a) /\ Range(a) = S

\* What SET has learned about its key when it comes to step p.
Probed(c, p, s) ==
    /\ p \in {"nx", "xx", "write"}
    /\ p = "nx" => "NX" \in c.flags
    /\ p = "xx" => "XX" \in c.flags
    /\ p # "nx" /\ "NX" \in c.flags => s[c.keys[1]] = None
    /\ p = "write" /\ "XX" \in c.flags => s[c.keys[1]] # None

\* A command c that began with the store s and the other entries x and has met no other
\* one: where its locals and the store t are when it comes to its step p.
Progress(c, p, n, g, a, s, x, t) ==
    /\ c.name \notin {"DEL", "MSET", "FLUSHDB"} /\ ~(c.name = "RENAME" /\ p = "write") => Same(c, t, s)
    /\ c.name \notin {"DEL", "EXISTS", "MGET", "MSET", "FLUSHDB"} => n = 1
    /\ c.name = "SET" => Probed(c, p, s)
    /\ p = "use" => g = s[c.keys[n]] /\ (c.name \in {"EXPIRE", "PERSIST", "RENAME"} => g # None)
    /\ c.name = "RENAME" /\ p = "write" =>
         g = s[c.keys[1]] /\ g # None /\ Near(c, x, t, With(s, c.keys[1], None))
    /\ c.name = "DEL" =>
         /\ Crowded(c, x) = {} => Counted(a, {k \in Before(c, n) : s[k] # None})
         /\ Near(c, x, t, [k \in Keys |-> IF k \in Before(c, n) THEN None ELSE s[k]])
    /\ c.name = "EXISTS" => Counted(a, {j \in 1 .. n - 1 : s[c.keys[j]] # None})
    /\ c.name = "MGET" => a = [j \in 1 .. n - 1 |-> s[c.keys[j]]]
    /\ c.name = "MSET" =>
         /\ \A k \in Keys : ShardOf[k] \in Shards(c) /\ k \notin Before(c, n) => t[k] = s[k]
         /\ \A j \in 1 .. n - 1 : c.keys[j] \notin Crowded(c, x) /\ (\A m \in j + 1 .. n - 1 : c.keys[m] # c.keys[j]) =>
              t[c.keys[j]] = Value("string", 0, c.args[j], 0)
    /\ c.name = "FLUSHDB" =>
         Same(c, t, [k \in Keys |-> IF \E j \in 1 .. n - 1 : ShardOf[k] = ShardOf[c.keys[j]] THEN None ELSE s[k]])

From(s, x, cursor) == {e \in Cells : Lives(s, x, e) /\ Position(e) >= cursor}

\* A scan that has come to the position n: every entry from its cursor on is in a or
\* still to come, once.
Scanned(c, n, a, s, x, t, y) ==
    /\ Same(c, t, s) /\ Same(c, y, x)
    /\ n \in Nat /\ n \div SlotRange < Len(Table)
    /\ a \in Seq(Cells) /\ IsInjective(a) /\ Len(a) <= c.n
    /\ \A e \in Range(a) : Position(e) < n /\ Lives(s, x, e)
    /\ From(s, x, c.cursor) \subseteq Range(a) \cup From(s, x, n)

\* It asked for nothing, came to its limit at the end of a shard, or is KEYS.
Cut(c, n, a) ==
    \/ c.n = 0
    \/ /\ Len(a) = c.n
       /\ c.name = "KEYS" \/ (n \div SlotRange + 1 < Len(Table) /\ n % SlotRange >= Len(Table[n \div SlotRange + 1]))

\* Its reply r.
Listed(c, n, a, s, x, r) ==
    /\ r.vals = a
    /\ \/ r.n = n /\ n # 0
       \/ r.n = 0 /\ (Cut(c, n, a) \/ From(s, x, n) = {})

\* A sequence of entries.
Entries(b) == \E S : b \in Seq(S) /\ \A v \in S : v = Expired \/ Payload(v)

Types ==
    /\ DOMAIN store = Keys /\ \A k \in Keys : Payload(store[k])
    /\ DOMAIN behind = Keys /\ \A k \in Keys : Entries(behind[k])
    /\ DOMAIN cmd = Workers /\ DOMAIN pc = Workers /\ DOMAIN i = Workers /\ DOMAIN got = Workers
    /\ DOMAIN acc = Workers /\ DOMAIN reply = Workers /\ DOMAIN base = Workers /\ DOMAIN under = Workers

\* The worker w between commands and at a command, whatever the others do.
Serving(w) ==
    /\ Payload(got[w])
    /\ pc[w] = "idle" => acc[w] = <<>>
    /\ pc[w] # "idle" => cmd[w] \in Requests /\ DOMAIN base[w] = Keys /\ \A k \in Keys : Payload(base[w][k])
    /\ pc[w] # "idle" /\ cmd[w].name \notin Scans => i[w] \in 1 .. Len(cmd[w].keys)
    /\ pc[w] # "done" => reply[w] = <<>>
    /\ pc[w] = "done" => Len(reply[w]) = IF cmd[w].name \in Counters THEN 2 ELSE 1

\* Commands that conflict know of each other.
Apart ==
    \A w, u \in Workers : w # u /\ pc[w] # "idle" /\ pc[u] # "idle" /\ Conflict(cmd[w], cmd[u]) => w \in met /\ u \in met

\* Keys that had no other entries x have none in y.
Clear(c, x, y) == \A k \in Keys : ShardOf[k] \in Shards(c) /\ x[k] = <<>> => y[k] = <<>>

\* A command that has met no other one.
Alone(w) ==
    /\ pc[w] # "idle" => Clear(cmd[w], under[w], behind)
    /\ pc[w] \notin {"idle", "done"} /\ cmd[w].name \notin Scans /\ ~Irregular(cmd[w]) =>
         Progress(cmd[w], pc[w], i[w], got[w], acc[w], base[w], under[w], store)
    /\ pc[w] = "done" /\ cmd[w].name \notin Scans /\ ~Irregular(cmd[w]) =>
         AsOneStep(cmd[w], base[w], under[w], store, reply[w][Len(reply[w])])
    /\ pc[w] # "idle" /\ cmd[w].name \in Scans =>
         Scanned(cmd[w], i[w], acc[w], base[w], under[w], store, behind)
    /\ pc[w] = "done" /\ cmd[w].name \in Scans => Listed(cmd[w], i[w], acc[w], base[w], under[w], reply[w][1])

CommandsInv == Types /\ (\A w \in Workers : Serving(w)) /\ Apart /\ \A w \in Workers : w \notin met => Alone(w)

-----------------------------------------------------------------------------
(* What one step does, command by command.                                 *)

\* Commands that only read.
LEMMA AtomicReads ==
    ASSUME NEW c, NEW s
    PROVE  /\ c.name = "GET"   => Atomic(c, s) = Result(s, BULK(s[c.keys[1]]))
           /\ c.name = "VCGET" => Atomic(c, s) = Result(s, Map(s[c.keys[1]]))
           /\ c.name = "TYPE"  => Atomic(c, s) = Result(s, Simple(s[c.keys[1]]))
           /\ c.name = "TTL"   => Atomic(c, s) = Result(s, INT(IF s[c.keys[1]] = None THEN -2 ELSE -1))
           /\ c.name = "EXISTS" =>
                Atomic(c, s) = Result(s, INT(Cardinality({j \in DOMAIN c.keys : s[c.keys[j]] # None})))
           /\ c.name = "MGET"  => Atomic(c, s) = Result(s, Array([j \in DOMAIN c.keys |-> s[c.keys[j]]]))
  BY Zenon DEF Atomic, Counters

\* SET.
LEMMA AtomicSet ==
    ASSUME NEW c, NEW s, c.name = "SET"
    PROVE  Atomic(c, s) = IF ("NX" \in c.flags /\ s[c.keys[1]] # None) \/ ("XX" \in c.flags /\ s[c.keys[1]] = None)
                          THEN Result(s, NULLREPLY)
                          ELSE Result(With(s, c.keys[1], Value("string", 0, c.args[1], Asked(c))), OK)
  BY Zenon DEF Atomic, Counters

\* The other writers that go by one key.
LEMMA AtomicWrites ==
    ASSUME NEW c, NEW s
    PROVE  /\ c.name = "VCSET" =>
                Atomic(c, s) = Result(With(s, c.keys[1], IF c.type = "integer" THEN Value("integer", c.n, <<>>, 0)
                                                         ELSE Value(c.type, 0, c.args[1], 0)), OK)
           /\ c.name \in {"EXPIRE", "PERSIST"} =>
                Atomic(c, s) = IF s[c.keys[1]] = None THEN Result(s, INT(0))
                               ELSE Result(With(s, c.keys[1], [s[c.keys[1]] EXCEPT !.ttl = IF c.name = "EXPIRE" THEN Asked(c) ELSE 0]), INT(1))
           /\ c.name = "APPEND" =>
                Atomic(c, s) = Result(With(s, c.keys[1], Joined(s[c.keys[1]], c.args[1])), INT(Length(Joined(s[c.keys[1]], c.args[1]))))
           /\ c.name = "RENAME" =>
                Atomic(c, s) = IF s[c.keys[1]] = None THEN Result(s, ERR)
                               ELSE Result(With(With(s, c.keys[1], None), c.keys[2], [s[c.keys[1]] EXCEPT !.ttl = 0]), OK)
  BY Zenon DEF Atomic, Counters

\* INCR and its kin, as far as they are regular.
LEMMA AtomicCounter ==
    ASSUME NEW c \in Requests, NEW s, c.name \in Counters, ~Irregular(c)
    PROVE  LET new == Number(s[c.keys[1]]) + Delta(c) IN
           Atomic(c, s) = Result(With(s, c.keys[1], Value("integer", new, <<>>, 0)), INT(new))
<1> DEFINE by == IF c.args = <<>> THEN 1 ELSE c.n
           sum == Number(s[c.keys[1]]) + IF c.name \in {"INCR", "INCRBY"} THEN by ELSE -by
<1>1. Atomic(c, s) = Result(With(s, c.keys[1], Value("integer", sum, <<>>, 0)), INT(sum))
  BY Zenon DEF Atomic, Counters
<1>2. c.args # <<>> => c.n = parse_int64(c.args[1])
  BY RequestAssumption, Zenon
<1>3. Delta(c) = IF c.name \in {"INCR", "INCRBY"} THEN by ELSE -by
  <2>1. CASE c.name = "INCR" \/ c.name = "INCRBY"
    BY <1>2, <2>1, Zenon DEF Delta, Irregular
  <2>2. CASE c.name = "DECR"
    BY <1>2, <2>2, Zenon DEF Delta, Irregular
  <2>3. QED
    BY <2>1, <2>2, Zenon DEF Irregular, Counters
<1>4. QED
  BY <1>1, <1>3, Zenon

\* FLUSHDB.
LEMMA AtomicFlush ==
    ASSUME NEW c, NEW s, c.name = "FLUSHDB"
    PROVE  Atomic(c, s) = Result(Empty, OK)
  BY Zenon DEF Atomic, Counters

-----------------------------------------------------------------------------
(* Values.                                                                 *)

\* A value with a text is a payload if it is not empty.
LEMMA ValuePayload ==
    ASSUME NEW type, type # "expired", NEW num, NEW text \in Seq(Nat), NEW ttl, Length(Value(type, num, text, ttl)) > 0
    PROVE  Payload(Value(type, num, text, ttl))
<1> DEFINE v == Value(type, num, text, ttl)
<1>1. v.type = type /\ v.num = num /\ v.text = text /\ v.ttl = ttl
  BY DEF Value
<1> HIDE DEF v
<1>2. QED
  BY <1>1, Zenon DEF Payload, v

\* Typed values are never empty, strings are not if their text is not.
LEMMA Lengths ==
    ASSUME NEW type, NEW num, NEW text \in Seq(Nat), NEW ttl
    PROVE  /\ type # "string" => Length(Value(type, num, text, ttl)) > 0
           /\ text # <<>> => Length(Value(type, num, text, ttl)) > 0
           /\ Length(Value(type, num, text, ttl)) >= 0
<1> DEFINE v == Value(type, num, text, ttl)
<1>1. v.type = type /\ v.num = num /\ v.text = text /\ v.ttl = ttl
  BY DEF Value
<1> HIDE DEF v
<1>2. Len(text) \in Nat /\ (text # <<>> => Len(text) > 0)
  OBVIOUS
<1>3. QED
  BY <1>1, <1>2 DEF Length, v, VC_WIRE_MAGIC_LEN

\* None and the bytes of a freed block are payloads.
LEMMA PayloadNone == Payload(None) /\ Payload(Garbage)
<1>1. Length(None) > 0 /\ Length(Garbage) > 0 /\ <<>> \in Seq(Nat) /\ <<Nul>> \in Seq(Nat)
  BY DEF None, Garbage, Value, Length, Nul, VC_WIRE_MAGIC_LEN
<1>2. QED
  BY <1>1, ValuePayload, Zenon DEF None, Garbage

\* Another ttl changes neither the text nor the length.
LEMMA PayloadTtl ==
    ASSUME NEW v, Payload(v), NEW ttl
    PROVE  Payload([v EXCEPT !.ttl = ttl]) /\ Length([v EXCEPT !.ttl = ttl]) > 0
<1>1. [v EXCEPT !.ttl = ttl] = Value(v.type, v.num, v.text, ttl)
  <2>1. v = [type |-> v.type, num |-> v.num, text |-> v.text, ttl |-> v.ttl]
    BY Zenon DEF Payload, Value
  <2>2. QED
    BY <2>1 DEF Value
<1>2. Length(Value(v.type, v.num, v.text, ttl)) = Length(v)
  BY Zenon DEF Length, Value
<1>3. Length(v) > 0 /\ v.text \in Seq(Nat) /\ v.type # "expired"
  BY Zenon DEF Payload
<1>4. Payload(Value(v.type, v.num, v.text, ttl)) /\ Length(Value(v.type, v.num, v.text, ttl)) > 0
  BY <1>2, <1>3, ValuePayload, Zenon
<1>5. QED
  BY <1>1, <1>4, Zenon

\* APPEND makes a payload of a payload and a text that is not empty.
LEMMA PayloadJoined ==
    ASSUME NEW v, Payload(v), NEW text \in Seq(Nat)
    PROVE  /\ Length(Joined(v, text)) > 0 => Payload(Joined(v, text))
           /\ text # <<>> => Length(Joined(v, text)) > 0
<1>1. CASE v = None
  BY <1>1, ValuePayload, Lengths, Zenon DEF Joined
<1>2. CASE v # None
  <2>a. v.type # "expired"
    BY Zenon DEF Payload
  <2>1. v.text \o text \in Seq(Nat) /\ (text # <<>> => v.text \o text # <<>>)
    BY DEF Payload
  <2>2. /\ Length(Value(v.type, v.num, v.text \o text, 0)) > 0 => Payload(Value(v.type, v.num, v.text \o text, 0))
        /\ text # <<>> => Length(Value(v.type, v.num, v.text \o text, 0)) > 0
    BY <2>a, <2>1, ValuePayload, Lengths, Zenon
  <2>3. QED
    BY <1>2, <2>2, Zenon DEF Joined
<1>3. QED
  BY <1>1, <1>2, Zenon


\* A regular time to live is kept as it was asked for.
LEMMA TtlExact ==
    ASSUME NEW c \in Requests, c.name \in {"SET", "EXPIRE"}, ~Irregular(c)
    PROVE  Ttl(c) = Asked(c)
<1>1. c.n \in Int /\ TtlRange \in Nat \ {0}
  BY RequestAssumption, TtlAssumption, Zenon
<1>2. c.n >= 0 /\ Asked(c) % Second = 0 /\ Asked(c) < Second * TtlRange
  <2>1. ~(c.n < 0) /\ Asked(c) % Second = 0 /\ ~(Asked(c) >= Second * TtlRange)
    BY Zenon DEF Irregular
  <2>2. Asked(c) \in Int
    BY <1>1 DEF Asked, Second
  <2>3. QED
    BY <1>1, <2>1, <2>2 DEF Second
<1>3. \A x \in Nat : x < TtlRange => x % TtlRange = x
  BY <1>1
<1>4. CASE c.name = "SET" /\ "PX" \in c.flags
  <2>1. Asked(c) = c.n /\ Seconds(c) = c.n \div Second
    BY <1>2, <1>4, Zenon DEF Asked, Seconds
  <2>2. c.n \div Second \in Nat /\ Second * (c.n \div Second) = c.n /\ c.n \div Second < TtlRange
    BY <1>1, <1>2, <2>1 DEF Second
  <2>3. QED
    <3>1. Seconds(c) % TtlRange = Seconds(c)
      BY <1>3, <2>1, <2>2, Zenon
    <3>2. Ttl(c) = Second * (c.n \div Second)
      BY <2>1, <3>1, Zenon DEF Ttl
    <3>3. QED
      BY <2>1, <2>2, <3>2, Zenon
<1>5. CASE ~(c.name = "SET" /\ "PX" \in c.flags)
  <2>1. Asked(c) = Second * c.n /\ Seconds(c) = c.n
    BY <1>5, Zenon DEF Asked, Seconds
  <2>2. c.n \in Nat /\ c.n < TtlRange
    BY <1>1, <1>2, <2>1 DEF Second
  <2>3. QED
    BY <1>3, <2>1, <2>2, Zenon DEF Ttl
<1>6. QED
  BY <1>4, <1>5, Zenon

-----------------------------------------------------------------------------
(* The entries of a key.                                                   *)

\* What lookups find of a sequence of entries, and pass by.
LEMMA LineParts ==
    ASSUME NEW b, Entries(b)
    PROVE  Payload(First(b)) /\ Entries(Hidden(b)) /\ First(<<>>) = None /\ Hidden(<<>>) = <<>>
<1>1. PICK S : b \in Seq(S) /\ \A v \in S : v = Expired \/ Payload(v)
  BY Zenon DEF Entries
<1>2. b # <<>> => b[1] \in S /\ Tail(b) \in Seq(S)
  BY <1>1
<1>3. Payload(First(b))
  BY <1>1, <1>2, PayloadNone, Zenon DEF First
<1>4. Hidden(b) \in Seq(S)
  BY <1>1, <1>2, Zenon DEF Hidden
<1>5. QED
  BY <1>1, <1>3, <1>4, Zenon DEF Entries, First, Hidden

\* One more entry; if it is the only one, lookups find it.
LEMMA LineInsert ==
    ASSUME NEW b, Entries(b), NEW p \in 1 .. Len(b) + 1, NEW v, Payload(v)
    PROVE  /\ Entries(Inserted(b, p, v))
           /\ b = <<>> => First(Inserted(b, p, v)) = v /\ Hidden(Inserted(b, p, v)) = <<>>
<1>1. PICK S : b \in Seq(S) /\ \A u \in S : u = Expired \/ Payload(u)
  BY Zenon DEF Entries
<1>2. Inserted(b, p, v) \in Seq(S \cup {v})
  <2>1. b \in Seq(S \cup {v}) /\ Len(b) \in Nat
    BY <1>1
  <2>2. SubSeq(b, 1, p - 1) \in Seq(S \cup {v}) /\ SubSeq(b, p, Len(b)) \in Seq(S \cup {v})
    BY <2>1
  <2>3. QED
    BY <2>2 DEF Inserted
<1>3. ASSUME b = <<>> PROVE Inserted(b, p, v) = <<v>>
  <2>1. p = 1
    BY <1>3
  <2>2. Inserted(<<>>, 1, v) = SubSeq(<<>>, 1, 0) \o <<v>> \o SubSeq(<<>>, 1, 0)
    BY DEF Inserted
  <2>3. SubSeq(<<>>, 1, 0) = <<>>
    OBVIOUS
  <2>4. <<>> \o <<v>> \o <<>> = <<v>>
    OBVIOUS
  <2>5. QED
    BY <1>3, <2>1, <2>2, <2>3, <2>4, Zenon
<1>4. v # Expired
  <2>1. Expired.type = "expired"
    BY DEF Expired, Value
  <2>2. QED
    BY <2>1, Zenon DEF Payload
<1>5. <<v>> # <<>> /\ <<v>>[1] = v /\ Tail(<<v>>) = <<>>
  OBVIOUS
<1>6. b = <<>> => First(Inserted(b, p, v)) = v /\ Hidden(Inserted(b, p, v)) = <<>>
  BY <1>3, <1>4, <1>5, Zenon DEF First, Hidden
<1>7. \A u \in S \cup {v} : u = Expired \/ Payload(u)
  BY <1>1, Zenon
<1>8. QED
  BY <1>2, <1>6, <1>7, Zenon DEF Entries

\* What an expiry, an eviction or a displacement leaves.
LEMMA LineLose ==
    ASSUME NEW b, Entries(b), NEW j \in DOMAIN b
    PROVE  Entries([b EXCEPT ![j] = Expired]) /\ Entries(Removed(b, j)) /\ Entries(Append(Removed(b, j), b[j]))
<1>1. PICK S : b \in Seq(S) /\ \A u \in S : u = Expired \/ Payload(u)
  BY Zenon DEF Entries
<1>2. b[j] \in S /\ j \in 1 .. Len(b) /\ Len(b) \in Nat
  BY <1>1
<1>3. Removed(b, j) \in Seq(S)
  <2>1. SubSeq(b, 1, j - 1) \in Seq(S) /\ SubSeq(b, j + 1, Len(b)) \in Seq(S)
    BY <1>1, <1>2
  <2>2. QED
    BY <2>1 DEF Removed
<1>4. Append(Removed(b, j), b[j]) \in Seq(S)
  BY <1>2, <1>3
<1>5. [b EXCEPT ![j] = Expired] \in Seq(S \cup {Expired})
  <2> DEFINE E == Expired
  <2> HIDE DEF E
  <2>1. [b EXCEPT ![j] = E] \in Seq(S \cup {E})
    BY <1>1, <1>2
  <2>2. QED
    BY <2>1 DEF E
<1>6. \A u \in S \cup {Expired} : u = Expired \/ Payload(u)
  BY <1>1, Zenon
<1>7. QED
  BY <1>1, <1>3, <1>4, <1>5, <1>6, Zenon DEF Entries

\* The entries of a key, with the one found.
LEMMA LineEntries ==
    ASSUME NEW k \in Keys, Types
    PROVE  Entries(Line(k))
<1>1. PICK S : behind[k] \in Seq(S) /\ \A u \in S : u = Expired \/ Payload(u)
  BY Zenon DEF Entries, Types
<1>2. <<store[k]>> \o behind[k] \in Seq(S \cup {store[k]})
  <2>1. <<store[k]>> \in Seq(S \cup {store[k]}) /\ behind[k] \in Seq(S \cup {store[k]})
    BY <1>1
  <2>2. QED
    BY <2>1
<1>3. Payload(store[k])
  BY Zenon DEF Types
<1>4. \A u \in S \cup {store[k]} : u = Expired \/ Payload(u)
  BY <1>1, <1>3, Zenon
<1>5. QED
  BY <1>1, <1>2, <1>4, Zenon DEF Entries, Line

-----------------------------------------------------------------------------
(* What a step of a worker leaves alone.                                   *)

\* A sequence with a first element.
LEMMA FirstOf ==
    ASSUME NEW S, NEW a \in Seq(S), a # <<>>
    PROVE  1 \in 1 .. Len(a)
  OBVIOUS

\* A request's keys and arguments.
LEMMA RequestFacts ==
    ASSUME NEW c \in Requests
    PROVE  /\ Len(c.keys) \in Nat /\ 1 <= Len(c.keys) /\ DOMAIN c.keys = 1 .. Len(c.keys)
           /\ \A j \in 1 .. Len(c.keys) : c.keys[j] \in Keys /\ ShardOf[c.keys[j]] \in Shards(c)
           /\ \A j \in 1 .. Len(c.args) : c.args[j] \in Seq(Nat) /\ c.args[j] \in Range(c.args)
<1>1. c.keys \in Seq(Keys) /\ c.keys # <<>> /\ c.args \in Seq(Seq(Nat))
  BY RequestAssumption, Zenon
<1>2. Len(c.keys) \in Nat /\ 1 <= Len(c.keys) /\ DOMAIN c.keys = 1 .. Len(c.keys)
  BY <1>1
<1>3. \A j \in 1 .. Len(c.keys) : c.keys[j] \in Keys
  BY <1>1
<1>4. DOMAIN c.args = 1 .. Len(c.args) /\ \A j \in 1 .. Len(c.args) : c.args[j] \in Seq(Nat)
  BY <1>1
<1>5. QED
  BY <1>2, <1>3, <1>4, Zenon DEF Shards, Range

\* The function g differs from f at w only.
Touches(f, g, w) == DOMAIN g = DOMAIN f /\ \A u \in Workers : u # w => g[u] = f[u]

\* An assignment to w's local.
Sets(f, g, w) == g = f \/ \E e : g = [f EXCEPT ![w] = e]

\* An assignment to w's local leaves the others alone.
LEMMA TouchOne ==
    ASSUME NEW f, DOMAIN f = Workers, NEW w \in Workers, NEW g, Sets(f, g, w)
    PROVE  Touches(f, g, w)
  BY Zenon DEF Touches, Sets

\* The steps of the handlers.
Handler(w) ==
    \/ set_nx(w) \/ set_xx(w) \/ cmd_set(w) \/ cmd_get(w) \/ cmd_type(w) \/ cmd_vcget(w) \/ cmd_ttl(w)
    \/ cmd_del(w) \/ cmd_exists(w) \/ cmd_mget(w) \/ cmd_mset(w) \/ cmd_flushdb(w) \/ cmd_vcset(w)
    \/ cmd_expire(w) \/ cmd_persist(w) \/ cmd_incrby(w) \/ cmd_append(w) \/ cmd_rename(w) \/ cmd_scan(w)

Assigns(w) ==
    /\ Sets(pc, pc', w) /\ Sets(i, i', w) /\ Sets(got, got', w)
    /\ Sets(acc, acc', w) /\ Sets(reply, reply', w)
    /\ cmd' = cmd /\ base' = base /\ under' = under
    /\ met \subseteq met' /\ met' \subseteq met \cup {w}
    /\ pc[w] \notin {"idle", "done"} /\ pc'[w] # "idle"

\* A handler changes its own locals only.
LEMMA HandlerFrame ==
    ASSUME NEW w \in Workers, Types, Handler(w)
    PROVE  Assigns(w)
<1> USE DEF Assigns, At, Goto, Answer, Sets
<1>0. w \in DOMAIN pc
  BY Zenon DEF Types
<1>1. CASE set_nx(w) \/ set_xx(w)
  BY <1>0, <1>1, Zenon DEF set_nx, set_xx, Probe
<1>2. CASE cmd_set(w) \/ cmd_ttl(w)
  BY <1>0, <1>2, Zenon DEF cmd_set, cmd_ttl
<1>3. CASE cmd_get(w) \/ cmd_type(w) \/ cmd_vcget(w)
  BY <1>0, <1>3, Zenon DEF cmd_get, cmd_type, cmd_vcget, Show, vc_get
<1>4. CASE cmd_del(w)
  BY <1>0, <1>4, Zenon DEF cmd_del, Found, Loop
<1>5. CASE cmd_exists(w)
  BY <1>0, <1>5, Zenon DEF cmd_exists, Found, Loop
<1>6. CASE cmd_mget(w)
  BY <1>0, <1>6, Zenon DEF cmd_mget, vc_get, Loop
<1>7. CASE cmd_mset(w)
  BY <1>0, <1>7, Zenon DEF cmd_mset, vc_set, Loop
<1>8. CASE cmd_flushdb(w)
  BY <1>0, <1>8, Zenon DEF cmd_flushdb, Loop
<1>9. CASE cmd_vcset(w)
  BY <1>0, <1>9, Zenon DEF cmd_vcset, vc_set
<1>10. CASE cmd_expire(w)
  BY <1>0, <1>10, Zenon DEF cmd_expire, Require, Restore, vc_set
<1>11. CASE cmd_persist(w)
  BY <1>0, <1>11, Zenon DEF cmd_persist, Require, Restore, vc_set
<1>12. CASE cmd_incrby(w)
  BY <1>0, <1>12, Zenon DEF cmd_incrby, vc_get, vc_set
<1>13. CASE cmd_append(w)
  BY <1>0, <1>13, Zenon DEF cmd_append, vc_get, vc_set
<1>14. CASE cmd_rename(w)
  BY <1>0, <1>14, Zenon DEF cmd_rename, Require, rename_del, rename_set, vc_set
<1>15. CASE cmd_scan(w)
  BY <1>0, <1>15, Zenon DEF cmd_scan, scan_none, scan_slot, scan_stop, scan_shard, InScan, InSlots
<1>16. QED
  BY <1>1, <1>2, <1>3, <1>4, <1>5, <1>6, <1>7, <1>8, <1>9, <1>10, <1>11, <1>12, <1>13, <1>14, <1>15, Zenon
     DEF Handler


\* The steps of a worker on its own locals and its own history.
Frame(w) ==
    /\ Touches(pc, pc', w) /\ Touches(i, i', w) /\ Touches(got, got', w)
    /\ Touches(acc, acc', w) /\ Touches(reply, reply', w) /\ Touches(cmd, cmd', w) /\ Touches(base, base', w)
    /\ Touches(under, under', w) /\ \A u \in Workers : u # w /\ u \in met => u \in met'

\* No step of a worker changes another one's locals.
LEMMA WorkerFrame ==
    ASSUME NEW w \in Workers, Types, worker(w)
    PROVE  Frame(w)
<1> USE DEF Types
<1>1. CASE Handler(w)
  <2>1. Assigns(w)
    BY <1>1, HandlerFrame, Zenon
  <2>2. /\ Touches(pc, pc', w) /\ Touches(i, i', w) /\ Touches(got, got', w)
        /\ Touches(acc, acc', w) /\ Touches(reply, reply', w)
    BY <2>1, TouchOne, Zenon DEF Assigns
  <2>3. QED
    BY <2>1, <2>2, Zenon DEF Assigns, Frame, Touches
<1>2. ASSUME NEW c \in Requests, vc_dispatch(w, c) PROVE Frame(w)
  <2>1. /\ Sets(pc, pc', w) /\ Sets(i, i', w) /\ Sets(cmd, cmd', w) /\ Sets(base, base', w)
        /\ Sets(under, under', w) /\ got' = got /\ acc' = acc /\ reply' = reply
    BY <1>2, Zenon DEF vc_dispatch, Goto, Sets
  <2>2. met \subseteq met'
    BY <1>2, Zenon DEF vc_dispatch
  <2>3. /\ Touches(pc, pc', w) /\ Touches(i, i', w) /\ Touches(cmd, cmd', w)
        /\ Touches(base, base', w) /\ Touches(under, under', w)
    BY <2>1, TouchOne, Zenon
  <2>4. QED
    BY <2>1, <2>2, <2>3, Zenon DEF Frame, Touches
<1>3. CASE finish(w)
  <2>1. /\ Sets(pc, pc', w) /\ Sets(i, i', w) /\ Sets(cmd, cmd', w) /\ Sets(base, base', w)
        /\ Sets(got, got', w) /\ Sets(acc, acc', w) /\ Sets(reply, reply', w)
        /\ Sets(under, under', w) /\ met' = met \ {w}
    BY <1>3, Zenon DEF finish, Goto, Sets
  <2>2. /\ Touches(pc, pc', w) /\ Touches(i, i', w) /\ Touches(cmd, cmd', w) /\ Touches(base, base', w)
        /\ Touches(got, got', w) /\ Touches(acc, acc', w) /\ Touches(reply, reply', w) /\ Touches(under, under', w)
    BY <2>1, TouchOne, Zenon
  <2>3. QED
    BY <2>1, <2>2, Zenon DEF Frame
<1>4. QED
  BY <1>1, <1>2, <1>3, Zenon DEF worker, Handler

\* The key k has other entries; if there was at most one, lookups find v.
Alters(k, v) ==
    \E y, l : /\ Payload(y) /\ store' = [store EXCEPT ![k] = y]
              /\ Entries(l) /\ behind' = [behind EXCEPT ![k] = l]
              /\ behind[k] = <<>> => y = v /\ l = <<>>

\* A write to one of the command's keys.
Put(w) ==
    \E j \in 1 .. Len(cmd[w].keys) : \E v : Alters(cmd[w].keys[j], v)

\* vc_flush of the shard of one of the command's keys.
Wipe(w) ==
    \E j \in 1 .. Len(cmd[w].keys) :
        /\ store' = [k \in Keys |-> IF ShardOf[k] = ShardOf[cmd[w].keys[j]] THEN None ELSE store[k]]
        /\ behind' = [k \in Keys |-> IF ShardOf[k] = ShardOf[cmd[w].keys[j]] THEN <<>> ELSE behind[k]]

\* A new entry is found if the key had none that lookups pass by.
LEMMA InsertAlters ==
    ASSUME NEW k \in Keys, Types, NEW v, Payload(v), insert(k, v)
    PROVE  Alters(k, v)
<1>1. Entries(behind[k])
  BY Zenon DEF Types
<1>2. 1 \in 1 .. Len(behind[k]) + 1
  <2>1. Len(behind[k]) \in Nat
    <3>1. PICK S : behind[k] \in Seq(S)
      BY <1>1, Zenon DEF Entries
    <3>2. QED
      BY <3>1
  <2>2. QED
    BY <2>1
<1>3. PICK p \in 1 .. Len(behind[k]) + 1 : Become(k, Inserted(behind[k], p, v))
  BY <1>2, Zenon DEF insert
<1>4. /\ Entries(Inserted(behind[k], p, v))
      /\ behind[k] = <<>> => First(Inserted(behind[k], p, v)) = v /\ Hidden(Inserted(behind[k], p, v)) = <<>>
  BY <1>1, LineInsert, Zenon
<1>5. Payload(First(Inserted(behind[k], p, v))) /\ Entries(Hidden(Inserted(behind[k], p, v)))
  BY <1>4, LineParts, Zenon
<1>6. QED
  BY <1>3, <1>4, <1>5, Zenon DEF Become, Alters

\* What vc_del does.
LEMMA DelAlters ==
    ASSUME NEW k \in Keys, Types, vc_del(k)
    PROVE  (store[k] = None /\ UNCHANGED cache) \/ Alters(k, None)
<1>1. Entries(behind[k])
  BY Zenon DEF Types
<1>2. /\ Payload(First(behind[k])) /\ Entries(Hidden(behind[k]))
      /\ behind[k] = <<>> => First(behind[k]) = None /\ Hidden(behind[k]) = <<>>
  BY <1>1, LineParts, Zenon
<1>3. QED
  BY <1>2, Zenon DEF vc_del, Become, Alters

\* What vc_set does to the store.
LEMMA SetPuts ==
    ASSUME NEW w \in Workers, NEW j \in 1 .. Len(cmd[w].keys), NEW k \in Keys, k = cmd[w].keys[j],
           Types, NEW v, Length(v) > 0 => Payload(v), vc_set(w, k, v)
    PROVE  UNCHANGED cache \/ Put(w)
<1>1. UNCHANGED cache \/ (Payload(v) /\ insert(k, v))
  BY Zenon DEF vc_set
<1>2. QED
  BY <1>1, InsertAlters, Zenon DEF Put

\* The bytes a handler copies.
LEMMA BytesPayload ==
    ASSUME NEW w \in Workers, Payload(got[w]), NEW v \in Bytes(w)
    PROVE  Payload(v) /\ (w \notin met => v = got[w])
  BY PayloadNone, Zenon DEF Bytes


\* A handler writes to its own keys, or wipes a shard of theirs, if it is one of a writer.
Writes(w) == UNCHANGED cache \/ (cmd[w].name \notin Readers /\ (Put(w) \/ Wipe(w)))

\* What the handlers do to the store.
LEMMA HandlerWrites ==
    ASSUME NEW w \in Workers, Types, Serving(w), Handler(w)
    PROVE  Writes(w)
<1>0. /\ cmd[w] \in Requests /\ Payload(got[w])
      /\ cmd[w].name \notin Scans => i[w] \in 1 .. Len(cmd[w].keys)
  BY HandlerFrame, Zenon DEF Assigns, Serving
<1>a. 1 \in 1 .. Len(cmd[w].keys) /\ (cmd[w].name = "RENAME" => 2 \in 1 .. Len(cmd[w].keys))
  <2>1. Len(cmd[w].keys) \in Nat /\ 1 <= Len(cmd[w].keys) /\ (cmd[w].name = "RENAME" => Len(cmd[w].keys) = 2)
    BY <1>0, RequestFacts, RequestAssumption, Zenon
  <2>2. (\A n \in Nat : 1 <= n => 1 \in 1 .. n) /\ 2 \in 1 .. 2
    OBVIOUS
  <2>3. QED
    BY <2>1, <2>2, Zenon
<1>c. \A j \in 1 .. Len(cmd[w].keys) : cmd[w].keys[j] \in Keys
  BY <1>0, RequestFacts, Zenon
<1>b. cmd[w].name \in {"SET", "APPEND", "VCSET"} => cmd[w].args[1] \in Seq(Nat)
  <2>1. /\ cmd[w].name \in {"SET", "APPEND", "VCSET"} => cmd[w].args # <<>>
        /\ cmd[w].args \in Seq(Seq(Nat))
    BY <1>0, RequestAssumption, Zenon
  <2>2. cmd[w].args # <<>> => 1 \in 1 .. Len(cmd[w].args)
    BY <2>1, FirstOf, Zenon
  <2>3. QED
    BY <1>0, <2>1, <2>2, RequestFacts, Zenon
<1>1. CASE set_nx(w) \/ set_xx(w) \/ cmd_ttl(w) \/ cmd_exists(w)
  BY <1>1, Zenon DEF set_nx, set_xx, Probe, cmd_ttl, cmd_exists, Writes
<1>2. CASE cmd_get(w) \/ cmd_type(w) \/ cmd_vcget(w) \/ cmd_mget(w)
  BY <1>2, Zenon DEF cmd_get, cmd_type, cmd_vcget, cmd_mget, Show, vc_get, Writes
<1>3. CASE cmd_scan(w)
  BY <1>3, Zenon DEF cmd_scan, scan_none, scan_slot, scan_stop, scan_shard, Writes
<1>4. CASE cmd_set(w)
  <2> DEFINE text == IF cmd[w].args[1] = <<>> THEN <<Nul>> ELSE cmd[w].args[1]
             v == Value("string", 0, text, Ttl(cmd[w]))
  <2>1. cmd[w].name = "SET" /\ (UNCHANGED cache \/ insert(cmd[w].keys[1], v))
    BY <1>4, Zenon DEF cmd_set, At, Key
  <2>2. <<Nul>> \in Seq(Nat) /\ <<Nul>> # <<>>
    BY DEF Nul
  <2>3. text \in Seq(Nat) /\ text # <<>>
    BY <1>b, <2>1, <2>2, Zenon
  <2>4. Payload(v)
    BY <2>3, ValuePayload, Lengths, Zenon
  <2> HIDE DEF v
  <2>5. QED
    BY <1>a, <1>c, <2>1, <2>4, InsertAlters, Zenon DEF Writes, Put, Readers, Scans
<1>5. CASE cmd_del(w)
  <2>1. cmd[w].name = "DEL" /\ vc_del(cmd[w].keys[i[w]])
    BY <1>5, Zenon DEF cmd_del, At
  <2>2. i[w] \in 1 .. Len(cmd[w].keys)
    BY <1>0, <2>1, Zenon DEF Scans
  <2>3. QED
    BY <1>c, <2>1, <2>2, DelAlters, Zenon DEF Writes, Put, Readers, Scans
<1>6. CASE cmd_mset(w)
  <2> DEFINE v == Value("string", 0, cmd[w].args[i[w]], 0)
  <2>1. cmd[w].name = "MSET" /\ vc_set(w, cmd[w].keys[i[w]], v)
    BY <1>6, Zenon DEF cmd_mset, At
  <2>2. i[w] \in 1 .. Len(cmd[w].keys) /\ Len(cmd[w].args) = Len(cmd[w].keys)
    BY <1>0, <2>1, RequestAssumption, Zenon DEF Scans
  <2>3. cmd[w].args[i[w]] \in Seq(Nat)
    BY <1>0, <2>2, RequestFacts, Zenon
  <2>4. Length(v) > 0 => Payload(v)
    BY <2>3, ValuePayload, Zenon
  <2> HIDE DEF v
  <2>5. QED
    BY <1>c, <2>1, <2>2, <2>4, SetPuts, Zenon DEF Writes, Readers, Scans
<1>7. CASE cmd_flushdb(w)
  BY <1>0, <1>7, Zenon DEF cmd_flushdb, At, Writes, Wipe, Readers, Scans
<1>8. CASE cmd_vcset(w)
  <2> DEFINE v == IF cmd[w].type = "integer" THEN Value("integer", parse_int64(cmd[w].args[1]), <<>>, 0)
                  ELSE Value(IF cmd[w].type = "json" THEN "json" ELSE "binary", 0, cmd[w].args[1], 0)
  <2>1. cmd[w].name = "VCSET" /\ vc_set(w, cmd[w].keys[1], v)
    BY <1>8, Zenon DEF cmd_vcset, At, Key
  <2>2. cmd[w].args[1] \in Seq(Nat)
    BY <1>b, <2>1, Zenon
  <2>a. <<>> \in Seq(Nat)
    OBVIOUS
  <2>3. Length(v) > 0 => Payload(v)
    BY <2>2, <2>a, ValuePayload, Zenon
  <2> HIDE DEF v
  <2>4. QED
    BY <1>a, <1>c, <2>1, <2>3, SetPuts, Zenon DEF Writes, Readers, Scans
<1>9. CASE cmd_expire(w) \/ cmd_persist(w)
  <2>1. ASSUME NEW name \in {"EXPIRE", "PERSIST"}, NEW ttl, Restore(w, name, ttl) PROVE Writes(w)
    <3>1. PICK v \in Bytes(w) : vc_set(w, cmd[w].keys[1], [v EXCEPT !.ttl = ttl])
      BY <2>1, Zenon DEF Restore, Key
    <3>2. cmd[w].name = name
      BY <2>1, Zenon DEF Restore, At
    <3>3. Payload([v EXCEPT !.ttl = ttl])
      BY <1>0, BytesPayload, PayloadTtl, Zenon
    <3>4. QED
      BY <1>a, <1>c, <2>1, <3>1, <3>2, <3>3, SetPuts, Zenon DEF Writes, Readers, Scans
  <2>2. QED
    BY <1>9, <2>1, Zenon DEF cmd_expire, cmd_persist, Require, Writes
<1>10. CASE cmd_incrby(w)
  <2>1. CASE vc_get(w, "use")
    BY <2>1, Zenon DEF vc_get, Writes
  <2>2. CASE ~vc_get(w, "use")
    <3>1. cmd[w].name \in Counters
      BY <1>10, Zenon DEF cmd_incrby
    <3>2. PICK v \in Bytes(w) : vc_set(w, cmd[w].keys[1], Value("integer", Number(v) + Delta(cmd[w]), <<>>, 0))
      BY <1>10, <2>2, Zenon DEF cmd_incrby, Key
    <3>3. <<>> \in Seq(Nat)
      OBVIOUS
    <3>4. Payload(Value("integer", Number(v) + Delta(cmd[w]), <<>>, 0))
      BY <3>3, ValuePayload, Lengths, Zenon
    <3>5. QED
      BY <1>a, <1>c, <3>1, <3>2, <3>4, SetPuts, Zenon DEF Writes, Readers, Scans, Counters
  <2>3. QED
    BY <2>1, <2>2, Zenon
<1>11. CASE cmd_append(w)
  <2>1. CASE vc_get(w, "use")
    BY <2>1, Zenon DEF vc_get, Writes
  <2>2. CASE ~vc_get(w, "use")
    <3>1. cmd[w].name = "APPEND"
      BY <1>11, Zenon DEF cmd_append, At
    <3>2. PICK v \in IF got[w] = None THEN {None} ELSE Bytes(w) : vc_set(w, cmd[w].keys[1], Joined(v, cmd[w].args[1]))
      BY <1>11, <2>2, Zenon DEF cmd_append, Key
    <3>3. Payload(v)
      BY <1>0, <3>2, BytesPayload, PayloadNone, Zenon
    <3>4. Length(Joined(v, cmd[w].args[1])) > 0 => Payload(Joined(v, cmd[w].args[1]))
      BY <1>b, <3>1, <3>3, PayloadJoined, Zenon
    <3>5. QED
      BY <1>a, <1>c, <3>1, <3>2, <3>4, SetPuts, Zenon DEF Writes, Readers, Scans
  <2>3. QED
    BY <2>1, <2>2, Zenon
<1>12. CASE cmd_rename(w)
  <2>1. CASE Require(w, "RENAME", ERR)
    BY <2>1, Zenon DEF Require, Writes
  <2>2. CASE rename_del(w)
    <3>1. cmd[w].name = "RENAME" /\ vc_del(cmd[w].keys[1])
      BY <2>2, Zenon DEF rename_del, Key, At
    <3>2. QED
      BY <1>a, <1>c, <3>1, DelAlters, Zenon DEF Writes, Put, Readers, Scans
  <2>3. CASE rename_set(w)
    <3>1. cmd[w].name = "RENAME" /\ vc_set(w, cmd[w].keys[2], [got[w] EXCEPT !.ttl = 0])
      BY <2>3, Zenon DEF rename_set, At
    <3>2. Payload([got[w] EXCEPT !.ttl = 0])
      BY <1>0, PayloadTtl, Zenon
    <3>3. QED
      BY <1>a, <1>c, <3>1, <3>2, SetPuts, Zenon DEF Writes, Readers, Scans
  <2>4. QED
    BY <1>12, <2>1, <2>2, <2>3, Zenon DEF cmd_rename
<1>13. QED
  BY <1>1, <1>2, <1>3, <1>4, <1>5, <1>6, <1>7, <1>8, <1>9, <1>10, <1>11, <1>12, Zenon DEF Handler


\* A step of a worker changes keys of its command's shards only, and stores payloads; it
\* leaves at most one entry where there was at most one.
Footprint(w) ==
    /\ DOMAIN store' = Keys /\ \A k \in Keys : Payload(store'[k])
    /\ DOMAIN behind' = Keys /\ \A k \in Keys : Entries(behind'[k])
    /\ \A k \in Keys : store'[k] # store[k] \/ behind'[k] # behind[k] =>
         pc[w] # "idle" /\ cmd[w].name \notin Readers /\ ShardOf[k] \in Shards(cmd[w])
    /\ \A k \in Keys : behind[k] = <<>> => behind'[k] = <<>>

\* What any step of a worker does to the store.
LEMMA WorkerFootprint ==
    ASSUME NEW w \in Workers, Types, Serving(w), worker(w)
    PROVE  Footprint(w)
<1> USE DEF Types
<1>1. CASE UNCHANGED cache
  BY <1>1, Zenon DEF Footprint
<1>2. CASE ~UNCHANGED cache
  <2>1. Handler(w)
    BY <1>2, Zenon DEF worker, Handler, vc_dispatch, finish
  <2>2. pc[w] # "idle" /\ cmd[w] \in Requests /\ cmd[w].name \notin Readers /\ (Put(w) \/ Wipe(w))
    BY <1>2, <2>1, HandlerFrame, HandlerWrites, Zenon DEF Assigns, Serving, Writes
  <2>3. CASE Put(w)
    <3>1. PICK j \in 1 .. Len(cmd[w].keys) : \E v : Alters(cmd[w].keys[j], v)
      BY <2>3, Zenon DEF Put
    <3> DEFINE k0 == cmd[w].keys[j]
    <3>2. PICK y, l : /\ Payload(y) /\ store' = [store EXCEPT ![k0] = y]
                      /\ Entries(l) /\ behind' = [behind EXCEPT ![k0] = l]
                      /\ behind[k0] = <<>> => l = <<>>
      BY <3>1, Zenon DEF Alters
    <3>3. k0 \in Keys /\ ShardOf[k0] \in Shards(cmd[w])
      BY <2>2, RequestFacts, Zenon
    <3> HIDE DEF k0
    <3>4. /\ DOMAIN store' = Keys /\ \A k \in Keys : Payload(store'[k])
          /\ DOMAIN behind' = Keys /\ \A k \in Keys : Entries(behind'[k])
      BY <3>2, <3>3, Zenon
    <3>5. \A k \in Keys : k # k0 => store'[k] = store[k] /\ behind'[k] = behind[k]
      BY <3>2, Zenon
    <3>6. behind[k0] = <<>> => behind'[k0] = <<>>
      BY <3>2, <3>3, Zenon
    <3>7. QED
      BY <2>2, <3>3, <3>4, <3>5, <3>6, Zenon DEF Footprint
  <2>4. CASE Wipe(w)
    <3>1. PICK j \in 1 .. Len(cmd[w].keys) :
            /\ store' = [k \in Keys |-> IF ShardOf[k] = ShardOf[cmd[w].keys[j]] THEN None ELSE store[k]]
            /\ behind' = [k \in Keys |-> IF ShardOf[k] = ShardOf[cmd[w].keys[j]] THEN <<>> ELSE behind[k]]
      BY <2>4, Zenon DEF Wipe
    <3>2. ShardOf[cmd[w].keys[j]] \in Shards(cmd[w])
      BY <2>2, RequestFacts, Zenon
    <3>3. Entries(<<>>)
      <4> DEFINE E == {Expired}
      <4>1. \A S : <<>> \in Seq(S)
        OBVIOUS
      <4>2. \A v \in E : v = Expired \/ Payload(v)
        BY Zenon
      <4> HIDE DEF E
      <4>3. QED
        BY <4>1, <4>2, Zenon DEF Entries
    <3> DEFINE In(k) == ShardOf[k] = ShardOf[cmd[w].keys[j]]
    <3> HIDE DEF In
    <3>4. /\ store' = [k \in Keys |-> IF In(k) THEN None ELSE store[k]]
          /\ behind' = [k \in Keys |-> IF In(k) THEN <<>> ELSE behind[k]]
      BY <3>1, Zenon DEF In
    <3>5. \A k \in Keys : In(k) => ShardOf[k] \in Shards(cmd[w])
      BY <3>2, Zenon DEF In
    <3>6. \A k \in Keys : IF In(k) THEN store'[k] = None /\ behind'[k] = <<>>
                           ELSE store'[k] = store[k] /\ behind'[k] = behind[k]
      BY <3>4, Zenon
    <3>7. DOMAIN store' = Keys /\ DOMAIN behind' = Keys
      BY <3>4, Zenon
    <3>8. QED
      BY <2>2, <3>3, <3>5, <3>6, <3>7, PayloadNone, Zenon DEF Footprint
  <2>5. QED
    BY <2>2, <2>3, <2>4, Zenon
<1>3. QED
  BY <1>1, <1>2, Zenon

-----------------------------------------------------------------------------
(* One reply.                                                              *)

\* A reply to a command that has none yet.
LEMMA AnswerEnds ==
    ASSUME NEW w \in Workers, Types, reply[w] = <<>>, NEW r, Answer(w, r)
    PROVE  pc'[w] = "done" /\ reply'[w] = <<r>> /\ Len(reply'[w]) = 1 /\ reply'[w][1] = r
<1>1. pc'[w] = "done" /\ reply'[w] = Append(<<>>, r)
  BY Zenon DEF Answer, Goto, Types
<1>2. Append(<<>>, r) = <<r>> /\ Len(<<r>>) = 1 /\ <<r>>[1] = r
  OBVIOUS
<1>3. QED
  BY <1>1, <1>2, Zenon

\* The next argument, or the reply.
LEMMA LoopEnds ==
    ASSUME NEW w \in Workers, Types, reply[w] = <<>>, i[w] \in 1 .. Len(cmd[w].keys), Len(cmd[w].keys) \in Nat,
           NEW l, NEW r, Loop(w, l, r)
    PROVE  /\ i'[w] \in 1 .. Len(cmd[w].keys)
           /\ \/ /\ i[w] < Len(cmd[w].keys) /\ i'[w] = i[w] + 1
                 /\ pc'[w] = l /\ reply' = reply
              \/ /\ i[w] = Len(cmd[w].keys) /\ i'[w] = i[w]
                 /\ pc'[w] = "done" /\ reply'[w] = <<r>> /\ Len(reply'[w]) = 1 /\ reply'[w][1] = r
<1>1. CASE i[w] < Len(cmd[w].keys)
  <2>1. i' = [i EXCEPT ![w] = i[w] + 1] /\ pc' = [pc EXCEPT ![w] = l] /\ reply' = reply
    BY <1>1, Zenon DEF Loop, Goto
  <2>2. i'[w] = i[w] + 1 /\ pc'[w] = l
    BY <2>1, Zenon DEF Types
  <2>3. \A n \in Nat : \A j \in 1 .. n : j < n => j + 1 \in 1 .. n
    OBVIOUS
  <2>4. i[w] + 1 \in 1 .. Len(cmd[w].keys)
    BY <1>1, <2>3, Zenon
  <2>5. QED
    BY <1>1, <2>1, <2>2, <2>4, Zenon
<1>2. CASE ~(i[w] < Len(cmd[w].keys))
  <2>1. Answer(w, r) /\ i' = i
    BY <1>2, Zenon DEF Loop
  <2>2. \A n \in Nat : \A j \in 1 .. n : ~(j < n) => j = n
    OBVIOUS
  <2>3. QED
    BY <1>2, <2>1, <2>2, AnswerEnds, Zenon
<1>3. QED
  BY <1>1, <1>2, Zenon


\* The locals of a handler after a step: it goes on, or has ended with its reply.
Served(w) ==
    /\ Payload(got'[w])
    /\ cmd[w].name \notin Scans => i'[w] \in 1 .. Len(cmd[w].keys)
    /\ \/ pc'[w] # "done" /\ reply' = reply
       \/ pc'[w] = "done" /\ Len(reply'[w]) = IF cmd[w].name \in Counters THEN 2 ELSE 1

\* Every path through a handler ends with its reply.
LEMMA HandlerServes ==
    ASSUME NEW w \in Workers, Types, Serving(w), Handler(w)
    PROVE  Served(w)
<1> USE DEF Types
<1>0. /\ cmd[w] \in Requests /\ Payload(got[w]) /\ reply[w] = <<>>
      /\ cmd[w].name \notin Scans => i[w] \in 1 .. Len(cmd[w].keys)
  BY HandlerFrame, Zenon DEF Assigns, Serving
<1>a. /\ Len(cmd[w].keys) \in Nat /\ Key(w) \in Keys
      /\ cmd[w].name \notin Scans => cmd[w].keys[i[w]] \in Keys
  <2>1. 1 <= Len(cmd[w].keys) /\ Len(cmd[w].keys) \in Nat
    BY <1>0, RequestFacts, Zenon
  <2>2. \A n \in Nat : 1 <= n => 1 \in 1 .. n
    OBVIOUS
  <2>3. QED
    BY <1>0, <2>1, <2>2, RequestFacts, Zenon DEF Key
<1>b. \A r : Answer(w, r) => pc'[w] = "done" /\ Len(reply'[w]) = 1
  BY <1>0, AnswerEnds, Zenon
<1>c. ASSUME NEW l \in {"read", "write"}, NEW r, Loop(w, l, r), cmd[w].name \notin Scans
      PROVE  /\ i'[w] \in 1 .. Len(cmd[w].keys)
             /\ (pc'[w] # "done" /\ reply' = reply) \/ (pc'[w] = "done" /\ Len(reply'[w]) = 1)
  BY <1>0, <1>a, <1>c, LoopEnds, Zenon
<1>d. ASSUME vc_get(w, "use"), cmd[w].name \notin Scans PROVE Served(w)
  BY <1>0, <1>a, <1>d, Zenon DEF Served, vc_get, Goto
<1>e. ASSUME NEW name, name \notin Scans \cup Counters, NEW r, Require(w, name, r) PROVE Served(w)
  BY <1>0, <1>a, <1>b, <1>e, Zenon DEF Served, Require, At, Goto
<1> USE DEF Served, At, Goto, Scans, Counters
<1>1. CASE set_nx(w) \/ set_xx(w)
  BY <1>0, <1>b, <1>1, Zenon DEF set_nx, set_xx, Probe
<1>2. CASE cmd_set(w) \/ cmd_ttl(w)
  BY <1>0, <1>b, <1>2, Zenon DEF cmd_set, cmd_ttl
<1>3. CASE cmd_get(w) \/ cmd_type(w) \/ cmd_vcget(w)
  BY <1>0, <1>b, <1>d, <1>3, Zenon DEF cmd_get, cmd_type, cmd_vcget, Show
<1>4. CASE cmd_del(w) \/ cmd_exists(w)
  BY <1>0, <1>c, <1>4, Zenon DEF cmd_del, cmd_exists
<1>5. CASE cmd_mget(w)
  BY <1>0, <1>c, <1>d, <1>5, Zenon DEF cmd_mget
<1>6. CASE cmd_mset(w) \/ cmd_flushdb(w)
  BY <1>0, <1>c, <1>6, Zenon DEF cmd_mset, cmd_flushdb
<1>7. CASE cmd_vcset(w)
  BY <1>0, <1>b, <1>7, Zenon DEF cmd_vcset
<1>8. CASE cmd_expire(w) \/ cmd_persist(w)
  BY <1>0, <1>b, <1>e, <1>8, Zenon DEF cmd_expire, cmd_persist, Restore
<1>9. CASE cmd_incrby(w)
  <2>1. CASE vc_get(w, "use")
    BY <1>9, <1>d, <2>1, Zenon DEF cmd_incrby
  <2>2. CASE ~vc_get(w, "use")
    <3>1. /\ cmd[w].name \in Counters /\ got' = got /\ i' = i /\ pc' = [pc EXCEPT ![w] = "done"]
          /\ \E v \in Bytes(w) :
               LET cur == Value("integer", Number(v) + Delta(cmd[w]), <<>>, 0) IN
               reply' = [reply EXCEPT ![w] = @ \o <<BULK(cur), INT(cur.num)>>]
      BY <1>9, <2>2, Zenon DEF cmd_incrby
    <3>2. \E a, b : reply'[w] = <<>> \o <<a, b>>
      <4>1. PICK v \in Bytes(w) :
              LET cur == Value("integer", Number(v) + Delta(cmd[w]), <<>>, 0) IN
              reply' = [reply EXCEPT ![w] = @ \o <<BULK(cur), INT(cur.num)>>]
        BY <3>1, Zenon
      <4> DEFINE a == BULK(Value("integer", Number(v) + Delta(cmd[w]), <<>>, 0))
                 b == INT(Value("integer", Number(v) + Delta(cmd[w]), <<>>, 0).num)
      <4>2. reply'[w] = <<>> \o <<a, b>>
        BY <1>0, <4>1, Zenon
      <4> HIDE DEF a, b
      <4>3. QED
        BY <4>2, Zenon
    <3>3. \A a, b : Len(<<>> \o <<a, b>>) = 2
      OBVIOUS
    <3>4. PICK a, b : reply'[w] = <<>> \o <<a, b>>
      BY <3>2, Zenon
    <3>5. Len(reply'[w]) = 2
      BY <3>3, <3>4, Zenon
    <3>6. pc'[w] = "done" /\ got'[w] = got[w] /\ i'[w] = i[w]
      BY <3>1, Zenon
    <3> HIDE DEF Counters
    <3>7. QED
      BY <1>0, <3>1, <3>5, <3>6, Zenon
  <2>3. QED
    BY <2>1, <2>2, Zenon
<1>10. CASE cmd_append(w)
  BY <1>0, <1>b, <1>d, <1>10, Zenon DEF cmd_append
<1>11. CASE cmd_rename(w)
  <2>1. CASE rename_del(w)
    <3>1. PICK v \in Bytes(w) : got' = [got EXCEPT ![w] = v]
      BY <2>1, Zenon DEF rename_del
    <3>2. Payload(v)
      BY <1>0, <3>1, BytesPayload, Zenon
    <3>3. QED
      BY <1>0, <2>1, <3>1, <3>2, Zenon DEF rename_del
  <2>2. CASE rename_set(w)
    BY <1>0, <1>b, <2>2, Zenon DEF rename_set
  <2>3. QED
    BY <1>11, <1>e, <2>1, <2>2, Zenon DEF cmd_rename
<1>12. CASE cmd_scan(w)
  BY <1>0, <1>b, <1>12, Zenon DEF cmd_scan, scan_none, scan_slot, scan_stop, scan_shard, InScan, InSlots
<1>13. QED
  BY <1>1, <1>2, <1>3, <1>4, <1>5, <1>6, <1>7, <1>8, <1>9, <1>10, <1>11, <1>12, Zenon DEF Handler


\* Steps of a worker keep the types.
LEMMA WorkerTypes ==
    ASSUME NEW w \in Workers, Types, Serving(w), worker(w)
    PROVE  Types'
<1>1. Frame(w) /\ Footprint(w)
  BY WorkerFrame, WorkerFootprint, Zenon
<1>2. QED
  BY <1>1, Zenon DEF Types, Frame, Footprint, Touches

\* A step of a worker keeps its own locals in order.
LEMMA WorkerServes ==
    ASSUME NEW w \in Workers, Types, Serving(w), worker(w)
    PROVE  Serving(w)'
<1> USE DEF Types
<1>1. CASE Handler(w)
  <2>1. Assigns(w) /\ Served(w)
    BY <1>1, HandlerFrame, HandlerServes, Zenon
  <2>2. pc[w] # "idle" /\ pc[w] # "done" /\ pc'[w] # "idle" /\ cmd' = cmd /\ base' = base
    BY <2>1, Zenon DEF Assigns
  <2>3. QED
    BY <2>1, <2>2, Zenon DEF Serving, Served
<1>2. ASSUME NEW c \in Requests, vc_dispatch(w, c) PROVE Serving(w)'
  <2>1. /\ pc[w] = "idle" /\ pc'[w] = Entry(c) /\ cmd'[w] = c /\ base'[w] = store
        /\ i'[w] = (IF c.name \in Scans THEN c.cursor ELSE 1) /\ got' = got /\ reply' = reply
    BY <1>2, Zenon DEF vc_dispatch, Goto
  <2>2. Entry(c) \notin {"idle", "done"}
    BY Zenon DEF Entry
  <2>3. 1 <= Len(c.keys) /\ Len(c.keys) \in Nat
    BY RequestFacts, Zenon
  <2>4. 1 \in 1 .. Len(c.keys)
    BY <2>3
  <2>5. QED
    BY <2>1, <2>2, <2>4, Zenon DEF Serving
<1>3. CASE finish(w)
  <2>1. pc'[w] = "idle" /\ got'[w] = None /\ acc'[w] = <<>> /\ reply'[w] = <<>>
    BY <1>3, Zenon DEF finish, Goto
  <2>2. QED
    BY <2>1, PayloadNone, Zenon DEF Serving
<1>4. QED
  BY <1>1, <1>2, <1>3, Zenon DEF worker, Handler

\* Commands that conflict know of each other from the dispatch of the later one on.
LEMMA WorkerApart ==
    ASSUME NEW w \in Workers, Types, Apart, worker(w)
    PROVE  Apart'
<1> USE DEF Types
<1>1. Frame(w)
  BY WorkerFrame, Zenon
<1>2. CASE Handler(w)
  <2>1. Assigns(w)
    BY <1>2, HandlerFrame, Zenon
  <2>2. cmd' = cmd /\ met \subseteq met' /\ pc[w] # "idle"
    BY <2>1, Zenon DEF Assigns
  <2>3. \A u \in Workers : pc'[u] # "idle" => pc[u] # "idle"
    BY <1>1, <2>2, Zenon DEF Frame, Touches
  <2>4. QED
    BY <2>2, <2>3, Zenon DEF Apart
<1>3. ASSUME NEW c \in Requests, vc_dispatch(w, c) PROVE Apart'
  <2>1. cmd'[w] = c /\ met \subseteq met' /\ \A u \in Workers : pc[u] # "idle" /\ Conflict(cmd[u], c) => u \in met' /\ w \in met'
    BY <1>3, Zenon DEF vc_dispatch, Busy
  <2>2. \A u \in Workers : u # w => pc'[u] = pc[u] /\ cmd'[u] = cmd[u]
    BY <1>1, Zenon DEF Frame, Touches
  <2>3. \A d : Conflict(c, d) => Conflict(d, c)
    BY Zenon DEF Conflict
  <2>4. ASSUME NEW v \in Workers, NEW u \in Workers, v # u, pc'[v] # "idle", pc'[u] # "idle", Conflict(cmd'[v], cmd'[u])
        PROVE  v \in met' /\ u \in met'
    <3>1. CASE v # w /\ u # w
      BY <2>1, <2>2, <2>4, <3>1, Zenon DEF Apart
    <3>2. CASE v = w
      BY <2>1, <2>2, <2>3, <2>4, <3>2, Zenon
    <3>3. CASE u = w
      BY <2>1, <2>2, <2>4, <3>3, Zenon
    <3>4. QED
      BY <3>1, <3>2, <3>3, Zenon
  <2>5. QED
    BY <2>4, Zenon DEF Apart
<1>4. CASE finish(w)
  <2>1. pc'[w] = "idle" /\ met' = met \ {w}
    BY <1>4, Zenon DEF finish, Goto
  <2>2. \A u \in Workers : u # w => pc'[u] = pc[u] /\ cmd'[u] = cmd[u]
    BY <1>1, Zenon DEF Frame, Touches
  <2>3. QED
    BY <2>1, <2>2, Zenon DEF Apart
<1>5. QED
  BY <1>2, <1>3, <1>4, Zenon DEF worker, Handler


-----------------------------------------------------------------------------
(* A command does not see what others do in other shards.                  *)

\* Progress depends on the shards of the command's keys alone.
LEMMA ProgressCarries ==
    ASSUME NEW c \in Requests, NEW p, NEW n \in 1 .. Len(c.keys), NEW g, NEW a, NEW s, NEW x, NEW t, NEW t2,
           Same(c, t2, t), Progress(c, p, n, g, a, s, x, t)
    PROVE  Progress(c, p, n, g, a, s, x, t2)
<1>1. \A r : (Same(c, t, r) => Same(c, t2, r)) /\ (Near(c, x, t, r) => Near(c, x, t2, r))
  BY Zenon DEF Same, Near
<1>2. \A j \in 1 .. n - 1 : t2[c.keys[j]] = t[c.keys[j]]
  <2>1. Len(c.keys) \in Nat
    BY RequestFacts, Zenon
  <2>2. \A j \in 1 .. n - 1 : j \in 1 .. Len(c.keys)
    BY <2>1
  <2>3. QED
    BY <2>2, RequestFacts, Zenon DEF Same
<1>3. \A k \in Keys : ShardOf[k] \in Shards(c) => t2[k] = t[k]
  BY Zenon DEF Same
<1>4. QED
  BY <1>1, <1>2, <1>3, Zenon DEF Progress

\* So does what a command has done.
LEMMA AsOneStepCarries ==
    ASSUME NEW c, NEW s, NEW x, NEW t, NEW t2, NEW r, Same(c, t2, t), AsOneStep(c, s, x, t, r)
    PROVE  AsOneStep(c, s, x, t2, r)
  BY Zenon DEF Same, AsOneStep

\* So does what a scan has come across.
LEMMA ScannedCarries ==
    ASSUME NEW c, NEW n, NEW a, NEW s, NEW x, NEW t, NEW t2, NEW y, NEW y2,
           Same(c, t2, t), Same(c, y2, y), Scanned(c, n, a, s, x, t, y)
    PROVE  Scanned(c, n, a, s, x, t2, y2)
<1>1. Same(c, t2, s) /\ Same(c, y2, x)
  BY Zenon DEF Same, Scanned
<1>2. QED
  BY <1>1, Zenon DEF Scanned

\* What w's command has done so far does not depend on changes of other shards.
LEMMA AloneCarries ==
    ASSUME NEW w \in Workers, Serving(w), Alone(w),
           pc'[w] = pc[w], cmd'[w] = cmd[w], i'[w] = i[w], got'[w] = got[w], acc'[w] = acc[w], reply'[w] = reply[w],
           base'[w] = base[w], under'[w] = under[w],
           pc[w] # "idle" => Same(cmd[w], store', store) /\ Same(cmd[w], behind', behind)
    PROVE  Alone(w)'
<1>1. CASE pc[w] = "idle"
  BY <1>1, Zenon DEF Alone
<1>2. CASE pc[w] # "idle"
  <2>1. /\ cmd[w] \in Requests /\ Same(cmd[w], store', store) /\ Same(cmd[w], behind', behind)
        /\ cmd[w].name \notin Scans => i[w] \in 1 .. Len(cmd[w].keys)
    BY <1>2, Zenon DEF Serving
  <2>2. pc[w] # "done" /\ cmd[w].name \notin Scans /\ ~Irregular(cmd[w]) =>
          Progress(cmd[w], pc[w], i[w], got[w], acc[w], base[w], under[w], store')
    BY <1>2, <2>1, ProgressCarries, Zenon DEF Alone
  <2>3. pc[w] = "done" /\ cmd[w].name \notin Scans /\ ~Irregular(cmd[w]) =>
          AsOneStep(cmd[w], base[w], under[w], store', reply[w][Len(reply[w])])
    BY <1>2, <2>1, AsOneStepCarries, Zenon DEF Alone
  <2>4. cmd[w].name \in Scans => Scanned(cmd[w], i[w], acc[w], base[w], under[w], store', behind')
    BY <1>2, <2>1, ScannedCarries, Zenon DEF Alone
  <2>5. Clear(cmd[w], under[w], behind')
    BY <1>2, <2>1, Zenon DEF Alone, Clear, Same
  <2>6. QED
    BY <2>2, <2>3, <2>4, <2>5, Zenon DEF Alone
<1>3. QED
  BY <1>1, <1>2, Zenon

\* A step of one worker and the command of another one that it has not met.
LEMMA OthersAlone ==
    ASSUME NEW w \in Workers, Types, Serving(w), Apart, worker(w),
           NEW u \in Workers, u # w, Serving(u), u \notin met', u \notin met => Alone(u)
    PROVE  Alone(u)'
<1>1. Frame(w) /\ Footprint(w)
  BY WorkerFrame, WorkerFootprint, Zenon
<1>2. /\ u \notin met
      /\ pc'[u] = pc[u] /\ cmd'[u] = cmd[u] /\ i'[u] = i[u] /\ got'[u] = got[u] /\ acc'[u] = acc[u]
      /\ reply'[u] = reply[u] /\ base'[u] = base[u] /\ under'[u] = under[u]
  BY <1>1, Zenon DEF Frame, Touches
<1>3. ASSUME pc[u] # "idle", NEW k \in Keys, ShardOf[k] \in Shards(cmd[u]),
             store'[k] # store[k] \/ behind'[k] # behind[k]
      PROVE  FALSE
  <2>1. pc[w] # "idle" /\ cmd[w].name \notin Readers /\ ShardOf[k] \in Shards(cmd[w])
    BY <1>1, <1>3, Zenon DEF Footprint
  <2>2. Conflict(cmd[u], cmd[w])
    BY <1>3, <2>1, Zenon DEF Conflict
  <2>3. QED
    BY <1>2, <1>3, <2>1, <2>2, Zenon DEF Apart
<1>4. pc[u] # "idle" => Same(cmd[u], store', store) /\ Same(cmd[u], behind', behind)
  BY <1>3, Zenon DEF Same
<1>5. QED
  BY <1>2, <1>4, AloneCarries, Zenon

\* The entries of a key change, and the others stay.
LEMMA LoseFacts ==
    ASSUME NEW k \in Keys, Types, lose(k)
    PROVE  /\ DOMAIN store' = Keys /\ \A y \in Keys : Payload(store'[y])
           /\ DOMAIN behind' = Keys /\ \A y \in Keys : Entries(behind'[y])
           /\ \A y \in Keys : y # k => store'[y] = store[y] /\ behind'[y] = behind[y]
<1>1. Entries(Line(k))
  BY LineEntries, Zenon
<1>2. PICK j \in DOMAIN Line(k) :
         \/ Become(k, [Line(k) EXCEPT ![j] = Expired])
         \/ Become(k, Removed(Line(k), j))
         \/ Become(k, Append(Removed(Line(k), j), Line(k)[j]))
  BY Zenon DEF lose
<1>3. PICK b : Entries(b) /\ Become(k, b)
  <2>1. /\ Entries([Line(k) EXCEPT ![j] = Expired]) /\ Entries(Removed(Line(k), j))
        /\ Entries(Append(Removed(Line(k), j), Line(k)[j]))
    BY <1>1, LineLose, Zenon
  <2>2. QED
    BY <1>2, <2>1, Zenon
<1>4. Payload(First(b)) /\ Entries(Hidden(b))
  BY <1>3, LineParts, Zenon
<1>5. store' = [store EXCEPT ![k] = First(b)] /\ behind' = [behind EXCEPT ![k] = Hidden(b)]
  BY <1>3, Zenon DEF Become
<1>6. QED
  BY <1>4, <1>5, Zenon DEF Types

\* An entry lost and a command that does not use the shard.
LEMMA LoseAlone ==
    ASSUME NEW k \in Keys, Types, lose(k), NEW u \in Workers, Serving(u), u \notin met', u \notin met => Alone(u)
    PROVE  Alone(u)'
<1>1. /\ u \notin met /\ UNCHANGED <<local, began>>
      /\ pc[u] # "idle" => ShardOf[k] \notin Shards(cmd[u])
  BY Zenon DEF lose, Busy
<1>2. pc[u] # "idle" => Same(cmd[u], store', store) /\ Same(cmd[u], behind', behind)
  BY <1>1, LoseFacts, Zenon DEF Same
<1>3. QED
  BY <1>1, <1>2, AloneCarries, Zenon


-----------------------------------------------------------------------------
(* The steps of a command that meets no other one.                         *)

\* A regular command, not a scan, that has met no other one, and still has not after
\* the step.
Own(w) ==
    /\ Types /\ Serving(w) /\ Handler(w) /\ w \notin met' /\ cmd[w].name \notin Scans /\ ~Irregular(cmd[w])
    /\ Clear(cmd[w], under[w], behind)
    /\ Progress(cmd[w], pc[w], i[w], got[w], acc[w], base[w], under[w], store)

\* It goes on as it should, or has done what a single step would do.
Keeps(w) ==
    \/ pc'[w] # "done" /\ Progress(cmd[w], pc'[w], i'[w], got'[w], acc'[w], base[w], under[w], store')
    \/ pc'[w] = "done" /\ AsOneStep(cmd[w], base[w], under[w], store', reply'[w][Len(reply'[w])])

\* What is known of such a command.
LEMMA OwnFacts ==
    ASSUME NEW w \in Workers, Own(w)
    PROVE  /\ w \notin met /\ cmd[w] \in Requests /\ reply[w] = <<>> /\ Bytes(w) = {got[w]} /\ Payload(got[w])
           /\ i[w] \in 1 .. Len(cmd[w].keys) /\ Len(cmd[w].keys) \in Nat /\ Key(w) = cmd[w].keys[1]
           /\ Key(w) \in Keys /\ ShardOf[Key(w)] \in Shards(cmd[w])
           /\ cmd[w].keys[i[w]] \in Keys /\ ShardOf[cmd[w].keys[i[w]]] \in Shards(cmd[w])
           /\ DOMAIN base[w] = Keys /\ \A k \in Keys : Payload(base[w][k])
<1>1. Assigns(w)
  BY HandlerFrame, Zenon DEF Own
<1>2. /\ w \notin met /\ cmd[w] \in Requests /\ reply[w] = <<>> /\ Payload(got[w])
      /\ i[w] \in 1 .. Len(cmd[w].keys) /\ DOMAIN base[w] = Keys /\ \A k \in Keys : Payload(base[w][k])
  BY <1>1, Zenon DEF Own, Assigns, Serving
<1>3. 1 <= Len(cmd[w].keys) /\ Len(cmd[w].keys) \in Nat
  BY <1>2, RequestFacts, Zenon
<1>4. \A n \in Nat : 1 <= n => 1 \in 1 .. n
  OBVIOUS
<1>5. QED
  BY <1>2, <1>3, <1>4, RequestFacts, Zenon DEF Key, Bytes

\* The key k is given the value v, which lookups find if the key had no other entries.
Gets(w, k, v) ==
    /\ \A y \in Keys : y # k => store'[y] = store[y]
    /\ k \notin Crowded(cmd[w], under[w]) => store'[k] = v

\* What a call does to the command's key.
LEMMA AltersGets ==
    ASSUME NEW w \in Workers, Own(w), NEW j \in 1 .. Len(cmd[w].keys), NEW v, Alters(cmd[w].keys[j], v)
    PROVE  Gets(w, cmd[w].keys[j], v)
<1> DEFINE k == cmd[w].keys[j]
<1>1. k \in Keys /\ ShardOf[k] \in Shards(cmd[w]) /\ j \in DOMAIN cmd[w].keys
  BY OwnFacts, RequestFacts, Zenon
<1>2. k \notin Crowded(cmd[w], under[w]) => under[w][k] = <<>>
  BY <1>1, Zenon DEF Crowded
<1> HIDE DEF k
<1>3. k \notin Crowded(cmd[w], under[w]) => behind[k] = <<>>
  BY <1>1, <1>2, Zenon DEF Own, Clear
<1>4. PICK y : store' = [store EXCEPT ![k] = y] /\ (behind[k] = <<>> => y = v)
  BY Zenon DEF Alters, k
<1>5. DOMAIN store = Keys
  BY Zenon DEF Own, Types
<1>6. Gets(w, k, v)
  BY <1>1, <1>3, <1>4, <1>5, Zenon DEF Gets
<1>7. QED
  BY <1>6, Zenon DEF k

\* vc_set of a value that is not empty stores it, unless storage is exhausted.
LEMMA SetStores ==
    ASSUME NEW w \in Workers, Own(w), NEW j \in 1 .. Len(cmd[w].keys), NEW v, Payload(v), vc_set(w, cmd[w].keys[j], v)
    PROVE  Gets(w, cmd[w].keys[j], v)
<1>1. Length(v) > 0
  BY Zenon DEF Payload
<1>2. Length(v) # 0
  BY <1>1
<1>3. insert(cmd[w].keys[j], v) /\ cmd[w].keys[j] \in Keys
  BY <1>2, OwnFacts, RequestFacts, Zenon DEF vc_set, Own
<1>4. QED
  BY <1>3, InsertAlters, AltersGets, Zenon DEF Own

\* vc_del.
LEMMA DelStores ==
    ASSUME NEW w \in Workers, Own(w), NEW j \in 1 .. Len(cmd[w].keys), vc_del(cmd[w].keys[j])
    PROVE  Gets(w, cmd[w].keys[j], None)
<1>1. cmd[w].keys[j] \in Keys
  BY OwnFacts, RequestFacts, Zenon
<1>2. (store[cmd[w].keys[j]] = None /\ UNCHANGED cache) \/ Alters(cmd[w].keys[j], None)
  BY <1>1, DelAlters, Zenon DEF Own
<1>3. QED
  BY <1>2, AltersGets, Zenon DEF Gets

\* The parts of a result.
LEMMA ResultFields ==
    ASSUME NEW s, NEW r, NEW z, z = Result(s, r)
    PROVE  z.store = s /\ z.reply = r
  BY DEF Result

\* A command that leaves the store alone.
LEMMA ReadsAsOne ==
    ASSUME NEW c, NEW s, NEW x, NEW t, NEW r, Same(c, t, s), Atomic(c, s) = Result(s, r)
    PROVE  AsOneStep(c, s, x, t, r)
<1>1. Atomic(c, s).store = s /\ Atomic(c, s).reply = r
  BY ResultFields, Zenon
<1>2. QED
  BY <1>1, Zenon DEF AsOneStep, Same

\* A command that is known to leave the store t.
LEMMA ResultAsOne ==
    ASSUME NEW c, NEW s, NEW x, NEW t, NEW t2, NEW r, Near(c, x, t2, t), ~(c.name = "SET" /\ r = ERR),
           NEW q, Atomic(c, s) = Result(t, q), q = r \/ (c.name = "DEL" /\ Crowded(c, x) # {})
    PROVE  AsOneStep(c, s, x, t2, r)
<1>1. Atomic(c, s).store = t /\ Atomic(c, s).reply = q
  BY ResultFields, Zenon
<1>2. QED
  BY <1>1, Zenon DEF AsOneStep, Near

\* A command whose last step changes one key.
LEMMA WritesAsOne ==
    ASSUME NEW w \in Workers, NEW b, DOMAIN b = Keys, Near(cmd[w], under[w], store, b),
           NEW k \in Keys, NEW v, Gets(w, k, v), NEW r,
           Atomic(cmd[w], base[w]) = Result(With(b, k, v), r), ~(cmd[w].name = "SET" /\ r = ERR)
    PROVE  AsOneStep(cmd[w], base[w], under[w], store', r)
<1>1. ASSUME NEW y \in Keys \ Crowded(cmd[w], under[w]), ShardOf[y] \in Shards(cmd[w])
      PROVE  store'[y] = With(b, k, v)[y]
  <2>1. CASE y = k
    BY <1>1, <2>1, Zenon DEF Gets, With
  <2>2. CASE y # k
    BY <1>1, <2>2, Zenon DEF Gets, Near, With
  <2>3. QED
    BY <2>1, <2>2, Zenon
<1>2. Near(cmd[w], under[w], store', With(b, k, v))
  BY <1>1, Zenon DEF Near
<1>3. QED
  BY <1>2, ResultAsOne, Zenon

\* The reply of a command that ends here.
LEMMA AnswersAsOne ==
    ASSUME NEW w \in Workers, Own(w), NEW r, Answer(w, r), AsOneStep(cmd[w], base[w], under[w], store', r)
    PROVE  Keeps(w)
<1>1. pc'[w] = "done" /\ Len(reply'[w]) = 1 /\ reply'[w][1] = r
  BY OwnFacts, AnswerEnds, Zenon DEF Own
<1>2. QED
  BY <1>1, Zenon DEF Keeps

\* GET, TYPE, VCGET and TTL.
LEMMA OwnReads ==
    ASSUME NEW w \in Workers, Own(w), cmd_get(w) \/ cmd_type(w) \/ cmd_vcget(w) \/ cmd_ttl(w)
    PROVE  Keeps(w)
<1> DEFINE c == cmd[w]
           s == base[w]
<1>0. /\ Same(c, store, s) /\ i[w] = 1 /\ store[Key(w)] = s[c.keys[1]]
      /\ pc[w] = "use" => got[w] = s[c.keys[1]]
  <2>1. c.name \in {"GET", "TYPE", "VCGET", "TTL"}
    BY Zenon DEF cmd_get, cmd_type, cmd_vcget, cmd_ttl, Show, At
  <2>2. Same(c, store, s) /\ i[w] = 1 /\ (pc[w] = "use" => got[w] = s[c.keys[i[w]]])
    BY <2>1, Zenon DEF Own, Progress
  <2>3. QED
    BY <2>2, OwnFacts, Zenon DEF Same
<1>1. ASSUME NEW name \in {"GET", "TYPE", "VCGET"}, c.name = name, vc_get(w, "use") PROVE Keeps(w)
  <2>1. pc'[w] = "use" /\ got'[w] = store[c.keys[1]] /\ i' = i /\ store' = store
    BY <1>0, <1>1, Zenon DEF vc_get, Goto, Own, Types
  <2>2. got'[w] = s[c.keys[1]] /\ i'[w] = 1
    BY <1>0, <2>1, OwnFacts, Zenon
  <2>3. Progress(c, "use", 1, s[c.keys[1]], acc'[w], s, under[w], store')
    BY <1>0, <1>1, <2>1, Zenon DEF Progress
  <2>4. QED
    BY <2>1, <2>2, <2>3, Zenon DEF Keeps
<1>2. ASSUME NEW r, Answer(w, r), Atomic(c, s) = Result(s, r), store' = store PROVE Keeps(w)
  BY <1>0, <1>2, ReadsAsOne, AnswersAsOne, Zenon
<1>3. CASE cmd_get(w)
  <2>1. CASE vc_get(w, "use")
    BY <1>1, <1>3, <2>1, Zenon DEF cmd_get, Show, At
  <2>2. CASE ~vc_get(w, "use")
    <3>1. At(w, "GET", "use") /\ store' = store /\ Answer(w, BULK(got[w]))
      BY <1>3, <2>2, OwnFacts, Zenon DEF cmd_get, Show
    <3>2. got[w] = s[c.keys[1]]
      BY <1>0, <3>1, Zenon DEF At
    <3>3. Atomic(c, s) = Result(s, BULK(s[c.keys[1]]))
      BY <3>1, AtomicReads, Zenon DEF At
    <3>4. QED
      BY <1>2, <3>1, <3>2, <3>3, Zenon
  <2>3. QED
    BY <2>1, <2>2, Zenon
<1>4. CASE cmd_type(w)
  <2>1. CASE vc_get(w, "use")
    BY <1>1, <1>4, <2>1, Zenon DEF cmd_type, Show, At
  <2>2. CASE ~vc_get(w, "use")
    <3>1. At(w, "TYPE", "use") /\ store' = store /\ Answer(w, Simple(got[w]))
      BY <1>4, <2>2, OwnFacts, Zenon DEF cmd_type, Show
    <3>2. got[w] = s[c.keys[1]]
      BY <1>0, <3>1, Zenon DEF At
    <3>3. Atomic(c, s) = Result(s, Simple(s[c.keys[1]]))
      BY <3>1, AtomicReads, Zenon DEF At
    <3>4. QED
      BY <1>2, <3>1, <3>2, <3>3, Zenon
  <2>3. QED
    BY <2>1, <2>2, Zenon
<1>5. CASE cmd_vcget(w)
  <2>1. CASE vc_get(w, "use")
    BY <1>1, <1>5, <2>1, Zenon DEF cmd_vcget, Show, At
  <2>2. CASE ~vc_get(w, "use")
    <3>1. At(w, "VCGET", "use") /\ store' = store /\ Answer(w, Map(got[w]))
      BY <1>5, <2>2, OwnFacts, Zenon DEF cmd_vcget, Show
    <3>2. got[w] = s[c.keys[1]]
      BY <1>0, <3>1, Zenon DEF At
    <3>3. Atomic(c, s) = Result(s, Map(s[c.keys[1]]))
      BY <3>1, AtomicReads, Zenon DEF At
    <3>4. QED
      BY <1>2, <3>1, <3>2, <3>3, Zenon
  <2>3. QED
    BY <2>1, <2>2, Zenon
<1>6. CASE cmd_ttl(w)
  BY <1>0, <1>2, <1>6, AtomicReads, OwnFacts, Zenon DEF cmd_ttl, At
<1>7. QED
  BY <1>3, <1>4, <1>5, <1>6, Zenon


\* A regular request that needs an argument has one that is not empty.
LEMMA RegularText ==
    ASSUME NEW c \in Requests, c.name \in {"SET", "APPEND", "VCSET"}, ~Irregular(c)
    PROVE  c.args[1] \in Seq(Nat) /\ c.args[1] # <<>>
<1>1. c.args \in Seq(Seq(Nat)) /\ c.args # <<>>
  BY RequestAssumption, Zenon
<1>2. c.args[1] \in Range(c.args) /\ c.args[1] \in Seq(Nat)
  BY <1>1, FirstOf, RequestFacts, Zenon
<1>3. QED
  BY <1>2, Zenon DEF Irregular

\* The first argument, of a command that has met no other one.
LEMMA OneOfKeys ==
    ASSUME NEW w \in Workers, Own(w)
    PROVE  1 \in 1 .. Len(cmd[w].keys)
<1>1. i[w] \in 1 .. Len(cmd[w].keys) /\ Len(cmd[w].keys) \in Nat
  BY OwnFacts, Zenon
<1>2. QED
  BY <1>1

\* Stores that agree.
LEMMA SameNear ==
    ASSUME NEW c, NEW x, NEW t, NEW s, Same(c, t, s)
    PROVE  Near(c, x, t, s)
  BY Zenon DEF Same, Near

\* SET and its options.
LEMMA OwnSet ==
    ASSUME NEW w \in Workers, Own(w), set_nx(w) \/ set_xx(w) \/ cmd_set(w)
    PROVE  Keeps(w)
<1> DEFINE c == cmd[w]
           s == base[w]
           v == s[c.keys[1]]
<1>0. c.name = "SET" /\ Same(c, store, s) /\ i[w] = 1 /\ Probed(c, pc[w], s) /\ store[Key(w)] = v
  <2>1. c.name = "SET"
    BY Zenon DEF set_nx, set_xx, cmd_set, Probe, At
  <2>2. Same(c, store, s) /\ i[w] = 1 /\ Probed(c, pc[w], s)
    BY <2>1, Zenon DEF Own, Progress
  <2>3. QED
    BY <2>1, <2>2, OwnFacts, Zenon DEF Same
<1>1. ASSUME NEW p \in {"xx", "write"}, Probed(c, p, s), Goto(w, p), i' = i, store' = store PROVE Keeps(w)
  <2>1. pc'[w] = p /\ i'[w] = 1
    BY <1>0, <1>1, Zenon DEF Goto, Own, Types
  <2>2. Progress(c, p, 1, got'[w], acc'[w], s, under[w], store')
    BY <1>0, <1>1, Zenon DEF Progress
  <2>3. QED
    BY <1>1, <2>1, <2>2, Zenon DEF Keeps
<1>2. ASSUME Answer(w, NULLREPLY), ("NX" \in c.flags /\ v # None) \/ ("XX" \in c.flags /\ v = None), store' = store
      PROVE  Keeps(w)
  <2>1. Atomic(c, s) = Result(s, NULLREPLY)
    BY <1>0, <1>2, AtomicSet, Zenon
  <2>2. QED
    BY <1>0, <1>2, <2>1, ReadsAsOne, AnswersAsOne, Zenon
<1>3. CASE set_nx(w)
  <2>1. /\ pc[w] = "nx" /\ i' = i /\ store' = store /\ "NX" \in c.flags
        /\ IF v = None THEN Goto(w, IF "XX" \in c.flags THEN "xx" ELSE "write") ELSE Answer(w, NULLREPLY)
    BY <1>0, <1>3, Zenon DEF set_nx, Probe, At, Probed
  <2>2. CASE v # None
    BY <1>2, <2>1, <2>2, Zenon
  <2>3. CASE v = None
    BY <1>1, <2>1, <2>3, Zenon DEF Probed
  <2>4. QED
    BY <2>2, <2>3, Zenon
<1>4. CASE set_xx(w)
  <2>1. /\ pc[w] = "xx" /\ i' = i /\ store' = store /\ "XX" \in c.flags
        /\ IF v # None THEN Goto(w, "write") ELSE Answer(w, NULLREPLY)
    BY <1>0, <1>4, Zenon DEF set_xx, Probe, At, Probed
  <2>2. CASE v = None
    BY <1>2, <2>1, <2>2, Zenon
  <2>3. CASE v # None
    BY <1>0, <1>1, <2>1, <2>3, Zenon DEF Probed
  <2>4. QED
    BY <2>2, <2>3, Zenon
<1>5. CASE cmd_set(w)
  <2> DEFINE new == Value("string", 0, c.args[1], Asked(c))
  <2>1. c \in Requests /\ c.args[1] \in Seq(Nat) /\ c.args[1] # <<>>
    BY <1>0, OwnFacts, RegularText, Zenon DEF Own
  <2>a. Ttl(c) = Asked(c)
    BY <1>0, <2>1, TtlExact, Zenon DEF Own
  <2>2. /\ pc[w] = "write"
        /\ \/ insert(c.keys[1], new) /\ Answer(w, OK)
           \/ store' = store /\ Answer(w, ERR)
    BY <1>5, <2>1, <2>a, Zenon DEF cmd_set, At, Key
  <2>3. Atomic(c, s) = Result(With(s, c.keys[1], new), OK)
    BY <1>0, <2>2, AtomicSet, Zenon DEF Probed
  <2>4. OK # ERR
    BY DEF OK, ERR, Reply
  <2>b. Payload(new)
    BY <2>1, ValuePayload, Lengths, Zenon
  <2> HIDE DEF new
  <2>5. CASE insert(c.keys[1], new) /\ Answer(w, OK)
    <3>a. c.keys[1] \in Keys /\ DOMAIN s = Keys /\ Types
      BY OwnFacts, Zenon DEF Own
    <3>1. Alters(c.keys[1], new)
      BY <2>b, <2>5, <3>a, InsertAlters, Zenon
    <3>2. Gets(w, c.keys[1], new)
      BY <3>1, OneOfKeys, AltersGets, Zenon
    <3>3. AsOneStep(c, s, under[w], store', OK)
      <4>1. Near(c, under[w], store, s)
        BY <1>0, SameNear, Zenon
      <4>2. QED
        BY <2>3, <2>4, <3>a, <3>2, <4>1, WritesAsOne, Zenon
    <3>4. QED
      BY <2>5, <3>3, AnswersAsOne, Zenon
  <2>6. CASE store' = store /\ Answer(w, ERR)
    <3>1. AsOneStep(c, s, under[w], store', ERR)
      BY <1>0, <2>6, Zenon DEF AsOneStep, Same
    <3>2. QED
      BY <2>6, <3>1, AnswersAsOne, Zenon
  <2>7. QED
    BY <2>2, <2>5, <2>6, Zenon
<1>6. QED
  BY <1>3, <1>4, <1>5, Zenon

\* A command that reads its key goes on to use the value.
LEMMA OwnGets ==
    ASSUME NEW w \in Workers, Own(w), cmd[w].name \in {"EXPIRE", "PERSIST", "APPEND", "RENAME"} \cup Counters,
           pc[w] # "write", pc'[w] = "use", got' = [got EXCEPT ![w] = store[Key(w)]], UNCHANGED <<i, acc, store>>,
           cmd[w].name \in {"EXPIRE", "PERSIST", "RENAME"} => store[Key(w)] # None
    PROVE  Keeps(w)
<1>1. Same(cmd[w], store, base[w]) /\ i[w] = 1
  BY Zenon DEF Own, Progress, Counters
<1>2. got'[w] = base[w][cmd[w].keys[1]] /\ store[Key(w)] = base[w][cmd[w].keys[1]]
  BY <1>1, OwnFacts, Zenon DEF Same, Own, Types
<1>3. Progress(cmd[w], "use", 1, base[w][cmd[w].keys[1]], acc[w], base[w], under[w], store)
  BY <1>1, <1>2, Zenon DEF Progress, Counters
<1>4. QED
  BY <1>1, <1>2, <1>3, Zenon DEF Keeps

\* A command whose first step answers, as there is no value.
LEMMA OwnLacks ==
    ASSUME NEW w \in Workers, Own(w), cmd[w].name \in {"EXPIRE", "PERSIST", "RENAME"}, pc[w] = "read",
           store[Key(w)] = None, store' = store, NEW r, Answer(w, r),
           base[w][cmd[w].keys[1]] = None => Atomic(cmd[w], base[w]) = Result(base[w], r)
    PROVE  Keeps(w)
<1>1. Same(cmd[w], store, base[w])
  BY Zenon DEF Own, Progress
<1>2. base[w][cmd[w].keys[1]] = None
  BY <1>1, OwnFacts, Zenon DEF Same
<1>3. QED
  BY <1>1, <1>2, ReadsAsOne, AnswersAsOne, Zenon


\* A command that changes its first key.
LEMMA OwnWrites ==
    ASSUME NEW w \in Workers, Own(w), cmd[w].name # "SET", Same(cmd[w], store, base[w]), NEW v, NEW r,
           Atomic(cmd[w], base[w]) = Result(With(base[w], cmd[w].keys[1], v), r),
           Gets(w, cmd[w].keys[1], v)
    PROVE  AsOneStep(cmd[w], base[w], under[w], store', r)
<1>1. cmd[w].keys[1] \in Keys /\ DOMAIN base[w] = Keys
  BY OwnFacts, Zenon
<1>2. QED
  BY <1>1, SameNear, WritesAsOne, Zenon

\* VCSET.
LEMMA OwnVcset ==
    ASSUME NEW w \in Workers, Own(w), cmd_vcset(w)
    PROVE  Keeps(w)
<1> DEFINE c == cmd[w]
           s == base[w]
           new == IF c.type = "integer" THEN Value("integer", c.n, <<>>, 0) ELSE Value(c.type, 0, c.args[1], 0)
<1>1. c.name = "VCSET" /\ c \in Requests
  BY OwnFacts, Zenon DEF cmd_vcset, At
<1>2. Same(c, store, s)
  BY <1>1, Zenon DEF Own, Progress
<1>3. c.type \in {"integer", "json", "binary"} /\ (c.type = "integer" => c.n = parse_int64(c.args[1]))
  BY <1>1, RequestAssumption, Zenon DEF Own, Irregular
<1>4. vc_set(w, c.keys[1], new) /\ Answer(w, OK)
  BY <1>3, Zenon DEF cmd_vcset, Key
<1>5. c.args[1] \in Seq(Nat)
  BY <1>1, RegularText, Zenon DEF Own
<1>6. <<>> \in Seq(Nat)
  OBVIOUS
<1>7. Payload(new)
  <2>1. CASE c.type = "integer"
    BY <1>6, <2>1, Lengths, ValuePayload, Zenon
  <2>2. CASE c.type # "integer"
    <3>1. Payload(Value(c.type, 0, c.args[1], 0))
      BY <1>3, <1>5, Lengths, ValuePayload, Zenon
    <3>2. QED
      BY <2>2, <3>1, Zenon
  <2>3. QED
    BY <2>1, <2>2, Zenon
<1>8. Atomic(c, s) = Result(With(s, c.keys[1], new), OK)
  BY <1>1, AtomicWrites, Zenon
<1> HIDE DEF new
<1>9. Gets(w, c.keys[1], new)
  BY <1>4, <1>7, OneOfKeys, SetStores, Zenon
<1>10. AsOneStep(c, s, under[w], store', OK)
  BY <1>1, <1>2, <1>8, <1>9, OwnWrites, Zenon
<1>11. QED
  BY <1>4, <1>10, AnswersAsOne, Zenon

\* EXPIRE and PERSIST.
LEMMA OwnRestore ==
    ASSUME NEW w \in Workers, Own(w), cmd_expire(w) \/ cmd_persist(w)
    PROVE  Keeps(w)
<1> DEFINE c == cmd[w]
           s == base[w]
           ttl == IF c.name = "EXPIRE" THEN Asked(c) ELSE 0
<1>1. c.name \in {"EXPIRE", "PERSIST"} /\ (Require(w, c.name, INT(0)) \/ Restore(w, c.name, ttl))
  <2>1. c.name \in {"EXPIRE", "PERSIST"} /\ c \in Requests
    BY OwnFacts, Zenon DEF cmd_expire, cmd_persist, Require, Restore, At
  <2>2. c.name = "EXPIRE" => Ttl(c) = Asked(c)
    BY <2>1, TtlExact, Zenon DEF Own
  <2>3. QED
    BY <2>1, <2>2, Zenon DEF cmd_expire, cmd_persist, Require, Restore, At
<1>2. Same(c, store, s) /\ i[w] = 1 /\ (pc[w] = "use" => got[w] = s[c.keys[i[w]]] /\ got[w] # None)
  BY <1>1, Zenon DEF Own, Progress
<1>3. CASE Require(w, c.name, INT(0))
  <2>1. /\ pc[w] = "read" /\ got' = [got EXCEPT ![w] = store[Key(w)]] /\ UNCHANGED <<i, acc, store>>
        /\ IF store[Key(w)] = None THEN Answer(w, INT(0)) ELSE Goto(w, "use")
    BY <1>3, Zenon DEF Require, At
  <2>2. CASE store[Key(w)] = None
    <3>1. s[c.keys[1]] = None => Atomic(c, s) = Result(s, INT(0))
      BY <1>1, AtomicWrites, Zenon
    <3>2. QED
      BY <1>1, <2>1, <2>2, <3>1, OwnLacks, Zenon
  <2>3. CASE store[Key(w)] # None
    <3>1. pc'[w] = "use"
      BY <2>1, <2>3, Zenon DEF Goto, Own, Types
    <3>2. QED
      BY <1>1, <2>1, <2>3, <3>1, OwnGets, Zenon
  <2>4. QED
    BY <2>2, <2>3, Zenon
<1>4. CASE Restore(w, c.name, ttl)
  <2> DEFINE new == [s[c.keys[1]] EXCEPT !.ttl = ttl]
  <2>a. pc[w] = "use" /\ Answer(w, INT(1)) /\ \E v \in Bytes(w) : vc_set(w, c.keys[1], [v EXCEPT !.ttl = ttl])
    BY <1>4, Zenon DEF Restore, At, Key
  <2>1. pc[w] = "use" /\ Answer(w, INT(1)) /\ vc_set(w, c.keys[1], [got[w] EXCEPT !.ttl = ttl])
    BY <2>a, OwnFacts, Zenon
  <2>2. got[w] = s[c.keys[1]] /\ got[w] # None
    BY <1>2, <2>1, Zenon
  <2>3. Payload(new)
    BY <2>2, OwnFacts, PayloadTtl, Zenon
  <2>4. vc_set(w, c.keys[1], new)
    BY <2>1, <2>2, Zenon
  <2>6. Atomic(c, s) = Result(With(s, c.keys[1], new), INT(1))
    BY <1>1, <2>2, AtomicWrites, Zenon
  <2> HIDE DEF new
  <2>5. Gets(w, c.keys[1], new)
    BY <2>3, <2>4, OneOfKeys, SetStores, Zenon
  <2>7. AsOneStep(c, s, under[w], store', INT(1))
    BY <1>1, <1>2, <2>5, <2>6, OwnWrites, Zenon
  <2>8. QED
    BY <2>1, <2>7, AnswersAsOne, Zenon
<1>5. QED
  BY <1>1, <1>3, <1>4, Zenon


\* INCR and its kin.
LEMMA OwnCounter ==
    ASSUME NEW w \in Workers, Own(w), cmd_incrby(w)
    PROVE  Keeps(w)
<1> DEFINE c == cmd[w]
           s == base[w]
           sum == Number(s[c.keys[1]]) + Delta(c)
           new == Value("integer", sum, <<>>, 0)
<1>1. c.name \in Counters /\ c \in Requests
  BY OwnFacts, Zenon DEF cmd_incrby
<1>2. Same(c, store, s) /\ i[w] = 1 /\ (pc[w] = "use" => got[w] = s[c.keys[i[w]]])
  BY <1>1, Zenon DEF Own, Progress, Counters
<1>3. CASE vc_get(w, "use")
  <2>1. /\ pc[w] = "read" /\ pc'[w] = "use" /\ got' = [got EXCEPT ![w] = store[Key(w)]]
        /\ UNCHANGED <<i, acc, store>>
    BY <1>2, <1>3, Zenon DEF vc_get, Goto, Key, Own, Types
  <2>2. QED
    BY <1>1, <2>1, OwnGets, Zenon DEF Counters
<1>4. CASE ~vc_get(w, "use")
  <2>1. /\ pc[w] = "use" /\ pc'[w] = "done"
        /\ \E v \in Bytes(w) :
             LET cur == Value("integer", Number(v) + Delta(c), <<>>, 0) IN
             /\ vc_set(w, c.keys[1], cur)
             /\ reply' = [reply EXCEPT ![w] = @ \o <<BULK(cur), INT(cur.num)>>]
    BY <1>4, Zenon DEF cmd_incrby, Key, Goto, Own, Types
  <2>2. /\ vc_set(w, c.keys[1], new)
        /\ reply' = [reply EXCEPT ![w] = @ \o <<BULK(new), INT(new.num)>>]
    BY <1>2, <2>1, OwnFacts, ZenonT(30)
  <2>3. new.num = sum
    BY DEF Value
  <2>4. <<>> \in Seq(Nat)
    OBVIOUS
  <2>5. Payload(new)
    BY <2>4, Lengths, ValuePayload, Zenon
  <2>6. Atomic(c, s) = Result(With(s, c.keys[1], new), INT(sum))
    BY <1>1, AtomicCounter, Zenon DEF Own
  <2> HIDE DEF new, sum
  <2>7. reply'[w] = <<>> \o <<BULK(new), INT(sum)>>
    BY <2>2, <2>3, OwnFacts, Zenon DEF Own, Types
  <2>9. reply'[w][Len(reply'[w])] = INT(sum)
    <3>1. \A a, b : Len(<<>> \o <<a, b>>) = 2 /\ (<<>> \o <<a, b>>)[2] = b
      OBVIOUS
    <3>2. Len(<<>> \o <<BULK(new), INT(sum)>>) = 2 /\ (<<>> \o <<BULK(new), INT(sum)>>)[2] = INT(sum)
      BY <3>1, Zenon
    <3>3. QED
      BY <2>7, <3>2, Zenon
  <2>10. Gets(w, c.keys[1], new)
    BY <2>2, <2>5, OneOfKeys, SetStores, Zenon
  <2>11. AsOneStep(c, s, under[w], store', INT(sum))
    BY <1>1, <1>2, <2>6, <2>10, OwnWrites, Zenon DEF Counters
  <2>12. QED
    BY <2>1, <2>9, <2>11, Zenon DEF Keeps
<1>5. QED
  BY <1>3, <1>4, Zenon

\* APPEND.
LEMMA OwnAppend ==
    ASSUME NEW w \in Workers, Own(w), cmd_append(w)
    PROVE  Keeps(w)
<1> DEFINE c == cmd[w]
           s == base[w]
           new == Joined(s[c.keys[1]], c.args[1])
<1>1. c.name = "APPEND" /\ c \in Requests
  BY OwnFacts, Zenon DEF cmd_append, At
<1>2. Same(c, store, s) /\ i[w] = 1 /\ (pc[w] = "use" => got[w] = s[c.keys[i[w]]])
  BY <1>1, Zenon DEF Own, Progress
<1>3. CASE vc_get(w, "use")
  <2>1. /\ pc[w] = "read" /\ pc'[w] = "use" /\ got' = [got EXCEPT ![w] = store[Key(w)]]
        /\ UNCHANGED <<i, acc, store>>
    BY <1>2, <1>3, Zenon DEF vc_get, Goto, Key, Own, Types
  <2>2. QED
    BY <1>1, <2>1, OwnGets, Zenon
<1>4. CASE ~vc_get(w, "use")
  <2>1. /\ pc[w] = "use"
        /\ \E v \in IF got[w] = None THEN {None} ELSE Bytes(w) :
             vc_set(w, c.keys[1], Joined(v, c.args[1])) /\ Answer(w, INT(Length(Joined(v, c.args[1]))))
    BY <1>4, Zenon DEF cmd_append, Key, At
  <2>2. vc_set(w, c.keys[1], new) /\ Answer(w, INT(Length(new)))
    <3>1. \A v \in IF got[w] = None THEN {None} ELSE Bytes(w) : v = s[c.keys[1]]
      BY <1>2, <2>1, OwnFacts, Zenon
    <3>2. QED
      BY <2>1, <3>1, Zenon
  <2>3. c.args[1] \in Seq(Nat) /\ c.args[1] # <<>>
    BY <1>1, RegularText, Zenon DEF Own
  <2>4. Payload(s[c.keys[1]])
    BY OwnFacts, Zenon
  <2>5. Payload(new)
    BY <2>3, <2>4, PayloadJoined, Zenon
  <2>6. Atomic(c, s) = Result(With(s, c.keys[1], new), INT(Length(new)))
    BY <1>1, AtomicWrites, Zenon
  <2> HIDE DEF new
  <2>7. Gets(w, c.keys[1], new)
    BY <2>2, <2>5, OneOfKeys, SetStores, Zenon
  <2>8. AsOneStep(c, s, under[w], store', INT(Length(new)))
    BY <1>1, <1>2, <2>6, <2>7, OwnWrites, Zenon
  <2>9. QED
    BY <2>2, <2>8, AnswersAsOne, Zenon
<1>5. QED
  BY <1>3, <1>4, Zenon

\* RENAME.
LEMMA OwnRename ==
    ASSUME NEW w \in Workers, Own(w), cmd_rename(w)
    PROVE  Keeps(w)
<1> DEFINE c == cmd[w]
           s == base[w]
           gone == With(s, c.keys[1], None)
           new == [s[c.keys[1]] EXCEPT !.ttl = 0]
<1>1. c.name = "RENAME" /\ c \in Requests
  BY OwnFacts, Zenon DEF cmd_rename, Require, rename_del, rename_set, At
<1>2. /\ i[w] = 1 /\ (pc[w] # "write" => Same(c, store, s))
      /\ pc[w] = "use" => got[w] = s[c.keys[i[w]]] /\ got[w] # None
      /\ pc[w] = "write" => got[w] = s[c.keys[1]] /\ got[w] # None /\ Near(c, under[w], store, gone)
  BY <1>1, Zenon DEF Own, Progress
<1>3. CASE Require(w, "RENAME", ERR)
  <2>1. /\ pc[w] = "read" /\ got' = [got EXCEPT ![w] = store[Key(w)]] /\ UNCHANGED <<i, acc, store>>
        /\ IF store[Key(w)] = None THEN Answer(w, ERR) ELSE Goto(w, "use")
    BY <1>3, Zenon DEF Require, At
  <2>2. CASE store[Key(w)] = None
    <3>1. s[c.keys[1]] = None => Atomic(c, s) = Result(s, ERR)
      BY <1>1, AtomicWrites, Zenon
    <3>2. QED
      BY <1>1, <2>1, <2>2, <3>1, OwnLacks, Zenon
  <2>3. CASE store[Key(w)] # None
    <3>1. pc'[w] = "use"
      BY <2>1, <2>3, Zenon DEF Goto, Own, Types
    <3>2. QED
      BY <1>1, <2>1, <2>3, <3>1, OwnGets, Zenon
  <2>4. QED
    BY <2>2, <2>3, Zenon
<1>4. CASE rename_del(w)
  <2>1. /\ pc[w] = "use" /\ pc'[w] = "write" /\ got'[w] = got[w] /\ i' = i
        /\ vc_del(c.keys[1])
    <3>1. pc[w] = "use" /\ pc'[w] = "write" /\ i' = i /\ vc_del(c.keys[1])
      BY <1>4, Zenon DEF rename_del, At, Goto, Key, Own, Types
    <3>2. got' = [got EXCEPT ![w] = got[w]]
      BY <1>4, OwnFacts, Zenon DEF rename_del
    <3>3. QED
      BY <3>1, <3>2, Zenon DEF Own, Types
  <2>2. Near(c, under[w], store', gone)
    <3>1. Gets(w, c.keys[1], None)
      BY <2>1, OneOfKeys, DelStores, Zenon
    <3>2. Same(c, store, s) /\ DOMAIN s = Keys
      BY <1>2, <2>1, OwnFacts, Zenon
    <3>3. \A y \in Keys : gone[y] = IF y = c.keys[1] THEN None ELSE s[y]
      BY <3>2, Zenon DEF With
    <3> HIDE DEF gone
    <3>4. QED
      BY <3>1, <3>2, <3>3, Zenon DEF Same, Near, Gets
  <2> HIDE DEF gone
  <2>3. Progress(c, "write", 1, got[w], acc'[w], s, under[w], store')
    BY <1>1, <1>2, <2>1, <2>2, Zenon DEF Progress, gone
  <2>4. QED
    BY <1>2, <2>1, <2>3, Zenon DEF Keeps
<1>5. CASE rename_set(w)
  <2>1. pc[w] = "write" /\ Answer(w, OK) /\ vc_set(w, c.keys[2], [got[w] EXCEPT !.ttl = 0])
    BY <1>5, Zenon DEF rename_set, At
  <2>2. vc_set(w, c.keys[2], new) /\ s[c.keys[1]] # None
    BY <1>2, <2>1, Zenon
  <2>3. Payload(new)
    BY OwnFacts, PayloadTtl, Zenon
  <2>4. Atomic(c, s) = Result(With(gone, c.keys[2], new), OK)
    BY <1>1, <2>2, AtomicWrites, Zenon
  <2>5. DOMAIN gone = Keys
    BY OwnFacts, Zenon DEF With
  <2> HIDE DEF new, gone
  <2>7. Near(c, under[w], store, gone)
    BY <1>2, <2>1, Zenon
  <2>8. c.keys[2] \in Keys /\ 2 \in 1 .. Len(c.keys)
    <3>1. Len(c.keys) = 2 /\ 2 \in 1 .. 2
      BY <1>1, RequestAssumption
    <3>2. 2 \in 1 .. Len(c.keys)
      BY <3>1, Zenon
    <3>3. QED
      BY <1>1, <3>2, RequestFacts, Zenon
  <2>6. Gets(w, c.keys[2], new)
    BY <2>2, <2>3, <2>8, SetStores, Zenon
  <2>9. AsOneStep(c, s, under[w], store', OK)
    BY <1>1, <2>4, <2>5, <2>6, <2>7, <2>8, WritesAsOne, Zenon
  <2>10. QED
    BY <2>1, <2>9, AnswersAsOne, Zenon
<1>6. QED
  BY <1>3, <1>4, <1>5, Zenon DEF cmd_rename


-----------------------------------------------------------------------------
(* The loops.                                                              *)

\* A sequence that counts a set has its cardinality.
LEMMA CountedCard ==
    ASSUME NEW S, NEW a, Counted(a, S)
    PROVE  Cardinality(S) = Len(a)
<1>1. a \in Seq(S) /\ IsInjective(a) /\ Range(a) = S
  BY Zenon DEF Counted
<1>2. Len(a) \in Nat /\ DOMAIN a = 1 .. Len(a) /\ a \in [1 .. Len(a) -> S]
  BY <1>1
<1>3. a \in Bijection(1 .. Len(a), S)
  BY <1>1, <1>2, Zenon DEF Bijection, Injection, Surjection, Range
<1>4. QED
  BY <1>2, <1>3, FS_CountingElements, Zenon DEF ExistsBijection

\* A sequence that another element is appended to.
LEMMA AppendFacts ==
    ASSUME NEW S, NEW a \in Seq(S), NEW x
    PROVE  /\ DOMAIN a = 1 .. Len(a) /\ DOMAIN Append(a, x) = 1 .. Len(a) + 1 /\ Len(a) \in Nat
           /\ Append(a, x)[Len(a) + 1] = x /\ Append(a, x) \in Seq(S \cup {x}) /\ Len(Append(a, x)) = Len(a) + 1
           /\ \A j \in 1 .. Len(a) : Append(a, x)[j] = a[j]
           /\ \A j \in 1 .. Len(a) + 1 : j \in 1 .. Len(a) \/ j = Len(a) + 1
           /\ \A j \in 1 .. Len(a) : j \in 1 .. Len(a) + 1 /\ j # Len(a) + 1
           /\ Len(a) + 1 \in 1 .. Len(a) + 1
<1>1. a \in Seq(S \cup {x})
  OBVIOUS
<1>2. Append(a, x) \in Seq(S \cup {x})
  BY <1>1
<1>3. QED
  BY <1>2

\* One more element that is not there yet.
LEMMA AppendRange ==
    ASSUME NEW S, NEW a \in Seq(S), NEW x
    PROVE  /\ Range(Append(a, x)) = Range(a) \cup {x}
           /\ IsInjective(a) /\ x \notin Range(a) => IsInjective(Append(a, x))
<1> DEFINE b == Append(a, x)
           n == Len(a) + 1
<1>1. /\ DOMAIN a = 1 .. Len(a) /\ DOMAIN b = 1 .. n /\ b[n] = x /\ n \in 1 .. n
      /\ \A j \in 1 .. Len(a) : b[j] = a[j]
      /\ \A j \in 1 .. n : j \in 1 .. Len(a) \/ j = n
      /\ \A j \in 1 .. Len(a) : j \in 1 .. n /\ j # n
  BY AppendFacts
<1> HIDE DEF b, n
<1>2. Range(b) = Range(a) \cup {x}
  <2>1. ASSUME NEW y \in Range(b) PROVE y \in Range(a) \cup {x}
    BY <1>1, Zenon DEF Range
  <2>2. ASSUME NEW y \in Range(a) \cup {x} PROVE y \in Range(b)
    BY <1>1, Zenon DEF Range
  <2>3. QED
    BY <2>1, <2>2, Zenon
<1>3. ASSUME IsInjective(a), x \notin Range(a) PROVE IsInjective(b)
  <2>1. ASSUME NEW j \in 1 .. n, NEW m \in 1 .. n, b[j] = b[m] PROVE j = m
    <3>1. CASE j \in 1 .. Len(a) /\ m \in 1 .. Len(a)
      BY <1>1, <1>3, <2>1, <3>1, Zenon DEF IsInjective
    <3>2. CASE j \in 1 .. Len(a) /\ m = n
      BY <1>1, <1>3, <2>1, <3>2, Zenon DEF Range
    <3>3. CASE j = n /\ m \in 1 .. Len(a)
      BY <1>1, <1>3, <2>1, <3>3, Zenon DEF Range
    <3>4. CASE j = n /\ m = n
      BY <3>4, Zenon
    <3>5. QED
      BY <1>1, <2>1, <3>1, <3>2, <3>3, <3>4, Zenon
  <2>2. QED
    BY <1>1, <2>1, Zenon DEF IsInjective
<1>4. QED
  BY <1>2, <1>3, Zenon DEF b

\* A count goes up by one.
LEMMA CountedAppend ==
    ASSUME NEW S, NEW a, Counted(a, S), NEW x, x \notin S
    PROVE  Counted(Append(a, x), S \cup {x})
<1>1. a \in Seq(S) /\ IsInjective(a) /\ Range(a) = S
  BY Zenon DEF Counted
<1>2. QED
  BY <1>1, AppendFacts, AppendRange, Zenon DEF Counted

\* The arguments up to the next one, and all of them.
LEMMA BeforeNext ==
    ASSUME NEW c \in Requests, NEW n \in 1 .. Len(c.keys)
    PROVE  /\ n \in Nat /\ Before(c, n + 1) = Before(c, n) \cup {c.keys[n]}
           /\ \A j : j \in 1 .. (n + 1) - 1 <=> j \in 1 .. n - 1 \/ j = n
           /\ n \notin 1 .. n - 1 /\ \A j \in 1 .. (n + 1) - 1 : j \in DOMAIN c.keys
           /\ n = Len(c.keys) => 1 .. (n + 1) - 1 = DOMAIN c.keys
           /\ n = Len(c.keys) => Before(c, n + 1) = {c.keys[j] : j \in DOMAIN c.keys}
           /\ n \in DOMAIN c.keys /\ c.keys[n] \in Keys /\ ShardOf[c.keys[n]] \in Shards(c)
<1>1. Len(c.keys) \in Nat /\ DOMAIN c.keys = 1 .. Len(c.keys)
  BY RequestFacts, Zenon
<1>2. n \in Nat /\ \A j : j \in 1 .. (n + 1) - 1 <=> j \in 1 .. n - 1 \/ j = n
  BY <1>1
<1>3. n \notin 1 .. n - 1 /\ \A j \in 1 .. (n + 1) - 1 : j \in 1 .. Len(c.keys)
  BY <1>1
<1>4. n = Len(c.keys) => 1 .. (n + 1) - 1 = 1 .. Len(c.keys)
  BY <1>1
<1>5. Before(c, n + 1) = Before(c, n) \cup {c.keys[n]}
  BY <1>2, Zenon DEF Before
<1>6. n = Len(c.keys) => Before(c, n + 1) = {c.keys[j] : j \in DOMAIN c.keys}
  BY <1>1, <1>4, Zenon DEF Before
<1>7. c.keys[n] \in Keys /\ ShardOf[c.keys[n]] \in Shards(c)
  BY RequestFacts, Zenon
<1>8. QED
  BY <1>1, <1>2, <1>3, <1>4, <1>5, <1>6, <1>7, Zenon


\* The end of a loop's body.
LEMMA LoopKeeps ==
    ASSUME NEW w \in Workers, Own(w), NEW l \in {"read", "write"}, NEW r, Loop(w, l, r),
           Progress(cmd[w], l, i[w] + 1, got'[w], acc'[w], base[w], under[w], store'),
           i[w] = Len(cmd[w].keys) => AsOneStep(cmd[w], base[w], under[w], store', r)
    PROVE  Keeps(w)
<1>1. Types /\ reply[w] = <<>> /\ i[w] \in 1 .. Len(cmd[w].keys) /\ Len(cmd[w].keys) \in Nat
  BY OwnFacts, Zenon DEF Own
<1>2. \/ i'[w] = i[w] + 1 /\ pc'[w] = l
      \/ i[w] = Len(cmd[w].keys) /\ pc'[w] = "done" /\ Len(reply'[w]) = 1 /\ reply'[w][1] = r
  BY <1>1, LoopEnds
<1>3. QED
  BY <1>2, Zenon DEF Keeps

\* DEL has been through its arguments.
LEMMA DelAsOne ==
    ASSUME NEW c, NEW s, NEW x, NEW t, NEW a, NEW C, c.name = "DEL", C = {c.keys[j] : j \in DOMAIN c.keys},
           Crowded(c, x) = {} => Counted(a, {k \in C : s[k] # None}),
           Near(c, x, t, [k \in Keys |-> IF k \in C THEN None ELSE s[k]])
    PROVE  AsOneStep(c, s, x, t, INT(Len(a)))
<1> DEFINE S == {k \in C : s[k] # None}
           u == [k \in Keys |-> IF k \in C THEN None ELSE s[k]]
<1>1. Atomic(c, s) = Result(u, INT(Cardinality(S)))
  <2>1. LET h == {c.keys[j] : j \in DOMAIN c.keys} IN
        Atomic(c, s) = Result([k \in Keys |-> IF k \in h THEN None ELSE s[k]], INT(Cardinality({k \in h : s[k] # None})))
    BY Zenon DEF Atomic, Counters
  <2>2. QED
    BY <2>1
<1> HIDE DEF S, u
<1>2. Crowded(c, x) = {} => Cardinality(S) = Len(a)
  BY CountedCard, Zenon DEF S
<1>3. Near(c, x, t, u)
  BY Zenon DEF u
<1>4. INT(Cardinality(S)) = INT(Len(a)) \/ Crowded(c, x) # {}
  BY <1>2, Zenon
<1>5. ~(c.name = "SET" /\ INT(Len(a)) = ERR)
  BY Zenon
<1>6. QED
  BY <1>1, <1>3, <1>4, <1>5, ResultAsOne, Zenon

\* DEL.
LEMMA OwnDel ==
    ASSUME NEW w \in Workers, Own(w), cmd_del(w)
    PROVE  Keeps(w)
<1> DEFINE c == cmd[w]
           s == base[w]
           n == i[w]
           k == c.keys[n]
           B == Before(c, n)
           C == Before(c, n + 1)
           D == Crowded(c, under[w])
           old == {y \in B : s[y] # None}
           now == {y \in C : s[y] # None}
<1>1. c.name = "DEL" /\ c \in Requests /\ n \in 1 .. Len(c.keys) /\ k \in Keys /\ ShardOf[k] \in Shards(c)
  BY OwnFacts, Zenon DEF cmd_del, At
<1>2. /\ D = {} => Counted(acc[w], old)
      /\ Near(c, under[w], store, [y \in Keys |-> IF y \in B THEN None ELSE s[y]])
  BY <1>1, Zenon DEF Own, Progress
<1>3. /\ vc_del(k) /\ Loop(w, "read", INT(Len(acc'[w])))
      /\ acc'[w] = IF store[k] = None THEN acc[w] ELSE Append(acc[w], k)
  BY Zenon DEF cmd_del, Found, Own, Types
<1>a. Gets(w, k, None)
  BY <1>1, <1>3, DelStores, Zenon
<1>4. C = B \cup {k}
  BY <1>1, BeforeNext, Zenon
<1> HIDE DEF B, C, D, k
<1>5. \A y \in Keys : y \notin D /\ ShardOf[y] \in Shards(c) => store[y] = IF y \in B THEN None ELSE s[y]
  BY <1>2, Zenon DEF Near, D
<1>6. ASSUME D = {} PROVE Counted(acc'[w], now)
  <2>a. store[k] = IF k \in B THEN None ELSE s[k]
    BY <1>1, <1>5, <1>6, Zenon
  <2>1. CASE store[k] = None
    <3>1. now = old
      BY <1>4, <2>a, <2>1, Zenon
    <3>2. QED
      BY <1>2, <1>3, <1>6, <2>1, <3>1, Zenon
  <2>2. CASE store[k] # None
    <3>1. k \notin old /\ now = old \cup {k}
      BY <1>4, <2>a, <2>2, Zenon
    <3> HIDE DEF old, now
    <3>2. Counted(Append(acc[w], k), old \cup {k})
      BY <1>2, <1>6, <3>1, CountedAppend, Zenon
    <3>3. QED
      BY <1>3, <2>2, <3>1, <3>2, Zenon
  <2>3. QED
    BY <2>1, <2>2, Zenon
<1>7. Near(c, under[w], store', [y \in Keys |-> IF y \in C THEN None ELSE s[y]])
  <2>1. ASSUME NEW y \in Keys, y \notin D, ShardOf[y] \in Shards(c) PROVE store'[y] = IF y \in C THEN None ELSE s[y]
    <3>1. CASE y = k
      BY <1>a, <1>4, <2>1, <3>1, Zenon DEF Gets, D
    <3>2. CASE y # k
      BY <1>a, <1>4, <1>5, <2>1, <3>2, Zenon DEF Gets
    <3>3. QED
      BY <3>1, <3>2, Zenon
  <2>2. QED
    BY <2>1, Zenon DEF Near, D
<1>8. Progress(c, "read", n + 1, got'[w], acc'[w], s, under[w], store')
  BY <1>1, <1>6, <1>7, Zenon DEF Progress, C, D
<1>9. ASSUME n = Len(c.keys) PROVE AsOneStep(c, s, under[w], store', INT(Len(acc'[w])))
  <2>1. C = {c.keys[j] : j \in DOMAIN c.keys}
    BY <1>1, <1>9, BeforeNext, Zenon DEF C
  <2>2. QED
    BY <1>1, <1>6, <1>7, <2>1, DelAsOne, Zenon DEF D
<1>10. QED
  BY <1>3, <1>8, <1>9, LoopKeeps, Zenon

\* EXISTS.
LEMMA OwnExists ==
    ASSUME NEW w \in Workers, Own(w), cmd_exists(w)
    PROVE  Keeps(w)
<1> DEFINE c == cmd[w]
           s == base[w]
           n == i[w]
           old == {j \in 1 .. n - 1 : s[c.keys[j]] # None}
           now == {j \in 1 .. (n + 1) - 1 : s[c.keys[j]] # None}
<1>1. c.name = "EXISTS" /\ c \in Requests /\ n \in 1 .. Len(c.keys)
  BY OwnFacts, Zenon DEF cmd_exists, At
<1>2. Counted(acc[w], old) /\ Same(c, store, s)
  BY <1>1, Zenon DEF Own, Progress
<1>3. /\ store' = store /\ Loop(w, "read", INT(Len(acc'[w])))
      /\ acc'[w] = IF store[c.keys[n]] = None THEN acc[w] ELSE Append(acc[w], n)
  BY Zenon DEF cmd_exists, Found, Own, Types
<1>4. store[c.keys[n]] = s[c.keys[n]]
  BY <1>2, OwnFacts, Zenon DEF Same
<1>5. n \notin 1 .. n - 1 /\ \A j : j \in 1 .. (n + 1) - 1 <=> j \in 1 .. n - 1 \/ j = n
  BY <1>1, BeforeNext, Zenon
<1>6. Counted(acc'[w], now)
  <2>1. CASE store[c.keys[n]] = None
    <3>a. s[c.keys[n]] = None
      BY <1>4, <2>1, Zenon
    <3>1. now = old
      BY <1>5, <3>a
    <3>2. QED
      BY <1>2, <1>3, <2>1, <3>1, Zenon
  <2>2. CASE store[c.keys[n]] # None
    <3>1. n \notin old /\ now = old \cup {n}
      BY <1>4, <1>5, <2>2, Zenon
    <3> HIDE DEF old, now
    <3>2. Counted(Append(acc[w], n), old \cup {n})
      BY <1>2, <3>1, CountedAppend, Zenon
    <3>3. QED
      BY <1>3, <2>2, <3>1, <3>2, Zenon
  <2>3. QED
    BY <2>1, <2>2, Zenon
<1>7. Progress(c, "read", n + 1, got'[w], acc'[w], s, under[w], store')
  BY <1>1, <1>2, <1>3, <1>6, Zenon DEF Progress
<1>8. ASSUME n = Len(c.keys) PROVE AsOneStep(c, s, under[w], store', INT(Len(acc'[w])))
  <2>1. 1 .. (n + 1) - 1 = DOMAIN c.keys
    BY <1>1, <1>8, BeforeNext, Zenon
  <2>a. Atomic(c, s) = Result(s, INT(Cardinality({j \in DOMAIN c.keys : s[c.keys[j]] # None})))
    BY <1>1, AtomicReads, Zenon
  <2>2. Atomic(c, s) = Result(s, INT(Cardinality(now)))
    BY <2>1, <2>a, Zenon
  <2>3. Cardinality(now) = Len(acc'[w])
    BY <1>6, CountedCard, Zenon
  <2>4. Atomic(c, s) = Result(s, INT(Len(acc'[w])))
    BY <2>2, <2>3, Zenon
  <2>5. QED
    BY <1>2, <1>3, <2>4, ReadsAsOne, Zenon
<1>9. QED
  BY <1>3, <1>7, <1>8, LoopKeeps, Zenon


\* A set of naturals that is not empty has a least member.
LEMMA LeastNumber ==
    ASSUME NEW T, T \subseteq Nat, T # {}
    PROVE  \E x \in T : \A y \in T : x <= y
<1> DEFINE R == OpToRel(<, Nat)
<1>1. IsWellFoundedOn(R, Nat)
  BY NatLessThanWellFounded, Zenon
<1> HIDE DEF R
<1>2. PICK x \in T : \A y \in T : ~ (<<y, x>> \in R)
  BY <1>1, WFMin, Zenon
<1>3. ASSUME NEW y \in T, y < x PROVE FALSE
  <2>1. <<y, x>> \in R
    BY <1>3 DEF R, OpToRel
  <2>2. QED
    BY <1>2, <2>1, Zenon
<1>4. QED
  BY <1>3

\* One within a bound has a greatest member.
LEMMA GreatestNumber ==
    ASSUME NEW n \in Nat, NEW T, T \subseteq 1 .. n, T # {}
    PROVE  \E x \in T : \A y \in T : y > x => FALSE
<1> DEFINE D == {n - x : x \in T}
<1>a. \A x \in 1 .. n : n - x \in Nat
  OBVIOUS
<1>1. D \subseteq Nat /\ D # {}
  BY <1>a, Zenon
<1>2. PICK d \in D : \A e \in D : d <= e
  BY <1>1, LeastNumber, Zenon
<1>3. PICK x \in T : d = n - x
  BY <1>2, Zenon
<1>4. ASSUME NEW y \in T, y > x PROVE FALSE
  <2>1. n - x <= n - y
    BY <1>2, <1>3, Zenon
  <2>2. x \in 1 .. n /\ y \in 1 .. n
    BY Zenon
  <2>3. QED
    BY <1>4, <2>1, <2>2
<1>5. QED
  BY <1>4, Zenon

\* A function on 1 .. n, element by element.
LEMMA AppendFun ==
    ASSUME NEW n \in Nat \ {0}, NEW F
    PROVE  Append([j \in 1 .. n - 1 |-> F[j]], F[n]) = [j \in 1 .. (n + 1) - 1 |-> F[j]]
  OBVIOUS

\* MGET.
LEMMA OwnMget ==
    ASSUME NEW w \in Workers, Own(w), cmd_mget(w)
    PROVE  Keeps(w)
<1> DEFINE c == cmd[w]
           s == base[w]
           n == i[w]
           F == [j \in DOMAIN c.keys |-> s[c.keys[j]]]
           old == [j \in 1 .. n - 1 |-> s[c.keys[j]]]
           now == [j \in 1 .. (n + 1) - 1 |-> s[c.keys[j]]]
<1>1. c.name = "MGET" /\ c \in Requests /\ n \in 1 .. Len(c.keys)
  BY OwnFacts, Zenon DEF cmd_mget, At
<1>2. Same(c, store, s) /\ acc[w] = old /\ (pc[w] = "use" => got[w] = s[c.keys[n]])
  BY <1>1, Zenon DEF Own, Progress
<1>3. CASE vc_get(w, "use")
  <2>1. pc'[w] = "use" /\ got'[w] = store[c.keys[n]] /\ UNCHANGED <<i, acc, store>>
    BY <1>3, Zenon DEF vc_get, Goto, Own, Types
  <2>2. got'[w] = s[c.keys[n]]
    BY <1>2, <2>1, OwnFacts, Zenon DEF Same
  <2>3. Progress(c, "use", n, s[c.keys[n]], acc[w], s, under[w], store)
    BY <1>1, <1>2, Zenon DEF Progress
  <2>4. QED
    BY <2>1, <2>2, <2>3, Zenon DEF Keeps
<1>4. CASE ~vc_get(w, "use")
  <2>1. /\ pc[w] = "use" /\ store' = store /\ Loop(w, "read", Array(acc'[w]))
        /\ \E v \in Bytes(w) : acc' = [acc EXCEPT ![w] = Append(acc[w], v)]
    BY <1>4, Zenon DEF cmd_mget, At
  <2>2. acc'[w] = Append(old, s[c.keys[n]])
    <3> HIDE DEF old
    <3>1. acc' = [acc EXCEPT ![w] = Append(acc[w], got[w])]
      BY <2>1, OwnFacts, ZenonT(30)
    <3>2. acc'[w] = Append(acc[w], got[w])
      BY <3>1, Zenon DEF Own, Types
    <3>3. QED
      BY <1>2, <2>1, <3>2, Zenon
  <2>3. acc'[w] = now
    <3>1. n \in Nat \ {0} /\ \A j \in 1 .. (n + 1) - 1 : j \in DOMAIN c.keys
      <4>1. n \in Nat /\ \A j \in 1 .. (n + 1) - 1 : j \in DOMAIN c.keys
        BY <1>1, BeforeNext, Zenon
      <4>2. n # 0
        BY <1>1, OwnFacts
      <4>3. QED
        BY <4>1, <4>2
    <3>2. (\A j \in 1 .. n - 1 : j \in 1 .. (n + 1) - 1) /\ n \in 1 .. (n + 1) - 1
      BY <3>1
    <3>3. old = [j \in 1 .. n - 1 |-> F[j]] /\ now = [j \in 1 .. (n + 1) - 1 |-> F[j]] /\ s[c.keys[n]] = F[n]
      BY <3>1, <3>2, Zenon
    <3> HIDE DEF F, old, now
    <3>4. QED
      BY <2>2, <3>1, <3>3, AppendFun, ZenonT(30)
  <2>4. Progress(c, "read", n + 1, got'[w], acc'[w], s, under[w], store')
    BY <1>1, <1>2, <2>1, <2>3, Zenon DEF Progress
  <2>5. ASSUME n = Len(c.keys) PROVE AsOneStep(c, s, under[w], store', Array(acc'[w]))
    <3>1. 1 .. (n + 1) - 1 = DOMAIN c.keys
      BY <1>1, <2>5, BeforeNext, Zenon
    <3>2. now = F
      BY <3>1, Zenon
    <3>3. Atomic(c, s) = Result(s, Array(F))
      BY <1>1, AtomicReads, Zenon
    <3> HIDE DEF F, now
    <3>4. Atomic(c, s) = Result(s, Array(acc'[w]))
      BY <2>3, <3>2, <3>3, Zenon
    <3>5. QED
      BY <1>2, <2>1, <3>4, ReadsAsOne, Zenon
  <2>6. QED
    BY <2>1, <2>4, <2>5, LoopKeeps, Zenon
<1>5. QED
  BY <1>3, <1>4, Zenon


\* FLUSHDB.
LEMMA OwnFlush ==
    ASSUME NEW w \in Workers, Own(w), cmd_flushdb(w)
    PROVE  Keeps(w)
<1> DEFINE c == cmd[w]
           s == base[w]
           n == i[w]
           Wiped(x, m) == \E j \in 1 .. m - 1 : ShardOf[x] = ShardOf[c.keys[j]]
<1>1. c.name = "FLUSHDB" /\ c \in Requests /\ n \in 1 .. Len(c.keys)
  BY OwnFacts, Zenon DEF cmd_flushdb, At
<1>2. Same(c, store, [x \in Keys |-> IF Wiped(x, n) THEN None ELSE s[x]])
  BY <1>1, Zenon DEF Own, Progress
<1>3. /\ store' = [x \in Keys |-> IF ShardOf[x] = ShardOf[c.keys[n]] THEN None ELSE store[x]]
      /\ Loop(w, "read", OK)
  BY Zenon DEF cmd_flushdb
<1>4. \A x : Wiped(x, n + 1) <=> Wiped(x, n) \/ ShardOf[x] = ShardOf[c.keys[n]]
  <2>1. \A j : j \in 1 .. (n + 1) - 1 <=> j \in 1 .. n - 1 \/ j = n
    BY <1>1, BeforeNext, Zenon
  <2>2. QED
    BY <2>1, Zenon
<1> HIDE DEF Wiped
<1>5. Same(c, store', [x \in Keys |-> IF Wiped(x, n + 1) THEN None ELSE s[x]])
  BY <1>2, <1>3, <1>4, Zenon DEF Same
<1>6. Progress(c, "read", n + 1, got'[w], acc'[w], s, under[w], store')
  BY <1>1, <1>5, Zenon DEF Progress, Wiped
<1>7. ASSUME n = Len(c.keys) PROVE AsOneStep(c, s, under[w], store', OK)
  <2>1. 1 .. (n + 1) - 1 = DOMAIN c.keys
    BY <1>1, <1>7, BeforeNext, Zenon
  <2>2. \A x \in Keys : ShardOf[x] \in Shards(c) => Wiped(x, n + 1)
    BY <2>1, Zenon DEF Wiped, Shards
  <2>3. Same(c, store', Empty)
    BY <1>5, <2>2, Zenon DEF Same, Empty
  <2>4. Atomic(c, s) = Result(Empty, OK)
    BY <1>1, AtomicFlush, Zenon
  <2>5. Near(c, under[w], store', Empty)
    BY <2>3, SameNear, Zenon
  <2>6. QED
    BY <1>1, <2>4, <2>5, ResultAsOne, Zenon
<1>8. QED
  BY <1>3, <1>6, <1>7, LoopKeeps, Zenon

\* The keys an MSET that has come to argument n has not been to, and those it has.
Untouched(c, n, s, t) == \A k \in Keys : ShardOf[k] \in Shards(c) /\ k \notin Before(c, n) => t[k] = s[k]
Stored(c, n, x, t) ==
    \A j \in 1 .. n - 1 : c.keys[j] \notin Crowded(c, x) /\ (\A m \in j + 1 .. n - 1 : c.keys[m] # c.keys[j]) =>
        t[c.keys[j]] = Value("string", 0, c.args[j], 0)

\* MSET has been through its arguments: the last one counts.
LEMMA MsetAsOne ==
    ASSUME NEW c \in Requests, c.name = "MSET", NEW s, NEW x, NEW t,
           Untouched(c, Len(c.keys) + 1, s, t), Stored(c, Len(c.keys) + 1, x, t)
    PROVE  AsOneStep(c, s, x, t, OK)
<1> DEFINE n == Len(c.keys)
           here == {c.keys[j] : j \in DOMAIN c.keys}
           IsLast(y, j) == c.keys[j] = y /\ \A m \in DOMAIN c.keys : m > j => c.keys[m] # y
           last(y) == CHOOSE j \in DOMAIN c.keys : IsLast(y, j)
           u == [y \in Keys |-> IF y \in here THEN Value("string", 0, c.args[last(y)], 0) ELSE s[y]]
<1>1. n \in Nat /\ 1 <= n /\ DOMAIN c.keys = 1 .. n
  BY RequestFacts, Zenon
<1>2. (n + 1) - 1 = n /\ n \in 1 .. n
  BY <1>1
<1>3. Atomic(c, s) = Result(u, OK)
  BY Zenon DEF Atomic, Counters
<1>4. ASSUME NEW y \in here, y \notin Crowded(c, x) PROVE t[y] = Value("string", 0, c.args[last(y)], 0)
  <2> DEFINE T == {j \in 1 .. n : c.keys[j] = y}
  <2>1. T \subseteq 1 .. n /\ T # {}
    BY <1>1, <1>4, Zenon
  <2>2. PICK j \in T : \A m \in T : m > j => FALSE
    BY <1>1, <2>1, GreatestNumber, Zenon
  <2>3. j \in DOMAIN c.keys /\ IsLast(y, j)
    BY <1>1, <2>2, Zenon
  <2>4. last(y) \in DOMAIN c.keys /\ IsLast(y, last(y))
    BY <2>3, Zenon
  <2> HIDE DEF last
  <2>5. \A m \in last(y) + 1 .. n : m \in 1 .. n /\ m > last(y)
    BY <1>1, <2>4
  <2>6. \A m \in last(y) + 1 .. n : c.keys[m] # c.keys[last(y)]
    BY <1>1, <2>4, <2>5, Zenon
  <2>7. t[c.keys[last(y)]] = Value("string", 0, c.args[last(y)], 0)
    BY <1>1, <1>2, <1>4, <2>4, <2>6, Zenon DEF Stored
  <2>8. QED
    BY <2>4, <2>7, Zenon
<1>5. Before(c, n + 1) = here
  BY <1>1, <1>2, Zenon DEF Before
<1>6. ASSUME NEW y \in Keys, y \notin Crowded(c, x), ShardOf[y] \in Shards(c) PROVE t[y] = u[y]
  <2> HIDE DEF here, last
  <2>1. CASE y \in here
    BY <1>4, <1>6, <2>1, Zenon
  <2>2. CASE y \notin here
    BY <1>5, <1>6, <2>2, Zenon DEF Untouched
  <2>3. QED
    BY <2>1, <2>2, Zenon
<1> HIDE DEF u
<1>7. Near(c, x, t, u)
  BY <1>6, Zenon DEF Near
<1>8. QED
  BY <1>3, <1>7, ResultAsOne, Zenon

\* MSET.
LEMMA OwnMset ==
    ASSUME NEW w \in Workers, Own(w), cmd_mset(w)
    PROVE  Keeps(w)
<1> DEFINE c == cmd[w]
           s == base[w]
           n == i[w]
           k == c.keys[n]
           new == Value("string", 0, c.args[n], 0)
<1>1. /\ c.name = "MSET" /\ c \in Requests /\ n \in 1 .. Len(c.keys) /\ k \in Keys
      /\ DOMAIN store = Keys
  BY OwnFacts, Zenon DEF cmd_mset, At, Own, Types
<1>2. Untouched(c, n, s, store) /\ Stored(c, n, under[w], store)
  BY <1>1, Zenon DEF Own, Progress, Untouched, Stored
<1>3. vc_set(w, k, new) /\ Loop(w, "write", OK)
  BY Zenon DEF cmd_mset
<1>4. Payload(new)
  <2>1. Len(c.args) = Len(c.keys)
    BY <1>1, RequestAssumption, Zenon
  <2>2. c.args[n] \in Seq(Nat) /\ c.args[n] \in Range(c.args)
    BY <1>1, <2>1, RequestFacts, Zenon
  <2>3. c.args[n] # <<>>
    BY <2>2, Zenon DEF Own, Irregular
  <2>4. QED
    BY <2>2, <2>3, Lengths, ValuePayload, Zenon
<1> HIDE DEF new
<1>5. Gets(w, k, new)
  BY <1>1, <1>3, <1>4, SetStores, Zenon
<1>6. Before(c, n + 1) = Before(c, n) \cup {k} /\ n \in Nat
  BY <1>1, BeforeNext, Zenon
<1>7. Untouched(c, n + 1, s, store')
  BY <1>1, <1>2, <1>5, <1>6, Zenon DEF Untouched, Gets
<1>8. Stored(c, n + 1, under[w], store')
  <2>1. ASSUME NEW j \in 1 .. (n + 1) - 1, c.keys[j] \notin Crowded(c, under[w]),
               \A m \in j + 1 .. (n + 1) - 1 : c.keys[m] # c.keys[j]
        PROVE  store'[c.keys[j]] = Value("string", 0, c.args[j], 0)
    <3>1. CASE j = n
      BY <1>1, <1>5, <2>1, <3>1, Zenon DEF new, Gets
    <3>2. CASE j # n
      <4>1. j \in 1 .. n - 1 /\ n \in j + 1 .. (n + 1) - 1 /\ \A m \in j + 1 .. n - 1 : m \in j + 1 .. (n + 1) - 1
        BY <1>6, <3>2
      <4>2. c.keys[j] # k /\ \A m \in j + 1 .. n - 1 : c.keys[m] # c.keys[j]
        BY <2>1, <4>1, Zenon
      <4>3. store[c.keys[j]] = Value("string", 0, c.args[j], 0)
        BY <1>2, <2>1, <4>1, <4>2, Zenon DEF Stored
      <4>4. c.keys[j] \in Keys
        <5>1. j \in DOMAIN c.keys /\ DOMAIN c.keys = 1 .. Len(c.keys)
          BY <1>1, <2>1, BeforeNext, RequestFacts, Zenon
        <5>2. QED
          BY <1>1, <5>1, RequestFacts, Zenon
      <4>5. QED
        BY <1>5, <4>2, <4>3, <4>4, Zenon DEF Gets
    <3>3. QED
      BY <3>1, <3>2, Zenon
  <2>2. QED
    BY <2>1, Zenon DEF Stored
<1>9. Progress(c, "write", n + 1, got'[w], acc'[w], s, under[w], store')
  BY <1>1, <1>7, <1>8, Zenon DEF Progress, Untouched, Stored
<1>10. n = Len(c.keys) => AsOneStep(c, s, under[w], store', OK)
  BY <1>1, <1>7, <1>8, MsetAsOne, Zenon
<1>11. QED
  BY <1>3, <1>9, <1>10, LoopKeeps, Zenon


\* A command that meets no other one does what it should.
LEMMA OwnKeeps ==
    ASSUME NEW w \in Workers, Own(w)
    PROVE  Keeps(w)
<1>1. ~cmd_scan(w)
  BY Zenon DEF Own, cmd_scan, scan_none, scan_slot, scan_stop, scan_shard, InScan, InSlots
<1>2. Handler(w)
  BY Zenon DEF Own
<1>3. QED
  BY <1>1, <1>2, OwnSet, OwnReads, OwnDel, OwnExists, OwnMget, OwnMset, OwnFlush, OwnVcset, OwnRestore, OwnCounter,
     OwnAppend, OwnRename, Zenon DEF Handler

-----------------------------------------------------------------------------
(* Cursors.                                                                *)

\* A cursor is a shard and a slot.
LEMMA CursorParts ==
    ASSUME NEW R \in Nat \ {0}, NEW x \in Nat
    PROVE  /\ x \div R \in Nat /\ (x % R) \in Nat /\ (x % R) < R
           /\ x = (x \div R) * R + (x % R)
<1>1. x \div R \in Nat
  OBVIOUS
<1>2. (x % R) \in Nat
  OBVIOUS
<1>3. (x % R) < R
  OBVIOUS
<1>4. x = (x \div R) * R + (x % R)
  OBVIOUS
<1>5. QED
  BY <1>1, <1>2, <1>3, <1>4, Zenon

\* Which shard and slot it is.
LEMMA CursorUnique ==
    ASSUME NEW R \in Nat \ {0}, NEW a \in Nat, NEW b \in Nat, b < R
    PROVE  a * R + b \in Nat /\ (a * R + b) \div R = a /\ (a * R + b) % R = b
<1>1. a * R + b \in Nat
  OBVIOUS
<1>2. (a * R + b) \div R = a
  OBVIOUS
<1>3. (a * R + b) % R = b
  OBVIOUS
<1>4. QED
  BY <1>1, <1>2, <1>3, Zenon

\* Cursors go by shard, then by slot.
LEMMA CursorOrder ==
    ASSUME NEW R \in Nat \ {0}, NEW a \in Nat, NEW b \in Nat, b < R, NEW c \in Nat, NEW d \in Nat, d < R
    PROVE  a * R + b >= c * R + d <=> a > c \/ (a = c /\ b >= d)
<1>1. CASE a = c
  BY <1>1
<1>2. CASE a > c
  <2>1. PICK e \in Nat : a = c + 1 + e
    <3>1. a - c - 1 \in Nat /\ a = c + 1 + (a - c - 1)
      BY <1>2
    <3>2. QED
      BY <3>1
  <2>2. a * R = c * R + R + e * R /\ e * R \in Nat /\ c * R \in Nat
    BY <2>1
  <2>3. QED
    BY <1>2, <2>2
<1>3. CASE a < c
  <2>1. PICK e \in Nat : c = a + 1 + e
    <3>1. c - a - 1 \in Nat /\ c = a + 1 + (c - a - 1)
      BY <1>3
    <3>2. QED
      BY <3>1
  <2>2. c * R = a * R + R + e * R /\ e * R \in Nat /\ a * R \in Nat
    BY <2>1
  <2>3. QED
    BY <1>3, <2>2
<1>4. QED
  BY <1>1, <1>2, <1>3


\* The shard and the slot of a cell, from 0.
Within(e, q) == \E j \in DOMAIN Table[q] : Table[q][j] = e
CellTable(e) == CHOOSE q \in DOMAIN Table : Within(e, q)
CellShard(e) == CellTable(e) - 1
CellSlot(e)  == (CHOOSE j \in DOMAIN Table[CellTable(e)] : Table[CellTable(e)][j] = e) - 1

\* A cell is one of the table.
LEMMA CellFacts ==
    ASSUME NEW e \in Cells
    PROVE  /\ CellTable(e) \in DOMAIN Table /\ Within(e, CellTable(e))
           /\ e[1] \in Keys
<1>1. PICK q \in DOMAIN Table : \E j \in DOMAIN Table[q] : Table[q][j] = e
  BY Zenon DEF Cells, Range
<1>2. CellTable(e) \in DOMAIN Table /\ Within(e, CellTable(e))
  BY <1>1, Zenon DEF CellTable, Within
<1>3. PICK j \in DOMAIN Table[q] : Table[q][j] = e
  BY <1>1, Zenon
<1>4. Table \in Seq(Seq(Keys \X Nat))
  BY TableAssumption, Zenon
<1>5. Table[q] \in Seq(Keys \X Nat)
  BY <1>1, <1>4
<1>6. e \in Keys \X Nat
  BY <1>3, <1>5
<1>7. e[1] \in Keys
  BY <1>6
<1>8. QED
  BY <1>2, <1>7, Zenon

\* Where a cell is.
LEMMA CellPlace ==
    ASSUME NEW e \in Cells
    PROVE  /\ CellShard(e) \in Nat /\ CellShard(e) < Len(Table) /\ CellSlot(e) \in Nat
           /\ CellSlot(e) < Len(Table[CellShard(e) + 1]) /\ Table[CellShard(e) + 1][CellSlot(e) + 1] = e
           /\ CellShard(e) + 1 \in DOMAIN Table /\ CellSlot(e) + 1 \in DOMAIN Table[CellShard(e) + 1]
<1> DEFINE s == CellTable(e)
           a == CHOOSE b \in DOMAIN Table[s] : Table[s][b] = e
<1>1. s \in DOMAIN Table /\ \E j \in DOMAIN Table[s] : Table[s][j] = e
  BY CellFacts, Zenon DEF Within
<1>2. a \in DOMAIN Table[s] /\ Table[s][a] = e
  BY <1>1, Zenon
<1>3. CellShard(e) = s - 1 /\ CellSlot(e) = a - 1
  BY Zenon DEF CellShard, CellSlot
<1> HIDE DEF s, a
<1>4. Table \in Seq(Seq(Keys \X Nat))
  BY TableAssumption, Zenon
<1>5. s \in 1 .. Len(Table) /\ Len(Table) \in Nat /\ Table[s] \in Seq(Keys \X Nat)
  BY <1>1, <1>4
<1>6. a \in 1 .. Len(Table[s]) /\ Len(Table[s]) \in Nat
  BY <1>2, <1>5
<1>7. s - 1 \in Nat /\ s - 1 < Len(Table) /\ (s - 1) + 1 = s
  BY <1>5
<1>8. a - 1 \in Nat /\ a - 1 < Len(Table[s]) /\ (a - 1) + 1 = a
  BY <1>6
<1>9. QED
  BY <1>1, <1>2, <1>3, <1>7, <1>8, Zenon

\* The table: shards have fewer slots than cursors can tell apart.
LEMMA TableFacts ==
    ASSUME NEW q \in Nat, q < Len(Table)
    PROVE  /\ q + 1 \in DOMAIN Table /\ Table[q + 1] \in Seq(Keys \X Nat) /\ Len(Table[q + 1]) \in Nat
           /\ Len(Table[q + 1]) < SlotRange /\ SlotRange \in Nat \ {0} /\ Len(Table) \in Nat
<1>1. Table \in Seq(Seq(Keys \X Nat)) /\ SlotRange \in Nat /\ \A s \in DOMAIN Table : Len(Table[s]) < SlotRange
  BY TableAssumption, Zenon
<1>2. q + 1 \in DOMAIN Table /\ Len(Table) \in Nat
  BY <1>1
<1>3. Table[q + 1] \in Seq(Keys \X Nat)
  BY <1>1, <1>2
<1>4. Len(Table[q + 1]) \in Nat
  BY <1>3
<1>5. Len(Table[q + 1]) < SlotRange
  BY <1>1, <1>2, Zenon
<1>6. SlotRange # 0
  BY <1>1, <1>4, <1>5
<1>7. QED
  BY <1>1, <1>2, <1>3, <1>4, <1>5, <1>6

\* The position of a cell.
LEMMA CellPosition ==
    ASSUME NEW e \in Cells
    PROVE  /\ Position(e) = CellShard(e) * SlotRange + CellSlot(e) /\ Position(e) \in Nat
           /\ SlotRange \in Nat \ {0} /\ CellSlot(e) < SlotRange
           /\ CellShard(e) \in Nat /\ CellSlot(e) \in Nat
<1>1. /\ CellShard(e) \in Nat /\ CellShard(e) < Len(Table) /\ CellSlot(e) \in Nat
      /\ CellSlot(e) < Len(Table[CellShard(e) + 1]) /\ CellTable(e) - 1 = CellShard(e)
  BY CellPlace, Zenon DEF CellShard
<1>2. Len(Table[CellShard(e) + 1]) \in Nat /\ Len(Table[CellShard(e) + 1]) < SlotRange /\ SlotRange \in Nat \ {0}
  BY <1>1, TableFacts, Zenon
<1> DEFINE a == CHOOSE b \in DOMAIN Table[CellTable(e)] : Table[CellTable(e)][b] = e
<1>3. Position(e) = (CellTable(e) - 1) * SlotRange + a - 1 /\ CellSlot(e) = a - 1
  BY Zenon DEF Position, CellSlot, CellTable, Within
<1>4. a \in Int
  <2>1. CellTable(e) \in DOMAIN Table /\ \E j \in DOMAIN Table[CellTable(e)] : Table[CellTable(e)][j] = e
    BY CellFacts, Zenon DEF Within
  <2>2. a \in DOMAIN Table[CellTable(e)]
    BY <2>1, Zenon
  <2> HIDE DEF a
  <2>3. Table \in Seq(Seq(Keys \X Nat))
    BY TableAssumption, Zenon
  <2>4. Table[CellTable(e)] \in Seq(Keys \X Nat)
    BY <2>1, <2>3
  <2>5. QED
    BY <2>2, <2>4
<1> HIDE DEF a
<1>5. CellShard(e) * SlotRange \in Nat
  BY <1>1, <1>2
<1>6. Position(e) = CellShard(e) * SlotRange + CellSlot(e)
  <2>1. \A m \in Nat : m + a - 1 = m + (a - 1)
    BY <1>4
  <2>2. QED
    BY <1>1, <1>3, <1>5, <2>1, Zenon
<1>7. QED
  BY <1>1, <1>2, <1>5, <1>6


\* A cell is at one place.
LEMMA TableInjective ==
    ASSUME NEW s \in DOMAIN Table, NEW t \in DOMAIN Table, NEW a \in DOMAIN Table[s], NEW b \in DOMAIN Table[t],
           Table[s][a] = Table[t][b]
    PROVE  s = t /\ a = b
<1>1. \A y, z \in DOMAIN Table : \A c \in DOMAIN Table[y], d \in DOMAIN Table[z] : Table[y][c] = Table[z][d] => y = z /\ c = d
  <2>1. \A y, z \in DOMAIN Table : \A c \in DOMAIN Table[y], d \in DOMAIN Table[z] :
          /\ Table[y][c][1] = Table[z][d][1] => y = z
          /\ Table[y][c] = Table[z][d] => y = z /\ c = d
    BY TableAssumption
  <2>2. QED
    BY <2>1
<1>2. QED
  BY <1>1

\* The cell at a cursor.
CellAt(n) == Table[n \div SlotRange + 1][(n % SlotRange) + 1]

\* It has that position, and is the only one that has.
LEMMA PositionAt ==
    ASSUME NEW n \in Nat, n \div SlotRange \in Nat, n \div SlotRange < Len(Table),
           n % SlotRange < Len(Table[n \div SlotRange + 1])
    PROVE  CellAt(n) \in Cells /\ Position(CellAt(n)) = n /\ \A x \in Cells : Position(x) = n => x = CellAt(n)
<1> DEFINE q == n \div SlotRange
           r == n % SlotRange
           k == CellAt(n)
<1>1. /\ q + 1 \in DOMAIN Table /\ Table[q + 1] \in Seq(Keys \X Nat) /\ Len(Table[q + 1]) \in Nat
      /\ Len(Table[q + 1]) < SlotRange /\ SlotRange \in Nat \ {0}
  BY TableFacts, Zenon
<1>2. q \in Nat /\ r \in Nat /\ r < SlotRange /\ n = q * SlotRange + r
  BY <1>1, CursorParts, Zenon
<1>a. r < Len(Table[q + 1]) /\ k = Table[q + 1][r + 1]
  BY Zenon DEF CellAt
<1> HIDE DEF q, r, k
<1>3. r + 1 \in DOMAIN Table[q + 1] /\ k \in Cells
  <2>1. r + 1 \in DOMAIN Table[q + 1]
    BY <1>1, <1>2, <1>a, SMTT(30)
  <2>2. k \in Range(Table[q + 1])
    BY <1>a, <2>1, Zenon DEF Range
  <2>3. QED
    BY <1>1, <2>1, <2>2, Zenon DEF Cells
<1>4. Position(k) = n
  <2>1. /\ CellShard(k) + 1 \in DOMAIN Table /\ CellSlot(k) + 1 \in DOMAIN Table[CellShard(k) + 1]
        /\ Table[CellShard(k) + 1][CellSlot(k) + 1] = k
    BY <1>3, CellPlace, Zenon
  <2>2. CellShard(k) + 1 = q + 1 /\ CellSlot(k) + 1 = r + 1
    <3>1. Table[CellShard(k) + 1][CellSlot(k) + 1] = Table[q + 1][r + 1]
      BY <1>a, <2>1, Zenon
    <3>2. QED
      BY <1>1, <1>3, <2>1, <3>1, TableInjective
  <2>3. CellShard(k) \in Nat /\ CellSlot(k) \in Nat /\ Position(k) = CellShard(k) * SlotRange + CellSlot(k)
    BY <1>3, CellPosition, Zenon
  <2>4. CellShard(k) = q /\ CellSlot(k) = r
    BY <1>2, <2>2, <2>3
  <2>5. QED
    BY <1>2, <2>3, <2>4, Zenon
<1>5. ASSUME NEW x \in Cells, Position(x) = n PROVE x = k
  <2>1. /\ CellShard(x) \in Nat /\ CellSlot(x) \in Nat /\ CellSlot(x) < SlotRange
        /\ Position(x) = CellShard(x) * SlotRange + CellSlot(x)
    BY CellPosition, Zenon
  <2>2. /\ (CellShard(x) * SlotRange + CellSlot(x)) \div SlotRange = CellShard(x)
        /\ (CellShard(x) * SlotRange + CellSlot(x)) % SlotRange = CellSlot(x)
    BY <1>1, <2>1, CursorUnique, Zenon
  <2>3. CellShard(x) = q /\ CellSlot(x) = r
    BY <1>5, <2>1, <2>2, Zenon DEF q, r
  <2>4. Table[CellShard(x) + 1][CellSlot(x) + 1] = x
    BY CellPlace, Zenon
  <2>5. QED
    BY <1>a, <2>3, <2>4, Zenon
<1>6. QED
  BY <1>3, <1>4, <1>5, Zenon DEF k

\* At the end of a shard the next cell is one of a later shard.
LEMMA PastShard ==
    ASSUME NEW n \in Nat, n \div SlotRange \in Nat, n \div SlotRange < Len(Table),
           n % SlotRange >= Len(Table[n \div SlotRange + 1]),
           NEW x \in Cells, Position(x) >= n
    PROVE  n \div SlotRange + 1 < Len(Table) /\ Position(x) >= (n \div SlotRange + 1) * SlotRange
<1> DEFINE q == n \div SlotRange
           r == n % SlotRange
<1>1. /\ Len(Table[q + 1]) \in Nat /\ SlotRange \in Nat \ {0} /\ Len(Table) \in Nat
  BY TableFacts, Zenon
<1>2. q \in Nat /\ r \in Nat /\ r < SlotRange /\ n = q * SlotRange + r
  BY <1>1, CursorParts, Zenon
<1>3. r >= Len(Table[q + 1])
  BY Zenon
<1> HIDE DEF q, r
<1>4. /\ CellShard(x) \in Nat /\ CellSlot(x) \in Nat /\ CellSlot(x) < SlotRange
      /\ Position(x) = CellShard(x) * SlotRange + CellSlot(x)
  BY CellPosition, Zenon
<1>a. CellShard(x) * SlotRange + CellSlot(x) >= q * SlotRange + r
  BY <1>2, <1>4, Zenon
<1>5. CellShard(x) > q \/ (CellShard(x) = q /\ CellSlot(x) >= r)
  BY <1>1, <1>2, <1>4, <1>a, CursorOrder, Zenon
<1>6. CellShard(x) < Len(Table) /\ CellSlot(x) < Len(Table[CellShard(x) + 1])
  BY CellPlace, Zenon
<1>7. CellShard(x) > q
  <2>1. ASSUME CellShard(x) = q, CellSlot(x) >= r PROVE FALSE
    <3>1. CellSlot(x) < Len(Table[q + 1])
      BY <1>6, <2>1, Zenon
    <3>2. QED
      BY <1>1, <1>2, <1>3, <1>4, <2>1, <3>1
  <2>2. QED
    BY <1>5, <2>1, Zenon
<1>8. q + 1 < Len(Table)
  BY <1>1, <1>2, <1>4, <1>6, <1>7
<1>9. Position(x) >= (q + 1) * SlotRange
  <2>1. CellShard(x) >= q + 1 /\ q + 1 \in Nat /\ 0 \in Nat /\ 0 < SlotRange /\ CellSlot(x) >= 0
    BY <1>1, <1>2, <1>4, <1>7
  <2>2. CellShard(x) > q + 1 \/ CellShard(x) = q + 1
    BY <1>4, <2>1
  <2>3. CellShard(x) * SlotRange + CellSlot(x) >= (q + 1) * SlotRange + 0
    BY <1>1, <1>4, <2>1, <2>2, CursorOrder, Zenon
  <2>4. (q + 1) * SlotRange + 0 = (q + 1) * SlotRange
    BY <1>1, <2>1
  <2>5. QED
    BY <1>4, <2>3, <2>4, Zenon
<1>10. QED
  BY <1>8, <1>9, Zenon DEF q


-----------------------------------------------------------------------------
(* Scans.                                                                  *)

\* The shard of a scan.
LEMMA ScanShard ==
    ASSUME NEW c, NEW n, NEW a, NEW s, NEW x, NEW t, NEW y, Scanned(c, n, a, s, x, t, y), Len(Table) \in Nat \ {0}
    PROVE  /\ n \in Nat /\ n \div SlotRange \in Nat /\ n \div SlotRange < Len(Table) /\ SlotRange \in Nat \ {0}
           /\ (n % SlotRange) \in Nat /\ (n % SlotRange) < SlotRange
           /\ n = (n \div SlotRange) * SlotRange + (n % SlotRange)
           /\ Len(Table[n \div SlotRange + 1]) \in Nat /\ Len(Table[n \div SlotRange + 1]) < SlotRange
<1>1. n \in Nat /\ n \div SlotRange < Len(Table)
  BY Zenon DEF Scanned
<1>2. 0 \in Nat /\ 0 < Len(Table)
  OBVIOUS
<1>3. SlotRange \in Nat \ {0}
  BY <1>2, TableFacts, Zenon
<1>4. /\ n \div SlotRange \in Nat /\ (n % SlotRange) \in Nat /\ (n % SlotRange) < SlotRange
      /\ n = (n \div SlotRange) * SlotRange + (n % SlotRange)
  BY <1>1, <1>3, CursorParts, Zenon
<1>5. Len(Table[n \div SlotRange + 1]) \in Nat /\ Len(Table[n \div SlotRange + 1]) < SlotRange
  BY <1>1, <1>4, TableFacts, Zenon
<1>6. QED
  BY <1>1, <1>3, <1>4, <1>5, Zenon

\* One slot of a scan.
LEMMA ScannedSlot ==
    ASSUME NEW c, NEW n, NEW a, NEW s, NEW x, NEW t, NEW y, Scanned(c, n, a, s, x, t, y), Len(Table) \in Nat \ {0},
           c.n \in Nat, Len(a) # c.n, \A z \in Keys : ShardOf[z] \in Shards(c),
           n % SlotRange < Len(Table[n \div SlotRange + 1]),
           NEW k, k = CellAt(n),
           NEW b, \/ b = Append(a, k) /\ Lives(t, y, k)
                  \/ b = a /\ ~Lives(t, y, k)
    PROVE  Scanned(c, n + 1, b, s, x, t, y)
<1> DEFINE q == n \div SlotRange
           r == n % SlotRange
<1>1. /\ n \in Nat /\ q \in Nat /\ q < Len(Table) /\ SlotRange \in Nat \ {0} /\ r \in Nat
      /\ n = q * SlotRange + r /\ Len(Table[q + 1]) \in Nat /\ Len(Table[q + 1]) < SlotRange
  BY ScanShard, Zenon
<1>2. k \in Cells /\ Position(k) = n /\ \A e \in Cells : Position(e) = n => e = k
  <2>1. CellAt(n) \in Cells /\ Position(CellAt(n)) = n /\ \A e \in Cells : Position(e) = n => e = CellAt(n)
    BY <1>1, PositionAt, Zenon
  <2>2. QED
    BY <2>1, Zenon
<1>3. /\ Same(c, t, s) /\ Same(c, y, x) /\ a \in Seq(Cells) /\ IsInjective(a) /\ Len(a) <= c.n
      /\ \A e \in Range(a) : Position(e) < n /\ Lives(s, x, e)
      /\ From(s, x, c.cursor) \subseteq Range(a) \cup From(s, x, n)
  BY Zenon DEF Scanned
<1>a. Lives(t, y, k) <=> Lives(s, x, k)
  <2>1. t[k[1]] = s[k[1]] /\ y[k[1]] = x[k[1]]
    BY <1>2, <1>3, CellFacts, Zenon DEF Same
  <2>2. QED
    BY <2>1, Zenon DEF Lives
<1>4. r < Len(Table[q + 1])
  BY Zenon
<1>5. n + 1 \in Nat /\ (n + 1) \div SlotRange < Len(Table)
  <2> HIDE DEF q, r
  <2>1. r + 1 \in Nat /\ r + 1 < SlotRange
    BY <1>1, <1>4
  <2>2. (q * SlotRange + (r + 1)) \div SlotRange = q
    BY <1>1, <2>1, CursorUnique, Zenon
  <2>3. q * SlotRange \in Nat
    BY <1>1
  <2>4. n + 1 = q * SlotRange + (r + 1) /\ n + 1 \in Nat
    BY <1>1, <2>3
  <2>5. QED
    BY <1>1, <2>2, <2>4, Zenon
<1> HIDE DEF q, r
<1>6. \A e \in Range(a) : e \in Cells /\ Position(e) \in Nat
  <2>1. DOMAIN a = 1 .. Len(a) /\ \A j \in 1 .. Len(a) : a[j] \in Cells
    BY <1>3
  <2>2. QED
    BY <2>1, CellPosition, Zenon DEF Range
<1>7. k \notin Range(a)
  <2>1. k \in Range(a) => n < n
    BY <1>2, <1>3, Zenon
  <2>2. QED
    BY <1>1, <2>1
<1>8. b \in Seq(Cells) /\ IsInjective(b) /\ Len(b) <= c.n
  <2>1. CASE b = a
    BY <1>3, <2>1, Zenon
  <2>2. CASE b = Append(a, k)
    <3>1. Append(a, k) \in Seq(Cells) /\ Len(Append(a, k)) = Len(a) + 1 /\ Len(a) \in Nat
      BY <1>2, <1>3
    <3>2. Len(a) + 1 <= c.n
      BY <1>3, <3>1
    <3>3. IsInjective(Append(a, k))
      BY <1>3, <1>7, AppendRange, Zenon
    <3>4. QED
      BY <2>2, <3>1, <3>2, <3>3, ZenonT(30)
  <2>3. QED
    BY <2>1, <2>2, Zenon
<1>9. Range(b) = Range(a) \/ (Range(b) = Range(a) \cup {k} /\ Lives(t, y, k))
  BY <1>3, AppendRange, Zenon
<1>10. \A e \in Range(b) : Position(e) < n + 1 /\ Lives(s, x, e)
  <2>1. \A p \in Nat : p < n => p < n + 1
    BY <1>1
  <2>2. n < n + 1
    BY <1>1
  <2>3. QED
    BY <1>2, <1>3, <1>a, <1>6, <1>9, <2>1, <2>2, ZenonT(30)
<1>11. ASSUME NEW e \in From(s, x, c.cursor) PROVE e \in Range(b) \cup From(s, x, n + 1)
  <2>1. CASE e \in Range(a)
    BY <1>9, <2>1, Zenon
  <2>2. CASE e \in From(s, x, n)
    <3>1. e \in Cells /\ Lives(s, x, e) /\ Position(e) >= n /\ Position(e) \in Nat
      BY <2>2, CellPosition, Zenon DEF From
    <3>a. \A p \in Nat : p >= n => p = n \/ p >= n + 1
      BY <1>1
    <3>2. Position(e) = n \/ Position(e) >= n + 1
      BY <3>1, <3>a, Zenon
    <3>3. CASE Position(e) = n
      <4>1. e = k /\ Lives(t, y, k)
        BY <1>2, <1>a, <3>1, <3>3, Zenon
      <4>2. b = Append(a, k) /\ Range(Append(a, k)) = Range(a) \cup {k}
        BY <1>3, <4>1, AppendRange, Zenon
      <4>3. QED
        BY <4>1, <4>2, Zenon
    <3>4. CASE Position(e) >= n + 1
      BY <3>1, <3>4, Zenon DEF From
    <3>5. QED
      BY <3>2, <3>3, <3>4, Zenon
  <2>3. QED
    BY <1>3, <2>1, <2>2, Zenon
<1>12. QED
  BY <1>3, <1>5, <1>8, <1>10, <1>11, Zenon DEF Scanned


\* On to the next shard.
LEMMA ScannedShard ==
    ASSUME NEW c, NEW n, NEW a, NEW s, NEW x, NEW t, NEW y, Scanned(c, n, a, s, x, t, y), Len(Table) \in Nat \ {0},
           n % SlotRange >= Len(Table[n \div SlotRange + 1]), n \div SlotRange + 1 < Len(Table)
    PROVE  Scanned(c, (n \div SlotRange + 1) * SlotRange, a, s, x, t, y)
<1> DEFINE q == n \div SlotRange
           r == n % SlotRange
           m == (q + 1) * SlotRange
<1>1. /\ n \in Nat /\ q \in Nat /\ q < Len(Table) /\ SlotRange \in Nat \ {0} /\ r \in Nat /\ r < SlotRange
      /\ n = q * SlotRange + r
  BY ScanShard, Zenon
<1>2. \A e \in Cells : Position(e) >= n => Position(e) >= m
  BY <1>1, PastShard, Zenon
<1>3. /\ Same(c, t, s) /\ Same(c, y, x) /\ a \in Seq(Cells) /\ IsInjective(a) /\ Len(a) <= c.n
      /\ \A e \in Range(a) : Position(e) < n /\ Lives(s, x, e)
      /\ From(s, x, c.cursor) \subseteq Range(a) \cup From(s, x, n)
  BY Zenon DEF Scanned
<1>a. q + 1 < Len(Table)
  BY Zenon
<1> HIDE DEF q, r
<1>4. m \in Nat /\ m \div SlotRange < Len(Table)
  <2>1. q + 1 \in Nat /\ 0 \in Nat /\ 0 < SlotRange
    BY <1>1
  <2>2. ((q + 1) * SlotRange + 0) \div SlotRange = q + 1
    BY <1>1, <2>1, CursorUnique, Zenon
  <2>3. m \in Nat /\ m = (q + 1) * SlotRange + 0
    BY <1>1, <2>1
  <2>4. QED
    BY <1>a, <2>2, <2>3, Zenon
<1>5. n < m
  <2>1. q * SlotRange \in Nat /\ m = q * SlotRange + SlotRange
    BY <1>1
  <2> HIDE DEF m
  <2>2. QED
    BY <1>1, <2>1
<1> HIDE DEF m
<1>6. \A e \in Range(a) : Position(e) < m /\ Lives(s, x, e)
  <2>1. \A p \in Nat : p < n => p < m
    BY <1>1, <1>4, <1>5
  <2>2. DOMAIN a = 1 .. Len(a) /\ \A j \in 1 .. Len(a) : a[j] \in Cells
    BY <1>3
  <2>3. \A e \in Range(a) : Position(e) \in Nat
    BY <2>2, CellPosition, Zenon DEF Range
  <2>4. QED
    BY <1>3, <2>1, <2>3, Zenon
<1>7. From(s, x, n) \subseteq From(s, x, m)
  BY <1>2, Zenon DEF From
<1>8. Scanned(c, m, a, s, x, t, y)
  BY <1>3, <1>4, <1>6, <1>7, Zenon DEF Scanned
<1>9. QED
  BY <1>8, Zenon DEF m, q

\* The reply of a scan that has enough keys, within a shard.
LEMMA ListedStop ==
    ASSUME NEW c \in Requests, c.name \in Scans, NEW n, NEW a, NEW s, NEW x, NEW t, NEW y, Scanned(c, n, a, s, x, t, y), Len(a) = c.n, c.n # 0,
           NEW r, r = Reply("keys", IF c.name = "SCAN" THEN n ELSE 0, a)
    PROVE  Listed(c, n, a, s, x, r)
<1>1. r.vals = a /\ r.n = IF c.name = "SCAN" THEN n ELSE 0
  BY DEF Reply
<1>2. CASE c.name = "KEYS"
  BY <1>1, <1>2, Zenon DEF Listed, Cut
<1>3. CASE c.name = "SCAN"
  <2>1. c.n \in Nat /\ a \in Seq(Cells) /\ n \in Nat /\ \A e \in Range(a) : Position(e) < n
    BY RequestAssumption, Zenon DEF Scanned
  <2>2. 1 \in DOMAIN a /\ a[1] \in Cells
    BY <2>1
  <2>3. Position(a[1]) < n /\ Position(a[1]) \in Nat
    BY <2>1, <2>2, CellPosition, Zenon DEF Range
  <2>4. \A p \in Nat : p < n => n # 0
    BY <2>1
  <2>5. QED
    BY <1>1, <1>3, <2>3, <2>4, Zenon DEF Listed
<1>4. QED
  BY <1>2, <1>3, Zenon DEF Scans

\* The reply of a scan that ends with a shard.
LEMMA ListedEnd ==
    ASSUME NEW c, NEW n, NEW a, NEW s, NEW x, NEW t, NEW y, Scanned(c, n, a, s, x, t, y), Len(Table) \in Nat \ {0},
           n % SlotRange >= Len(Table[n \div SlotRange + 1]), ~(n \div SlotRange + 1 < Len(Table) /\ Len(a) # c.n),
           NEW r, r = Reply("keys", 0, a)
    PROVE  Listed(c, n, a, s, x, r)
<1>1. r.vals = a /\ r.n = 0
  BY DEF Reply
<1>2. n \in Nat /\ n \div SlotRange \in Nat /\ n \div SlotRange < Len(Table)
  BY ScanShard, Zenon
<1>3. CASE n \div SlotRange + 1 < Len(Table)
  <2>1. Cut(c, n, a)
    BY <1>3, Zenon DEF Cut
  <2>2. QED
    BY <1>1, <2>1, Zenon DEF Listed
<1>4. CASE ~(n \div SlotRange + 1 < Len(Table))
  <2>1. From(s, x, n) = {}
    BY <1>2, <1>4, PastShard, Zenon DEF From
  <2>2. QED
    BY <1>1, <2>1, Zenon DEF Listed
<1>5. QED
  BY <1>3, <1>4, Zenon

\* A scan begins.
LEMMA ScannedBegin ==
    ASSUME NEW c \in Requests, c.name \in Scans, NEW s, NEW x, Len(Table) \in Nat \ {0}
    PROVE  Scanned(c, c.cursor, <<>>, s, x, s, x)
<1>1. c.n \in Nat /\ c.cursor \in 0 .. Len(Table) * SlotRange - 1
  BY RequestAssumption, Zenon
<1>2. 0 \in Nat /\ 0 < Len(Table)
  OBVIOUS
<1>3. SlotRange \in Nat \ {0}
  BY <1>2, TableFacts, Zenon
<1>4. c.cursor \in Nat /\ c.cursor < Len(Table) * SlotRange
  <2>1. \A m \in Nat : \A p \in 0 .. m - 1 : p \in Nat /\ p < m
    OBVIOUS
  <2>2. Len(Table) * SlotRange \in Nat
    BY <1>3
  <2>3. QED
    BY <1>1, <2>1, <2>2, Zenon
<1>5. c.cursor \div SlotRange < Len(Table)
  <2> DEFINE q == c.cursor \div SlotRange
             r == c.cursor % SlotRange
  <2>1. q \in Nat /\ r \in Nat /\ r < SlotRange /\ c.cursor = q * SlotRange + r
    BY <1>3, <1>4, CursorParts, Zenon
  <2> HIDE DEF q, r
  <2>2. ASSUME q >= Len(Table) PROVE FALSE
    <3>1. q > Len(Table) \/ (q = Len(Table) /\ r >= 0)
      BY <2>1, <2>2
    <3>2. 0 \in Nat /\ 0 < SlotRange /\ Len(Table) * SlotRange + 0 = Len(Table) * SlotRange
      BY <1>3
    <3>3. q * SlotRange + r >= Len(Table) * SlotRange + 0
      BY <1>3, <2>1, <3>1, <3>2, CursorOrder, Zenon
    <3>4. Len(Table) * SlotRange \in Nat
      BY <1>3
    <3>5. c.cursor >= Len(Table) * SlotRange
      BY <2>1, <3>2, <3>3, Zenon
    <3>6. QED
      BY <1>4, <3>4, <3>5
  <2>3. q < Len(Table)
    BY <2>1, <2>2
  <2>4. QED
    BY <2>3, Zenon DEF q
<1>6. <<>> \in Seq(Cells) /\ Len(<<>>) <= c.n /\ DOMAIN <<>> = {}
  BY <1>1
<1>7. IsInjective(<<>>) /\ Range(<<>>) = {}
  BY <1>6, Zenon DEF IsInjective, Range
<1>8. QED
  BY <1>4, <1>5, <1>6, <1>7, Zenon DEF Scanned, Same


\* There are requests only if there are shards.
LEMMA ShardsExist ==
    ASSUME NEW c \in Requests
    PROVE  Len(Table) \in Nat \ {0}
<1>1. 1 <= Len(c.keys) /\ Len(c.keys) \in Nat
  BY RequestFacts, Zenon
<1>2. 1 \in 1 .. Len(c.keys)
  BY <1>1
<1>3. c.keys[1] \in Keys
  BY <1>2, RequestFacts, Zenon
<1> DEFINE e == <<c.keys[1], 1>>
<1>a. e \in Cells
  <2>1. PICK q \in DOMAIN Table : \E j \in DOMAIN Table[q] : Table[q][j] = e
    BY <1>3, TableAssumption, Zenon
  <2>2. e \in Range(Table[q])
    BY <2>1, Zenon DEF Range
  <2>3. QED
    BY <2>1, <2>2, Zenon DEF Cells
<1>4. CellShard(e) \in Nat /\ CellShard(e) < Len(Table)
  BY <1>a, CellPlace, Zenon
<1>5. Len(Table) \in Nat
  BY <1>4, TableFacts, Zenon
<1> HIDE DEF e
<1>6. QED
  BY <1>4, <1>5

\* A step of a scan that meets no writer.
LEMMA OwnScan ==
    ASSUME NEW w \in Workers, Types, Serving(w), Handler(w), w \notin met', cmd_scan(w),
           Scanned(cmd[w], i[w], acc[w], base[w], under[w], store, behind)
    PROVE  /\ Scanned(cmd[w], i'[w], acc'[w], base[w], under[w], store', behind')
           /\ pc'[w] = "done" => Listed(cmd[w], i'[w], acc'[w], base[w], under[w], reply'[w][1])
<1> DEFINE c == cmd[w]
           n == i[w]
           a == acc[w]
           s == base[w]
           x == under[w]
<1>1. Assigns(w)
  BY HandlerFrame, Zenon
<1>2. c \in Requests /\ reply[w] = <<>> /\ w \notin met
  BY <1>1, Zenon DEF Assigns, Serving
<1>3. c.name \in Scans /\ pc[w] = "read" /\ store' = store /\ behind' = behind
  BY Zenon DEF cmd_scan, scan_none, scan_slot, scan_stop, scan_shard, InScan, InSlots, cache
<1>4. Len(Table) \in Nat \ {0} /\ c.n \in Nat /\ \A z \in Keys : ShardOf[z] \in Shards(c)
  <2>1. c.n \in Nat /\ \A z \in Keys : ShardOf[z] \in Shards(c)
    BY <1>2, <1>3, RequestAssumption, Zenon
  <2>2. Len(Table) \in Nat \ {0}
    BY <1>2, ShardsExist, Zenon
  <2>3. QED
    BY <2>1, <2>2, Zenon
<1>5. CASE scan_slot(w)
  <2> DEFINE k == CellAt(n)
  <2>1. /\ n % SlotRange < Len(Table[n \div SlotRange + 1]) /\ Len(a) # c.n
        /\ i' = [i EXCEPT ![w] = n + 1] /\ pc' = pc
    BY <1>5, Zenon DEF scan_slot, InSlots, Slot, Slots, Shard, Full
  <2>2. \/ acc'[w] = Append(a, k) /\ Lives(store, behind, k)
        \/ acc'[w] = a /\ ~Lives(store, behind, k)
    BY <1>2, <1>5, Zenon DEF scan_slot, Slot, Slots, Shard, CellAt, Types
  <2> HIDE DEF k
  <2>3. Scanned(c, n + 1, acc'[w], s, x, store, behind)
    BY <1>4, <2>1, <2>2, ScannedSlot, Zenon DEF k
  <2>4. i'[w] = n + 1 /\ pc'[w] # "done"
    BY <1>3, <2>1, Zenon DEF Types
  <2>5. QED
    BY <1>2, <1>3, <2>3, <2>4, Zenon
<1>6. CASE scan_stop(w)
  <2>1. Len(a) = c.n /\ c.n # 0 /\ i' = i /\ acc' = acc /\ Answer(w, Reply("keys", IF c.name = "SCAN" THEN n ELSE 0, a))
    BY <1>6, Zenon DEF scan_stop, InSlots, Full, Listing
  <2>2. reply'[w][1] = Reply("keys", IF c.name = "SCAN" THEN n ELSE 0, a)
    BY <1>2, <2>1, AnswerEnds, Zenon
  <2>3. Listed(c, n, a, s, x, reply'[w][1])
    BY <1>2, <1>3, <2>1, <2>2, ListedStop, Zenon
  <2>4. QED
    BY <1>2, <1>3, <2>1, <2>3, Zenon
<1>7. CASE scan_shard(w)
  <2>1. /\ n % SlotRange >= Len(Table[n \div SlotRange + 1]) /\ acc' = acc
        /\ IF n \div SlotRange + 1 < Len(Table) /\ Len(a) # c.n
           THEN i' = [i EXCEPT ![w] = (n \div SlotRange + 1) * SlotRange] /\ pc' = pc
           ELSE Answer(w, Reply("keys", 0, a)) /\ i' = i
    BY <1>7, Zenon DEF scan_shard, Slot, Slots, Shard, Full, Listing
  <2>2. CASE n \div SlotRange + 1 < Len(Table) /\ Len(a) # c.n
    <3>1. Scanned(c, (n \div SlotRange + 1) * SlotRange, a, s, x, store, behind)
      BY <1>4, <2>1, <2>2, ScannedShard, Zenon
    <3>2. i'[w] = (n \div SlotRange + 1) * SlotRange /\ pc'[w] # "done"
      BY <1>3, <2>1, <2>2, Zenon DEF Types
    <3>3. QED
      BY <1>2, <1>3, <2>1, <3>1, <3>2, Zenon
  <2>3. CASE ~(n \div SlotRange + 1 < Len(Table) /\ Len(a) # c.n)
    <3>1. Answer(w, Reply("keys", 0, a)) /\ i' = i
      BY <2>1, <2>3, Zenon
    <3>2. reply'[w][1] = Reply("keys", 0, a)
      BY <1>2, <3>1, AnswerEnds, Zenon
    <3>3. Listed(c, n, a, s, x, reply'[w][1])
      BY <1>4, <2>1, <2>3, <3>2, ListedEnd, Zenon
    <3>4. QED
      BY <1>2, <1>3, <2>1, <3>1, <3>3, Zenon
  <2>4. QED
    BY <2>2, <2>3, Zenon
<1>8. CASE scan_none(w)
  <2>1. c.n = 0 /\ i' = i /\ acc' = acc /\ Answer(w, Reply("keys", 0, a))
    BY <1>8, Zenon DEF scan_none, Listing
  <2>2. reply'[w][1] = Reply("keys", 0, a)
    BY <1>2, <2>1, AnswerEnds, Zenon
  <2>3. reply'[w][1].vals = a /\ reply'[w][1].n = 0
    BY <2>2 DEF Reply
  <2>4. Listed(c, n, a, s, x, reply'[w][1])
    BY <2>1, <2>3, Zenon DEF Listed, Cut
  <2>5. QED
    BY <1>2, <1>3, <2>1, <2>4, Zenon
<1>9. QED
  BY <1>5, <1>6, <1>7, <1>8, Zenon DEF cmd_scan

\* A command that begins.
LEMMA DispatchAlone ==
    ASSUME NEW w \in Workers, Types, Serving(w), NEW c \in Requests, vc_dispatch(w, c)
    PROVE  Alone(w)'
<1>1. /\ pc[w] = "idle" /\ pc'[w] = Entry(c) /\ cmd'[w] = c /\ base'[w] = store /\ store' = store
      /\ under'[w] = behind /\ behind' = behind
      /\ i'[w] = (IF c.name \in Scans THEN c.cursor ELSE 1) /\ acc' = acc /\ acc[w] = <<>>
  BY Zenon DEF vc_dispatch, Goto, Types, Serving, cache
<1>2. Entry(c) \notin {"idle", "done", "use"}
  BY Zenon DEF Entry
<1>3. ASSUME c.name \notin Scans PROVE Progress(c, Entry(c), 1, got'[w], <<>>, store, behind, store)
  <2>1. 1 .. 1 - 1 = {}
    OBVIOUS
  <2>2. Before(c, 1) = {}
    BY <2>1, Zenon DEF Before
  <2>3. <<>> \in Seq({}) /\ DOMAIN <<>> = {}
    OBVIOUS
  <2>4. Counted(<<>>, {})
    BY <2>3, Zenon DEF Counted, IsInjective, Range
  <2>5. c.name = "RENAME" => Entry(c) = "read"
    BY Zenon DEF Entry
  <2>6. c.name = "SET" => Probed(c, Entry(c), store)
    BY Zenon DEF Entry, Probed
  <2>7. \A t : Same(c, t, t)
    BY Zenon DEF Same
  <2>8. c.name = "DEL" =>
          /\ Counted(<<>>, {x \in Before(c, 1) : store[x] # None})
          /\ Near(c, behind, store, [x \in Keys |-> IF x \in Before(c, 1) THEN None ELSE store[x]])
    <3>1. {x \in Before(c, 1) : store[x] # None} = {}
      BY <2>2, Zenon
    <3>2. Near(c, behind, store, [x \in Keys |-> IF x \in Before(c, 1) THEN None ELSE store[x]])
      BY <2>2, Zenon DEF Near
    <3>3. QED
      BY <2>4, <3>1, <3>2, Zenon
  <2>9. Counted(<<>>, {j \in 1 .. 1 - 1 : store[c.keys[j]] # None})
    <3>1. {j \in 1 .. 1 - 1 : store[c.keys[j]] # None} = {}
      BY <2>1, Zenon
    <3>2. QED
      BY <2>4, <3>1, Zenon
  <2>10. <<>> = [j \in 1 .. 1 - 1 |-> store[c.keys[j]]]
    BY <2>1
  <2>11. Same(c, store, [x \in Keys |-> IF \E j \in 1 .. 1 - 1 : ShardOf[x] = ShardOf[c.keys[j]] THEN None ELSE store[x]])
    BY <2>1, Zenon DEF Same
  <2>12. \A j \in 1 .. 1 - 1 : FALSE
    BY <2>1, Zenon
  <2>13. QED
    BY <1>2, <2>5, <2>6, <2>7, <2>8, <2>9, <2>10, <2>11, <2>12, Zenon DEF Progress
<1>4. ASSUME c.name \in Scans PROVE Scanned(c, c.cursor, <<>>, store, behind, store, behind)
  BY <1>4, ShardsExist, ScannedBegin, Zenon
<1>5. Clear(c, behind, behind)
  BY Zenon DEF Clear
<1>6. QED
  BY <1>1, <1>2, <1>3, <1>4, <1>5, Zenon DEF Alone


-----------------------------------------------------------------------------
(* The invariant.                                                          *)

\* A worker's own step.
LEMMA WorkerAlone ==
    ASSUME NEW w \in Workers, Types, Serving(w), worker(w), w \notin met', w \notin met => Alone(w)
    PROVE  Alone(w)'
<1>1. CASE Handler(w)
  <2>1. Assigns(w)
    BY <1>1, HandlerFrame, Zenon
  <2>2. w \notin met /\ cmd' = cmd /\ base' = base /\ under' = under /\ pc[w] \notin {"idle", "done"} /\ pc'[w] # "idle"
    BY <2>1, Zenon DEF Assigns
  <2>a. Clear(cmd[w], under[w], behind) /\ Clear(cmd[w], under[w], behind')
    <3>1. Clear(cmd[w], under[w], behind)
      BY <2>2, Zenon DEF Alone
    <3>2. Footprint(w)
      BY WorkerFootprint, Zenon
    <3>3. QED
      BY <3>1, <3>2, Zenon DEF Clear, Footprint
  <2>3. CASE cmd[w].name \in Scans
    <3>1. cmd_scan(w)
      BY <1>1, <2>3, Zenon DEF Handler, set_nx, set_xx, Probe, cmd_set, cmd_get, cmd_type, cmd_vcget, Show, cmd_ttl, cmd_del,
         cmd_exists, cmd_mget, cmd_mset, cmd_flushdb, cmd_vcset, cmd_expire, cmd_persist, Require, Restore, cmd_incrby,
         cmd_append, cmd_rename, rename_del, rename_set, At, Scans, Counters
    <3>2. Scanned(cmd[w], i[w], acc[w], base[w], under[w], store, behind)
      BY <2>2, <2>3, Zenon DEF Alone
    <3>3. /\ Scanned(cmd[w], i'[w], acc'[w], base[w], under[w], store', behind')
          /\ pc'[w] = "done" => Listed(cmd[w], i'[w], acc'[w], base[w], under[w], reply'[w][1])
      BY <1>1, <3>1, <3>2, OwnScan, Zenon
    <3>4. QED
      BY <2>2, <2>a, <2>3, <3>3, Zenon DEF Alone
  <2>4. CASE cmd[w].name \notin Scans /\ ~Irregular(cmd[w])
    <3>1. Own(w)
      BY <1>1, <2>2, <2>a, <2>4, Zenon DEF Own, Alone
    <3>2. Keeps(w)
      BY <3>1, OwnKeeps, Zenon
    <3>3. QED
      BY <2>2, <2>a, <2>4, <3>2, Zenon DEF Keeps, Alone
  <2>5. CASE cmd[w].name \notin Scans /\ Irregular(cmd[w])
    BY <2>2, <2>a, <2>5, Zenon DEF Alone
  <2>6. QED
    BY <2>3, <2>4, <2>5, Zenon
<1>2. ASSUME NEW c \in Requests, vc_dispatch(w, c) PROVE Alone(w)'
  BY <1>2, DispatchAlone, Zenon
<1>3. CASE finish(w)
  <2>1. pc'[w] = "idle"
    BY <1>3, Zenon DEF finish, Goto, Types
  <2>2. QED
    BY <2>1, Zenon DEF Alone
<1>4. QED
  BY <1>1, <1>2, <1>3, Zenon DEF worker, Handler

\* The server starts with what earlier requests have left.
LEMMA InitInv == Init => CommandsInv
<1> SUFFICES ASSUME Init PROVE CommandsInv
  OBVIOUS
<1>1. /\ DOMAIN store = Keys /\ \A k \in Keys : Payload(store[k])
      /\ DOMAIN behind = Keys /\ \A k \in Keys : Entries(behind[k])
  <2>1. PICK s \in Stores : store = [k \in Keys |-> First(s[k])] /\ behind = [k \in Keys |-> Hidden(s[k])]
    BY Zenon DEF Init
  <2>2. \A k \in Keys : Entries(s[k])
    BY StoreAssumption, Zenon DEF Entries
  <2>3. \A k \in Keys : Payload(First(s[k])) /\ Entries(Hidden(s[k]))
    BY <2>2, LineParts, Zenon
  <2>4. QED
    BY <2>1, <2>3, Zenon
<1>2. Types
  BY <1>1, Zenon DEF Init, Types
<1>3. \A w \in Workers : pc[w] = "idle" /\ got[w] = None /\ acc[w] = <<>> /\ reply[w] = <<>>
  BY Zenon DEF Init
<1>4. \A w \in Workers : Serving(w)
  BY <1>3, PayloadNone, Zenon DEF Serving
<1>5. Apart /\ \A w \in Workers : Alone(w)
  BY <1>3, Zenon DEF Apart, Alone
<1>6. QED
  BY <1>2, <1>4, <1>5, Zenon DEF CommandsInv

\* Every step keeps the invariant.
LEMMA NextInv == CommandsInv /\ [Next]_vars => CommandsInv'
<1> SUFFICES ASSUME CommandsInv, [Next]_vars PROVE CommandsInv'
  OBVIOUS
<1>0. Types /\ Apart /\ \A u \in Workers : Serving(u) /\ (u \notin met => Alone(u))
  BY Zenon DEF CommandsInv
<1>1. ASSUME NEW w \in Workers, worker(w) PROVE CommandsInv'
  <2>1. Types' /\ Apart' /\ Serving(w)'
    BY <1>0, <1>1, WorkerTypes, WorkerServes, WorkerApart, Zenon
  <2>2. ASSUME NEW u \in Workers, u # w PROVE Serving(u)'
    <3>1. Frame(w)
      BY <1>0, <1>1, WorkerFrame, Zenon
    <3>2. /\ pc'[u] = pc[u] /\ cmd'[u] = cmd[u] /\ i'[u] = i[u] /\ got'[u] = got[u] /\ acc'[u] = acc[u]
          /\ reply'[u] = reply[u] /\ base'[u] = base[u]
      BY <2>2, <3>1, Zenon DEF Frame, Touches
    <3>3. Serving(u)
      BY <1>0, Zenon
    <3>4. QED
      BY <3>2, <3>3, Zenon DEF Serving
  <2>3. \A u \in Workers : Serving(u)'
    BY <2>1, <2>2, Zenon
  <2>4. ASSUME NEW u \in Workers, u \notin met' PROVE Alone(u)'
    <3>1. CASE u = w
      BY <1>0, <1>1, <2>4, <3>1, WorkerAlone, Zenon
    <3>2. CASE u # w
      BY <1>0, <1>1, <2>4, <3>2, OthersAlone, Zenon
    <3>3. QED
      BY <3>1, <3>2, Zenon
  <2>5. QED
    BY <2>1, <2>3, <2>4, Zenon DEF CommandsInv
<1>2. ASSUME NEW k \in Keys, lose(k) PROVE CommandsInv'
  <2>1. met \subseteq met' /\ UNCHANGED <<local, began>>
    BY <1>2, Zenon DEF lose
  <2>2. Types'
    BY <1>0, <1>2, <2>1, LoseFacts, Zenon DEF Types, local, began
  <2>3. \A u \in Workers : Serving(u)'
    BY <1>0, <2>1, Zenon DEF Serving, local, began
  <2>4. Apart'
    BY <1>0, <2>1, Zenon DEF Apart, local
  <2>5. ASSUME NEW u \in Workers, u \notin met' PROVE Alone(u)'
    BY <1>0, <1>2, <2>5, LoseAlone, Zenon
  <2>6. QED
    BY <2>2, <2>3, <2>4, <2>5, Zenon DEF CommandsInv
<1>3. CASE UNCHANGED vars
  <2>1. Types'
    BY <1>0, <1>3, Zenon DEF Types
  <2>2. Apart' /\ \A u \in Workers : Serving(u)'
    BY <1>0, <1>3, Zenon DEF Apart, Serving
  <2>3. \A u \in Workers : u \notin met' => Alone(u)'
    BY <1>0, <1>3, Zenon DEF Alone
  <2>4. QED
    BY <2>1, <2>2, <2>3, Zenon DEF CommandsInv
<1>4. QED
  BY <1>1, <1>2, <1>3, Zenon DEF Next, Finished

\* The invariant holds throughout.
LEMMA CommandsInvariant == Spec => []CommandsInv
  BY InitInv, NextInv, PTL DEF Spec

-----------------------------------------------------------------------------
(* What follows from it.                                                   *)

\* Every command ends with one reply, those of Counters apart, whatever other workers do
\* between its calls of the library.
THEOREM OneReplyCorrect == Spec => []OneReply
<1>1. CommandsInv => OneReply
  BY Zenon DEF CommandsInv, Serving, OneReply
<1>2. QED
  BY <1>1, CommandsInvariant, PTL

\* A command that keeps to shards of its own is atomic: its reply and its effect are those of
\* a single step on the store as it was when it began, but for what keys with other entries
\* behind the one lookups find are left with.
THEOREM IsolatedCorrect == Spec => []Isolated
<1>1. CommandsInv => Isolated
  BY Zenon DEF CommandsInv, Alone, Isolated
<1>2. QED
  BY <1>1, CommandsInvariant, PTL

\* A client that follows the cursors of SCAN misses no LIVE entry and gets none twice, but for
\* the scan that comes to its count at the end of a shard and the one that asks for 0 keys.
THEOREM ScanCoversCorrect == Spec => []ScanCovers
<1>1. ASSUME CommandsInv, NEW w \in Workers, pc[w] = "done", w \notin met, cmd[w].name \in Scans
      PROVE  LET r == reply[w][1]
                 from(cursor) == {e \in Cells : Lives(base[w], under[w], e) /\ Position(e) >= cursor}
                 ahead == IF r.n = 0 THEN {} ELSE from(r.n)
                 cut == EndsEarly(w) \/ cmd[w].n = 0 \/ (cmd[w].name = "KEYS" /\ Full(w)) IN
             /\ cut \/ from(cmd[w].cursor) \subseteq Range(r.vals) \cup ahead
             /\ Range(r.vals) \cap ahead = {} /\ IsInjective(r.vals)
             /\ \A e \in Range(r.vals) : Lives(base[w], under[w], e)
  <2> DEFINE c == cmd[w]
             n == i[w]
             a == acc[w]
             s == base[w]
             x == under[w]
             r == reply[w][1]
             ahead == IF r.n = 0 THEN {} ELSE From(s, x, r.n)
             cut == EndsEarly(w) \/ c.n = 0 \/ (c.name = "KEYS" /\ Full(w))
  <2>1. Scanned(c, n, a, s, x, store, behind) /\ Listed(c, n, a, s, x, r)
    BY <1>1, Zenon DEF CommandsInv, Alone
  <2>2. /\ n \in Nat /\ a \in Seq(Cells) /\ IsInjective(a)
        /\ \A e \in Range(a) : Position(e) < n /\ Lives(s, x, e)
        /\ From(s, x, c.cursor) \subseteq Range(a) \cup From(s, x, n)
    BY <2>1, Zenon DEF Scanned
  <2>3. r.vals = a
    BY <2>1, Zenon DEF Listed
  <2>4. (r.n = n /\ n # 0) \/ (r.n = 0 /\ (Cut(c, n, a) \/ From(s, x, n) = {}))
    BY <2>1, Zenon DEF Listed
  <2>5. Cut(c, n, a) => cut
    BY Zenon DEF Cut, EndsEarly, Full, Shard, Slot, Slots
  <2>6. Range(a) \cap From(s, x, n) = {}
    <3>1. \A p \in Nat : ~(p < n /\ p >= n)
      BY <2>2
    <3>2. \A e \in Cells : Position(e) \in Nat
      BY CellPosition, Zenon
    <3>3. QED
      BY <2>2, <3>1, <3>2, Zenon DEF From
  <2> HIDE DEF cut
  <2>7. cut \/ From(s, x, c.cursor) \subseteq Range(a) \cup ahead
    BY <2>2, <2>4, <2>5, Zenon
  <2>8. Range(a) \cap ahead = {}
    BY <2>4, <2>6, Zenon
  <2>9. QED
    BY <2>2, <2>3, <2>7, <2>8, Zenon DEF From, cut
<1>2. CommandsInv => ScanCovers
  BY <1>1, Zenon DEF ScanCovers
<1>3. QED
  BY <1>2, CommandsInvariant, PTL
=============================================================================
