----------------------------- MODULE MCCommands -----------------------------
(* Requests and shards for TLC: ka and kb share a shard, kc has its own.     *)
EXTENDS Commands, TLC

CONSTANTS ka, kb, kc

MCTable == <<<<<<ka, 2>>, <<ka, 3>>, <<kb, 1>>, <<ka, 1>>>>, <<<<kc, 1>>>>>>

Five  == Value("string", 0, <<5>>, 0)
Eight == <<Value("string", 0, <<8>>, 0)>>
MCStores ==
    {[k \in Keys |-> IF k = kb THEN <<>> ELSE IF k = kc THEN p[2] ELSE p[1]] :
        p \in {<<<<>>, Eight>>, <<<<Five>>, Eight>>, <<<<Expired>>, <<>>>>, <<<<Expired, Five>>, Eight>>,
               <<<<Value("string", 0, <<Letter>>, 9000)>>, <<>>>>, <<<<Value("integer", 6, <<>>, 0)>>, Eight>>,
               <<<<Value("json", 0, <<7>>, 0), Five>>, <<>>>>}}

WorkerSymmetry == Permutations(Workers)

Req(name, keys, args, n, flags, type) ==
    [name |-> name, keys |-> keys, args |-> args, n |-> n, flags |-> flags, type |-> type]
Plain(name, keys, args, n) == Req(name, keys, args, n, {}, "string")
Scan(name, cursor, n) ==
    [name |-> name, keys |-> <<ka, kb, kc>>, args |-> <<>>, n |-> n, cursor |-> cursor]

MCRequests ==
    {Req("SET", <<ka>>, <<<<1>>>>, 0, f, "string") : f \in SUBSET {"NX", "XX"}}
      \cup {Plain("SET", <<kc>>, <<<<1>>>>, 0), Plain("SET", <<ka>>, <<<<>>>>, 5)}
      \cup {Req("SET", <<ka>>, <<<<2, Letter>>>>, 2000, {"PX"}, "string")}
      \cup {Plain("GET", <<k>>, <<>>, 0) : k \in {ka, kc}}
      \cup {Plain(name, <<ka>>, <<>>, 0) : name \in {"PERSIST", "TTL", "TYPE", "VCGET"}}
      \cup {Plain(name, <<ka, kc>>, <<>>, 0) : name \in {"DEL", "EXISTS", "MGET", "FLUSHDB"}}
      \cup {Plain(name, <<ka, ka>>, <<>>, 0) : name \in {"DEL", "EXISTS"}}
      \cup {Plain("MSET", <<ka, kc>>, <<<<3>>, <<>>>>, 0), Plain("MSET", <<kc, kc>>, <<<<3>>, <<4>>>>, 0)}
      \cup {Plain("EXPIRE", <<ka>>, <<>>, n) : n \in {7, -1}}
      \cup {Plain(name, <<ka>>, <<>>, 0) : name \in {"INCR", "DECR"}}
      \cup {Plain("INCRBY", <<ka>>, <<<<2>>>>, 2), Plain("APPEND", <<ka>>, <<<<6>>>>, 0)}
      \cup {Plain("RENAME", <<ka, y>>, <<>>, 0) : y \in {ka, kb, kc}}
      \cup {Req("VCSET", <<ka>>, <<<<8>>>>, 8, {}, t) : t \in {"integer", "json"}}
      \cup {Scan("SCAN", 0, 0), Scan("SCAN", 0, 1), Scan("SCAN", 0, 2), Scan("SCAN", 1, 1), Scan("KEYS", 0, 2)}
=============================================================================
