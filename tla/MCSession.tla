----------------------------- MODULE MCSession ------------------------------
(* Requests for TLC, as RESP arrays and as lines.                            *)
EXTENDS Session

\* A word is an argument of one unit.
Args(words) == [k \in DOMAIN words |-> <<words[k]>>]
BulkString(arg) == <<"$", Digits[Len(arg) + 1]>> \o CRLF \o arg \o CRLF
Spaced(words) == [k \in 1 .. 2 * Len(words) |-> IF k % 2 = 1 THEN words[(k + 1) \div 2] ELSE " "]

Array2(x, y, argv) == [wire |-> <<"*", "2">> \o CRLF \o BulkString(x) \o BulkString(y), argv |-> argv]
Line(words) == [wire |-> Spaced(words) \o CRLF, argv |-> Args(words)]
Broken(bytes) == [wire |-> bytes, argv |-> Bad]

\* Requests that matter to the ones after them: they change the session, or their
\* bytes are hard to tell apart.  A line of six words loses the last one.
Openers ==
    {Array2(<<"HELLO">>, <<"3">>, Args(<<"HELLO", "3">>)),
     Array2(<<"PING">>, VC_WIRE_MAGIC \o <<"t", "*">>, <<<<"PING">>, <<"*">>>>),
     [wire |-> <<"*", "4">> \o CRLF \o BulkString(<<"COMMAND">>) \o BulkString(<<"INFO">>) \o BulkString(CRLF)
                 \o BulkString(<<>>),
      argv |-> <<<<"COMMAND">>, <<"INFO">>, CRLF, <<>>>>],
     [wire |-> <<"*", "0">> \o CRLF, argv |-> <<>>],
     [wire |-> <<" ", "RESET", LF>>, argv |-> Args(<<"RESET">>)],
     [wire |-> Spaced(<<"PING", "1", "2", "3", "4", "5">>) \o CRLF, argv |-> Args(<<"PING", "1", "2", "3", "4">>)],
     Line(<<"HELLO">>), Line(<<"HELLO", "4">>), Line(<<"QUIT">>), Line(<<"AUTH", "d">>),
     Line(<<"HELLO", "3", "AUTH", "u", "p">>), Line(<<"HELLO", "3", "AUTH", "u", "d">>),
     Broken(<<" ", CR, LF>>)}

\* One for every reply a handler has, and for every way to break the protocol.
Finals ==
    {Broken(<<"*", "9", CR, LF>>), Broken(<<"*", "x", CR, LF>>), Broken(<<"*", "1", CR, LF, "$", "9", CR, LF>>),
     Broken(<<"*", "1", CR, LF, ":", "1", CR, LF>>)}
      \cup {Line(<<name>>) : name \in {"AUTH", "SELECT", "CLIENT", "GET", "MGET", "SCAN", "DBSIZE", "INFO", "VCINFO",
                                      "COMMAND", "FLUSHALL", "DEBUG", "WAIT", "XLEN", "NONE"}}
      \cup {Line(<<name, "x">>) : name \in {"SELECT", "CLIENT", "GET", "DEL", "EXISTS", "TTL", "TYPE", "PERSIST",
                                          "INCR", "KEYS", "VCGET", "AUTH"}}
      \cup {Line(<<name, "x", "y">>) : name \in {"MGET", "SET", "EXPIRE", "APPEND", "RENAME", "MSET", "DECRBY", "AUTH"}}
      \cup {Line(<<"CLIENT", s>>) : s \in {"ID", "LIST", "NO-EVICT"}}
      \cup {Line(<<"CONFIG", s, "x">>) : s \in {"GET", "SET", "NONE"}}
      \cup {Line(<<"COMMAND", s, "x">>) : s \in {"COUNT", "DOCS", "INFO", "LIST"}}
      \cup {Line(<<"CLUSTER", s>>) : s \in {"MYID", "SLOTS", "NONE"}}
      \cup {Line(<<"ACL", s>>) : s \in {"WHOAMI", "CAT", "LIST", "GETUSER", "LOG"}}
      \cup {Line(<<"LATENCY", s>>) : s \in {"LATEST", "RESET", "GRAPH"}}
      \cup {Line(<<"SLOWLOG", s>>) : s \in {"GET", "LEN", "RESET"}}
      \cup {Line(<<"OBJECT", s>>) : s \in {"ENCODING", "FREQ", "HELP"}}
      \cup {Line(<<"VCSET", "x", t, "y">>) : t \in {"json", "NONE"}}
      \cup {Line(<<"AUTH", "u", "p">>)}

MCRequests ==
    {[wire |-> q.wire, argv |-> q.argv, last |-> q \notin Openers] : q \in Openers \cup Finals}

\* The legacy form of AUTH is for the user "default".
MCUsers ==
    <<[name |-> <<"u">>, pass |-> <<"p">>, acl |-> {"READ", "WRITE", "ADMIN"}],
      [name |-> <<"default">>, pass |-> <<"d">>, acl |-> {"READ"}]>>
=============================================================================
