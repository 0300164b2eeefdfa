------------------------------ MODULE Handlers ------------------------------
(***************************************************************************)
(* What the handlers of net/commands.c write to wbuf, as elements of the   *)
(* protocol: the replies c may get on a connection, one for every outcome  *)
(* of the calls its handler makes.  c is the argument vector, resp3 the    *)
(* connection's version.  Module Commands has what the key commands do.    *)
(***************************************************************************)
EXTENDS Proto

CONSTANT MaxFound  \* bound: keys or settings found by KEYS, SCAN and CONFIG GET

ASSUME FoundAssumption == MaxFound \in Nat

\* A word is an argument of one unit.
Word(arg) == IF Len(arg) = 1 THEN arg[1] ELSE "other"
Name(c) == Word(c[1])

\* strtoll: the digits the argument begins with, 0 if there are none.
Number(arg) ==
    LET stop == CHOOSE n \in 0 .. Len(arg) :
                    /\ \A i \in 1 .. n : arg[i] \in ToSet(Digits)
                    /\ n < Len(arg) => arg[n + 1] \notin ToSet(Digits) IN
    parse_int64(<<"0">> \o SubSeq(arg, 1, stop))

OK   == {resp_write_simple}
FAIL == {resp_write_error}
INT  == {resp_write_integer}
BULK == {resp_write_bulk}
NULLREPLY(resp3) == {resp_write_null_compat(resp3)}
EMPTY == {resp_write_array_header(0)}

\* The arguments are counted without the command's name.
ARGC_CHECK(c, mn, mx, replies) == IF Len(c) - 1 \in mn .. mx THEN replies ELSE FAIL

\* A handler that compares its first argument with the names of its subcommands.
Subcommand(c, replies) ==
    IF Len(c) < 2 \/ Word(c[2]) \notin DOMAIN replies THEN FAIL ELSE replies[Word(c[2])]

-----------------------------------------------------------------------------
cmd_ping(c) == IF Len(c) > 1 THEN BULK ELSE OK

cmd_select(c) == ARGC_CHECK(c, 1, 1, IF Number(c[2]) = 0 THEN OK ELSE FAIL)

cmd_client(c) ==
    IF Len(c) > 1 /\ Word(c[2]) \in {"NO-EVICT", "NO-TOUCH"} THEN OK
    ELSE Subcommand(c, [SETNAME |-> OK, GETNAME |-> BULK, ID |-> INT, UNPAUSE |-> OK, PAUSE |-> OK,
                        CACHING |-> OK, REPLY |-> OK, TRACKING |-> OK, INFO |-> BULK, LIST |-> BULK])

cmd_set(c, resp3) == IF Len(c) < 3 THEN FAIL ELSE OK \cup FAIL \cup NULLREPLY(resp3)

cmd_get(c, resp3) == ARGC_CHECK(c, 1, 1, BULK \cup FAIL \cup NULLREPLY(resp3))

\* DEL and EXISTS take one key or more.
cmd_del(c) == IF Len(c) < 2 THEN FAIL ELSE INT
cmd_exists(c) == IF Len(c) < 2 THEN FAIL ELSE INT

cmd_mget(c, resp3) ==
    IF Len(c) < 2 THEN FAIL
    ELSE {resp_write_array_header(Len(c) - 1) \o FlattenSeq(vals) :
            vals \in [1 .. Len(c) - 1 -> BULK \cup NULLREPLY(resp3)]}

cmd_mset(c) == IF Len(c) < 3 \/ Len(c) % 2 = 0 THEN FAIL ELSE OK

\* The typed payload is written before the number is stored, the integer after.
cmd_incrby(c) == ARGC_CHECK(c, 1, 2, {resp_write_bulk \o resp_write_integer})

cmd_keys(c) ==
    ARGC_CHECK(c, 1, 1, FAIL \cup {resp_write_array_header(nk) \o Bulks(nk) : nk \in 0 .. MaxFound})

\* The cursor and the array of keys.
cmd_scan ==
    {resp_write_array_header(2) \o resp_write_bulk \o resp_write_array_header(nk) \o Bulks(nk) :
        nk \in 0 .. MaxFound}

cmd_config(c) ==
    IF Len(c) >= 3 /\ Word(c[2]) = "GET"
    THEN {resp_write_array_header(nmatch * 2) \o Bulks(2 * nmatch) : nmatch \in 0 .. MaxFound}
    ELSE Subcommand(c, [SET |-> OK, RESETSTAT |-> OK])

cmd_command(c, resp3) ==
    LET n == Len(c) - 2 IN
    IF Len(c) < 2 THEN EMPTY
    ELSE CASE Word(c[2]) = "COUNT" -> INT
           [] Word(c[2]) = "DOCS" -> IF resp3 THEN {resp_write_map_header(0)} ELSE EMPTY
           [] Word(c[2]) = "INFO" ->
                {resp_write_array_header(n) \o FlattenSeq([i \in 1 .. n |-> resp_write_null_compat(resp3)])}
           [] OTHER -> EMPTY

VcTypes == {"int", "float", "bool", "json", "binary", "string"}

cmd_vcset(c) == IF Len(c) < 4 \/ Word(c[3]) \notin VcTypes THEN FAIL ELSE OK \cup FAIL

\* A map on every connection, with a double or a boolean in it if the value is one.
cmd_vcget(c, resp3) ==
    ARGC_CHECK(c, 1, 1,
        NULLREPLY(resp3) \cup
        {resp_write_map_header(2) \o Bulks(3) \o v :
            v \in {resp_write_integer, resp_write_double, resp_write_bool, resp_write_bulk}})

cmd_cluster(c) ==
    Subcommand(c, [INFO |-> BULK, MYID |-> BULK, NODES |-> BULK,
                   SLOTS |-> {resp_write_array_header(1) \o resp_write_array_header(3)
                                \o resp_write_integer \o resp_write_integer
                                \o resp_write_array_header(2) \o resp_write_bulk \o resp_write_integer}])

cmd_acl(c, resp3) ==
    Subcommand(c, [WHOAMI |-> BULK, CAT |-> {resp_write_array_header(4) \o Bulks(4)},
                   LIST |-> {resp_write_array_header(1) \o Bulks(1)}, GETUSER |-> NULLREPLY(resp3),
                   SETUSER |-> OK, DELUSER |-> OK, LOG |-> OK, RESET |-> OK])

cmd_latency(c) == Subcommand(c, [LATEST |-> EMPTY, HISTORY |-> EMPTY, RESET |-> INT, GRAPH |-> BULK])
cmd_slowlog(c) == Subcommand(c, [GET |-> EMPTY, LEN |-> INT, RESET |-> OK])
cmd_object(c) ==
    Subcommand(c, [ENCODING |-> BULK, REFCOUNT |-> INT, IDLETIME |-> INT, FREQ |-> INT, HELP |-> EMPTY])

-----------------------------------------------------------------------------
(* cmd_table, without the commands that change the connection.             *)

acl_needed(name) ==
    CASE name \in {"GET", "MGET", "EXISTS", "TTL", "PTTL", "TYPE", "DBSIZE", "KEYS", "SCAN", "INFO",
                   "VCGET", "VCINFO", "OBJECT", "XLEN", "SRANDMEMBER"} -> {"READ"}
      [] name \in {"SET", "MSET", "DEL", "EXPIRE", "PERSIST", "RENAME", "APPEND", "INCR", "DECR",
                   "INCRBY", "DECRBY", "VCSET"} -> {"WRITE"}
      [] name \in {"FLUSHDB", "FLUSHALL", "CONFIG", "DEBUG", "LATENCY", "SLOWLOG"} -> {"ADMIN"}
      [] OTHER -> {}

Counters == {"INCR", "DECR", "INCRBY", "DECRBY"}

\* The replies of the handler the table has for the command.
Handler(c, resp3) ==
    LET name == Name(c) IN
    CASE name = "PING" -> cmd_ping(c)
      [] name = "SELECT" -> cmd_select(c)
      [] name = "RESET" -> OK
      [] name = "CLIENT" -> cmd_client(c)
      [] name = "SET" -> cmd_set(c, resp3)
      [] name = "GET" -> cmd_get(c, resp3)
      [] name = "DEL" -> cmd_del(c)
      [] name = "EXISTS" -> cmd_exists(c)
      [] name \in {"EXPIRE", "APPEND"} -> ARGC_CHECK(c, 2, 2, INT \cup FAIL)
      [] name = "PERSIST" -> ARGC_CHECK(c, 1, 1, INT \cup FAIL)
      [] name \in {"TTL", "PTTL"} -> ARGC_CHECK(c, 1, 1, INT)
      [] name = "TYPE" -> ARGC_CHECK(c, 1, 1, OK)
      [] name = "RENAME" -> ARGC_CHECK(c, 2, 2, OK \cup FAIL)
      [] name = "MGET" -> cmd_mget(c, resp3)
      [] name = "MSET" -> cmd_mset(c)
      [] name \in Counters -> cmd_incrby(c)
      [] name = "KEYS" -> cmd_keys(c)
      [] name = "SCAN" -> cmd_scan
      [] name = "CONFIG" -> cmd_config(c)
      [] name = "COMMAND" -> cmd_command(c, resp3)
      [] name \in {"DBSIZE", "WAIT"} -> INT
      [] name \in {"INFO", "VCINFO"} -> BULK
      [] name \in {"FLUSHDB", "FLUSHALL", "DEBUG"} -> OK
      [] name = "VCSET" -> cmd_vcset(c)
      [] name = "VCGET" -> cmd_vcget(c, resp3)
      [] name = "CLUSTER" -> cmd_cluster(c)
      [] name = "ACL" -> cmd_acl(c, resp3)
      [] name = "LATENCY" -> cmd_latency(c)
      [] name = "SLOWLOG" -> cmd_slowlog(c)
      [] name = "OBJECT" -> cmd_object(c)
      [] OTHER -> FAIL
=============================================================================
