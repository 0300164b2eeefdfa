------------------------------ MODULE Cluster ------------------------------
(***************************************************************************)
(* The client's routing layer: vc_cluster_connect, vc_cluster_cmd with     *)
(* redirection and retries, vc_cluster_refresh, the connection pool of     *)
(* each node and the health thread, against nodes that crash, come back    *)
(* and hand the slot over to one another.                                  *)
(*                                                                         *)
(* One slot stands for all: slots share nothing but the map's lock.  A     *)
(* node answers a request when it is sent, and the reply waits in the      *)
(* connection.  TLS and AUTH are left out.                                 *)
(***************************************************************************)
EXTENDS Integers, Sequences

CONSTANTS
    Callers,                 \* threads that call vc_cluster_cmd
    Nodes,                   \* the nodes of the cluster
    Nowhere, Elsewhere,      \* the addresses misread from a "flat" reply
    Seeds,                   \* the sequence of seed nodes
    Formats,                 \* of the reply to CLUSTER SLOTS: "nested", "flat"
    Replies,                 \* to commands: "line", "array", "twice", "map", "null"
    VC_CLUSTER_MAX_NODES, VC_CLUSTER_MAX_CONNS, VC_CLUSTER_MAX_RETRIES,
    MaxCalls,                \* bound: calls of vc_cluster_cmd
    MaxCrashes, MaxMoves     \* bounds: crashes of nodes, moves of the slot

Main   == "main"             \* the thread in vc_cluster_connect
Health == "health"
Threads == Callers \cup {Main, Health}
None   == "none"
Blank  == "blank"            \* the name of a node not initialised yet
Index  == 1 .. VC_CLUSTER_MAX_NODES
Pool   == 1 .. VC_CLUSTER_MAX_CONNS

ASSUME ClusterAssumption ==
    /\ Callers \cap {Main, Health, None} = {}
    /\ {Nowhere, Elsewhere, Blank, None} \cap Nodes = {} /\ Nowhere # Elsewhere
    /\ Seeds \in Seq(Nodes) /\ Seeds # <<>> /\ Len(Seeds) <= VC_CLUSTER_MAX_NODES
    /\ {VC_CLUSTER_MAX_NODES, VC_CLUSTER_MAX_CONNS, VC_CLUSTER_MAX_RETRIES} \subseteq Nat \ {0}

VARIABLES
    up, owner, format,       \* the nodes: who runs, who owns the slot
    crashes, moves, calls,   \* what the bounds count
    node_count, host, alive, \* cl->nodes: a count and two fields per index
    conns,                   \* per index: the pool
    pool_lock,               \* per index: the holder
    slot_map,                \* index of the slot's node, 0 = unassigned
    topology_lock,           \* the writer
    th,                      \* per thread: program counter and variables
    met                      \* history: faults of the client met so far

world == <<up, owner, format, crashes, moves>>
table == <<node_count, host, alive>>
locks == <<pool_lock, topology_lock>>
vars  == <<world, calls, table, conns, locks, slot_map, th, met>>

-----------------------------------------------------------------------------
(* A pool entry: fd (open or -1), in_use, the state of the connection ("up", *)
(* "fin" closed by the node, "rst" reset) and the replies not read yet.      *)
Closed == [fd |-> -1, in_use |-> FALSE, link |-> "up", unread |-> <<>>]
Opened == [fd |-> 1, in_use |-> TRUE, link |-> "up", unread |-> <<>>]

\* The memory of an entry before node_find_or_add sets fd to -1: descriptor
\* 0, which is not a socket, so that a send on it fails.
Zeroed == [fd |-> 0, in_use |-> FALSE, link |-> "rst", unread |-> <<>>]

\* op: what the thread is doing, and r: whether inside vc_cluster_refresh;
\* ni, attempt: of vc_cluster_cmd (ni is i in health_thread); at, nc: the node
\* and the entry in use; name, idx: of node_find_or_add; id, res: the call's
\* number and result.
Idle(id, res) == [pc |-> "idle", op |-> None, r |-> FALSE, ni |-> 0, attempt |-> 0,
                  at |-> 0, nc |-> 0, name |-> None, idx |-> 0, id |-> id, res |-> res]
Result(says) == [to |-> 0, says |-> says, name |-> None]
NoResult == Result(None)

\* vc_cluster_connect has parsed the seeds and calls vc_cluster_refresh.
Init ==
    /\ up = [n \in Nodes |-> TRUE] /\ owner \in Nodes /\ format \in Formats
    /\ crashes = 0 /\ moves = 0 /\ calls = 0
    /\ node_count = Len(Seeds)
    /\ host = [x \in Index |-> IF x <= Len(Seeds) THEN Seeds[x] ELSE Blank]
    /\ alive = [x \in Index |-> x <= Len(Seeds)]
    /\ conns = [x \in Index |-> [c \in Pool |-> IF x <= Len(Seeds) THEN Closed ELSE Zeroed]]
    /\ pool_lock = [x \in Index |-> None]
    /\ slot_map = 0 /\ topology_lock = None
    /\ th = [t \in Threads |-> IF t = Main
                               THEN [Idle(0, NoResult) EXCEPT !.pc = "next", !.op = "connect", !.r = TRUE]
                               ELSE Idle(0, NoResult)]
    /\ met = {}

Connected == th[Main].pc = "idle"
Known == 1 .. node_count
Conn(t) == conns[th[t].at][th[t].nc]

\* Where a loop over indices that looks for one of S ends.
First(S) == {x \in S : \A y \in S : x <= y}

Meet(fault, cond) == met' = IF cond THEN met \cup {fault} ELSE met

-----------------------------------------------------------------------------
(* Where a thread goes on: the value of th'.                               *)
Goto(t, l) == [th EXCEPT ![t].pc = l]
Enter(t, l, inside) == [th EXCEPT ![t].pc = l, ![t].r = inside, ![t].at = 0, ![t].nc = 0,
                                  ![t].name = None, ![t].idx = 0]
Return(t, res) == [th EXCEPT ![t] = Idle(th[t].id, res)]

\* The next attempt of vc_cluster_cmd, the next node of health_thread, a call
\* of vc_cluster_refresh, and the next node of its loop.
Retry(t) == [Enter(t, "pick", FALSE) EXCEPT ![t].attempt = @ + 1]
NextPing(t) == Enter(t, "idle", FALSE)
Refresh(t) == Enter(t, "next", TRUE)
NextNode(t) == [th EXCEPT ![t].pc = "next", ![t].nc = 0]

\* vc_cluster_refresh returns.
Refreshed(t) ==
    CASE th[t].op = "cmd" -> Retry(t)
      [] th[t].op = "ping" -> NextPing(t)
      [] OTHER -> Return(t, NoResult)

\* No connection, or a failed send.
Failed(t) ==
    IF th[t].r THEN NextNode(t) ELSE IF th[t].op = "cmd" THEN Retry(t) ELSE Refresh(t)

-----------------------------------------------------------------------------
(* The pool.  A thread at "get" wants a connection to node th[t].at.       *)

\* Fault: the idle connection taken is not marked.
node_conn_get_unmarked(t) ==
    LET x == th[t].at
        idle == {c \in Pool : ~conns[x][c].in_use /\ conns[x][c].fd >= 0} IN
    /\ th[t].pc = "get" /\ pool_lock[x] = None
    /\ \/ \E c \in First(idle) :
             /\ conns' = conns
             /\ th' = [Goto(t, "send") EXCEPT ![t].nc = c]
             /\ Meet("raced", host[x] = Blank)
             /\ UNCHANGED pool_lock
       \/ /\ idle = {}
          /\ pool_lock' = [pool_lock EXCEPT ![x] = t]
          /\ th' = Goto(t, "open")
          /\ UNCHANGED <<conns, met>>
    /\ UNCHANGED <<world, calls, table, topology_lock, slot_map>>

\* The first loop: an idle connection.
node_conn_get(t) ==
    LET x == th[t].at
        idle == {c \in Pool : ~conns[x][c].in_use /\ conns[x][c].fd >= 0} IN
    /\ th[t].pc = "get" /\ pool_lock[x] = None
    /\ \/ \E c \in First(idle) :
             /\ conns' = [conns EXCEPT ![x][c].in_use = TRUE]
             /\ th' = [Goto(t, "send") EXCEPT ![t].nc = c]
             /\ Meet("raced", host[x] = Blank)
             /\ UNCHANGED pool_lock
       \/ /\ idle = {}
          /\ pool_lock' = [pool_lock EXCEPT ![x] = t]
          /\ th' = Goto(t, "open")
          /\ UNCHANGED <<conns, met>>
    /\ UNCHANGED <<world, calls, table, topology_lock, slot_map>>

\* The second loop: the first entry without a connection gets one.  When
\* there is none, or the node does not answer, the caller gets NULL and,
\* except in vc_cluster_refresh, takes the node for dead.
node_conn_open(t) ==
    LET x == th[t].at
        vacant == {c \in Pool : conns[x][c].fd < 0}
        there == host[x] \in Nodes /\ up[host[x]] IN
    /\ th[t].pc = "open"
    /\ pool_lock' = [pool_lock EXCEPT ![x] = None]
    /\ \/ \E c \in First(vacant) :
             /\ there
             /\ conns' = [conns EXCEPT ![x][c] = Opened]
             /\ th' = [Goto(t, "send") EXCEPT ![t].nc = c]
             /\ Meet("raced", conns[x][c].in_use)
             /\ UNCHANGED alive
       \/ /\ vacant = {} \/ ~there
          /\ alive' = [alive EXCEPT ![x] = th[t].r /\ @]
          /\ th' = Failed(t)
          /\ Meet("hindered", there)
          /\ UNCHANGED conns
    /\ UNCHANGED <<world, calls, node_count, host, topology_lock, slot_map>>

\* node_conn_close after a failed send, or a failed read in
\* vc_cluster_refresh: fd is -1 already, in_use follows.
node_conn_close(t) ==
    /\ th[t].pc \in {"close", "drop"}
    /\ conns' = [conns EXCEPT ![th[t].at][th[t].nc].in_use = FALSE]
    /\ alive' = [alive EXCEPT ![th[t].at] = th[t].pc = "close" /\ @]
    /\ th' = Failed(t)
    /\ UNCHANGED <<world, calls, node_count, host, locks, slot_map, met>>

-----------------------------------------------------------------------------
(* Requests and replies.                                                   *)
Msg(t, says, name) == [to |-> th[t].id, says |-> says, name |-> name]

\* The reply to a command: one line or bulk; the header of an array and its
\* elements; two replies, as cmd_incrby sends them; a map, as cmd_vcget sends it,
\* of which resp_read_reply knows no type (a line too long for it is left in the
\* same way); one line of such a type, as a null is after HELLO 3.
Lines(t, reply) ==
    CASE reply = "line"  -> <<Msg(t, "data", None)>>
      [] reply = "array" -> <<Msg(t, "header", None), Msg(t, "element", None)>>
      [] reply = "twice" -> <<Msg(t, "data", None), Msg(t, "element", None)>>
      [] reply = "map"   -> <<Msg(t, "other", None), Msg(t, "element", None)>>
      [] OTHER           -> <<Msg(t, "other", None)>>

\* What node n sends for a request: the map, a PONG, a redirection when the
\* slot is another's (nodes of "flat" format never redirect), or the reply.
Answer(t, n, reply) ==
    IF th[t].r THEN <<Msg(t, "slots", owner)>>
    ELSE IF th[t].op = "ping" THEN <<Msg(t, "pong", None)>>
    ELSE IF format = "nested" /\ owner # n THEN <<Msg(t, "moved", owner)>>
    ELSE Lines(t, reply)

\* On a connection the node has closed, the first send still succeeds.
sock_sendall(t) ==
    LET x == th[t].at
        c == th[t].nc IN
    /\ th[t].pc = "send"
    /\ \/ /\ Conn(t).fd < 0 \/ Conn(t).link = "rst"
          /\ conns' = [conns EXCEPT ![x][c].fd = -1]
          /\ th' = Goto(t, "drop")
       \/ /\ Conn(t).fd >= 0 /\ Conn(t).link = "fin"
          /\ conns' = [conns EXCEPT ![x][c].link = "rst", ![x][c].unread = <<>>]
          /\ th' = Goto(t, "read")
       \/ /\ Conn(t).fd >= 0 /\ Conn(t).link = "up"
          /\ \E reply \in Replies :
                conns' = [conns EXCEPT ![x][c].unread = @ \o Answer(t, host[x], reply)]
          /\ th' = Goto(t, "read")
    /\ UNCHANGED <<world, calls, table, locks, slot_map, met>>

Readable(t) == Conn(t).fd >= 0 /\ Conn(t).unread # <<>>
Failing(t) == Conn(t).fd < 0 \/ (Conn(t).unread = <<>> /\ Conn(t).link # "up")

\* resp_read_reply takes one line; node_conn_release leaves the rest.
Released(t) == [conns EXCEPT ![th[t].at][th[t].nc].in_use = FALSE,
                             ![th[t].at][th[t].nc].unread = IF @ = <<>> THEN @ ELSE Tail(@)]

\* vc_cluster_cmd from resp_read_reply on: the node is dead or its reply of an
\* unknown type, the slot has moved, or this is the reply.  The connection goes
\* back to the pool first, with what is left of the reply.
read_reply(t) ==
    LET msg == Head(Conn(t).unread)
        rest == Tail(Conn(t).unread) IN
    /\ th[t].pc = "read" /\ ~th[t].r /\ th[t].op = "cmd"
    /\ conns' = Released(t)
    /\ \/ /\ Failing(t)
          /\ alive' = [alive EXCEPT ![th[t].at] = FALSE]
          /\ th' = Retry(t)
          /\ UNCHANGED met
       \/ /\ Readable(t) /\ msg.says = "other"
          /\ alive' = [alive EXCEPT ![th[t].at] = FALSE]
          /\ th' = Retry(t)
          /\ Meet(IF rest = <<>> THEN "hindered" ELSE "skewed", TRUE)
       \/ /\ Readable(t) /\ msg.says # "other"
          /\ th' = IF msg.says = "moved" THEN [Enter(t, "find", FALSE) EXCEPT ![t].name = msg.name]
                   ELSE Return(t, msg)
          /\ Meet("skewed", rest # <<>>)
          /\ UNCHANGED alive
    /\ UNCHANGED <<world, calls, node_count, host, locks, slot_map>>

\* Fault: the reply to PING is not read.
read_pong_unread(t) ==
    /\ th[t].pc = "read" /\ ~th[t].r /\ th[t].op = "ping"
    /\ Readable(t) \/ Failing(t)
    /\ conns' = [conns EXCEPT ![th[t].at][th[t].nc].in_use = FALSE]
    /\ alive' = [alive EXCEPT ![th[t].at] = TRUE]
    /\ th' = NextPing(t)
    /\ UNCHANGED <<world, calls, node_count, host, locks, slot_map, met>>

\* Fault: the node is not marked alive again.
read_pong_dead(t) ==
    /\ th[t].pc = "read" /\ ~th[t].r /\ th[t].op = "ping"
    /\ Readable(t) \/ Failing(t)
    /\ conns' = Released(t)
    /\ th' = NextPing(t)
    /\ UNCHANGED <<world, calls, table, locks, slot_map, met>>

\* health_thread takes the node for alive whether or not a reply arrives.
read_pong(t) ==
    /\ th[t].pc = "read" /\ ~th[t].r /\ th[t].op = "ping"
    /\ Readable(t) \/ Failing(t)
    /\ conns' = Released(t)
    /\ alive' = [alive EXCEPT ![th[t].at] = TRUE]
    /\ th' = NextPing(t)
    /\ UNCHANGED <<world, calls, node_count, host, locks, slot_map, met>>

\* vc_cluster_refresh reads the first line: none, not an array, or "*N".
read_header(t) ==
    /\ th[t].pc = "read" /\ th[t].r
    /\ \/ /\ Failing(t)
          /\ conns' = [conns EXCEPT ![th[t].at][th[t].nc].fd = -1]
          /\ th' = Goto(t, "close")
       \/ /\ Readable(t) /\ Head(Conn(t).unread).says \notin {"slots", "header"}
          /\ conns' = Released(t)
          /\ th' = NextNode(t)
       \/ /\ Readable(t) /\ Head(Conn(t).unread).says \in {"slots", "header"}
          /\ th' = Goto(t, "lock")
          /\ UNCHANGED conns
    /\ UNCHANGED <<world, calls, table, locks, slot_map, met>>

-----------------------------------------------------------------------------
(* vc_cluster_refresh and node_find_or_add.                                *)

\* The loop goes to the next node that is alive, or fails: connecting to a
\* single node then maps every slot to it.
vc_cluster_refresh(t) ==
    LET ahead == {x \in Known : x > th[t].at /\ alive[x]} IN
    /\ th[t].pc = "next"
    /\ \/ \E x \in First(ahead) :
             /\ th' = [Goto(t, "get") EXCEPT ![t].at = x]
             /\ UNCHANGED slot_map
       \/ /\ ahead = {}
          /\ th' = Refreshed(t)
          /\ slot_map' = IF th[t].op = "connect" /\ node_count = 1 THEN 1 ELSE slot_map
    /\ UNCHANGED <<world, calls, table, conns, locks, met>>

\* The map is cleared under the lock, which is kept until the reply is read.
refresh_lock(t) ==
    /\ th[t].pc = "lock" /\ topology_lock = None
    /\ topology_lock' = t
    /\ slot_map' = 0
    /\ th' = Goto(t, "range")
    /\ UNCHANGED <<world, calls, table, conns, pool_lock, met>>

\* The range is read and its first address is looked up.  In a "flat" reply
\* that is made up of two of its lines.  A connection lost before the range leaves the map
\* cleared.
refresh_range(t) ==
    LET msg == Head(Conn(t).unread) IN
    /\ th[t].pc = "range"
    /\ \/ /\ Readable(t) /\ msg.says = "slots"
          /\ th' = [Goto(t, "find") EXCEPT ![t].name = IF format = "flat" THEN Nowhere ELSE msg.name]
          /\ UNCHANGED <<conns, topology_lock>>
       \/ /\ Failing(t)
          /\ topology_lock' = None
          /\ conns' = Released(t)
          /\ th' = Refreshed(t)
    /\ UNCHANGED <<world, calls, table, pool_lock, slot_map, met>>

\* Fault: after MOVED the same node is tried again.
Found_ignored(t, x) ==
    IF th[t].r THEN [Goto(t, "found") EXCEPT ![t].idx = x] ELSE Refresh(t)

\* What node_find_or_add returns is the slot's owner in vc_cluster_refresh;
\* after MOVED it is the next node to try, and the map is refreshed first.
Found(t, x) ==
    IF th[t].r THEN [Goto(t, "found") EXCEPT ![t].idx = x] ELSE [Refresh(t) EXCEPT ![t].ni = x]

\* The search, and the index of a new node from the count as read here; no
\* lock is common to all callers.
node_find_or_add(t) ==
    LET same == {x \in Known : host[x] = th[t].name} IN
    /\ th[t].pc = "find"
    /\ \/ \E x \in First(same) : th' = Found(t, x)
       \/ /\ same = {}
          /\ th' = IF node_count >= VC_CLUSTER_MAX_NODES THEN Found(t, 0)
                   ELSE [Goto(t, "count") EXCEPT ![t].idx = node_count + 1]
    /\ Meet("hindered", same = {} /\ node_count >= VC_CLUSTER_MAX_NODES)
    /\ UNCHANGED <<world, calls, table, conns, locks, slot_map>>

\* cl->node_count is stored before the node is initialised.  Another thread may have
\* added a node since it was read.
node_count_store(t) ==
    /\ th[t].pc = "count"
    /\ node_count' = th[t].idx
    /\ Meet("hindered", th[t].idx # node_count + 1)
    /\ th' = Goto(t, "init")
    /\ UNCHANGED <<world, calls, host, alive, conns, locks, slot_map>>

node_init(t) ==
    LET x == th[t].idx IN
    /\ th[t].pc = "init"
    /\ host' = [host EXCEPT ![x] = th[t].name]
    /\ alive' = [alive EXCEPT ![x] = TRUE]
    /\ conns' = [conns EXCEPT ![x] = [c \in Pool |-> [@[c] EXCEPT !.fd = -1]]]
    /\ Meet("raced", host[x] # Blank)
    /\ th' = Found(t, x)
    /\ UNCHANGED <<world, calls, node_count, locks, slot_map>>

\* The address looked up is the one of those misread.
Misread(t, name) == format = "flat" /\ th[t].name = name

\* The lines of a "flat" reply end within the second address: the rest of it is
\* waited for until the node closes the connection.  Then it is looked up too;
\* the slot's owner is the first (put into the map, which no thread sees before
\* the lock is given back).
refresh_second(t) ==
    /\ th[t].pc = "found" /\ Misread(t, Nowhere) /\ Conn(t).link # "up"
    /\ slot_map' = IF th[t].idx > 0 THEN th[t].idx ELSE slot_map
    /\ th' = [Goto(t, "find") EXCEPT ![t].name = Elsewhere]
    /\ UNCHANGED <<world, calls, table, conns, locks, met>>

\* Fault: topology_lock is not released.
refresh_set_locked(t) ==
    /\ th[t].pc = "found" /\ ~Misread(t, Nowhere)
    /\ slot_map' = IF th[t].idx > 0 /\ ~Misread(t, Elsewhere) THEN th[t].idx ELSE slot_map
    /\ conns' = Released(t)
    /\ th' = Refreshed(t)
    /\ UNCHANGED <<world, calls, table, locks, met>>

\* The index is the slot's new owner; the lock and the connection are given
\* back.
refresh_set(t) ==
    /\ th[t].pc = "found" /\ ~Misread(t, Nowhere)
    /\ slot_map' = IF th[t].idx > 0 /\ ~Misread(t, Elsewhere) THEN th[t].idx ELSE slot_map
    /\ topology_lock' = None
    /\ conns' = Released(t)
    /\ th' = Refreshed(t)
    /\ UNCHANGED <<world, calls, table, pool_lock, met>>

-----------------------------------------------------------------------------
(* vc_cluster_cmd and health_thread.                                       *)
\* A call begins.
vc_cluster_cmd(t) ==
    /\ th[t].pc = "idle" /\ Connected /\ calls < MaxCalls
    /\ calls' = calls + 1
    /\ th' = [th EXCEPT ![t] = [Idle(calls + 1, NoResult) EXCEPT !.pc = "slot", !.op = "cmd"]]
    /\ UNCHANGED <<world, table, conns, locks, slot_map, met>>

\* The slot's node is read under the lock, which the call waits for.
vc_cluster_node_for_slot(t) ==
    /\ th[t].pc = "slot" /\ topology_lock = None
    /\ th' = IF slot_map = 0 THEN Return(t, Result("nonode"))
             ELSE [Goto(t, "pick") EXCEPT ![t].ni = slot_map]
    /\ UNCHANGED <<world, calls, table, conns, locks, slot_map, met>>

\* An attempt: the node, or another one when it is dead.
cmd_attempt(t) ==
    LET others == {x \in Known : alive[x]}
        dead == th[t].ni \in Known /\ ~alive[th[t].ni] IN
    /\ th[t].pc = "pick"
    /\ \E ni \in IF dead /\ others # {} THEN First(others) ELSE {th[t].ni} :
       th' = IF th[t].attempt >= VC_CLUSTER_MAX_RETRIES THEN Return(t, Result("net"))
             ELSE IF ni \notin Known \/ ~alive[ni] THEN Return(t, Result("nonode"))
             ELSE [Goto(t, "get") EXCEPT ![t].ni = ni, ![t].at = ni]
    /\ UNCHANGED <<world, calls, table, conns, locks, slot_map, met>>

\* The health thread's loop over the nodes, which starts again after a sleep.
\* A dead node is not passed over: the sleep of VC_CLUSTER_PING_INTVL is longer
\* than the longest back-off, and last_seen_ns is never set between two visits.
health_thread(t) ==
    LET x == th[t].ni + 1 IN
    /\ t = Health /\ th[t].pc = "idle" /\ Connected
    /\ th' = IF x \in Known THEN [Goto(t, "get") EXCEPT ![t].op = "ping", ![t].ni = x, ![t].at = x]
             ELSE [th EXCEPT ![t].ni = 0]
    /\ UNCHANGED <<world, calls, table, conns, locks, slot_map, met>>

-----------------------------------------------------------------------------
(* The nodes.                                                              *)
Cut(e, link) == IF e.fd < 1 \/ e.link # "up" THEN e
                ELSE [e EXCEPT !.link = link, !.unread = IF link = "fin" THEN @ ELSE <<>>]

crash(n) ==
    /\ up[n] /\ crashes < MaxCrashes
    /\ up' = [up EXCEPT ![n] = FALSE] /\ crashes' = crashes + 1
    /\ \E link \in {"fin", "rst"} :
          conns' = [x \in Index |-> IF host[x] # n THEN conns[x]
                                    ELSE [c \in Pool |-> Cut(conns[x][c], link)]]
    /\ UNCHANGED <<owner, format, moves, calls, table, locks, slot_map, th, met>>

restart(n) ==
    /\ ~up[n]
    /\ up' = [up EXCEPT ![n] = TRUE]
    /\ UNCHANGED <<owner, format, crashes, moves, calls, table, conns, locks, slot_map, th, met>>

move_slot(n) ==
    /\ up[n] /\ owner # n /\ moves < MaxMoves
    /\ owner' = n /\ moves' = moves + 1
    /\ UNCHANGED <<up, format, crashes, calls, table, conns, locks, slot_map, th, met>>

-----------------------------------------------------------------------------
step(t) ==
    \/ node_conn_get(t) \/ node_conn_open(t) \/ node_conn_close(t)
    \/ sock_sendall(t) \/ read_reply(t) \/ read_pong(t) \/ read_header(t)
    \/ vc_cluster_refresh(t) \/ refresh_lock(t) \/ refresh_range(t)
    \/ refresh_second(t) \/ refresh_set(t)
    \/ node_find_or_add(t) \/ node_count_store(t) \/ node_init(t)
    \/ vc_cluster_node_for_slot(t) \/ cmd_attempt(t) \/ health_thread(t)

Sound == met \cap {"raced", "skewed"} = {}

\* The model ends where the client has met one of its faults.
Next ==
    /\ Sound
    /\ \/ \E t \in Threads : step(t)
       \/ \E t \in Callers : vc_cluster_cmd(t)
       \/ \E n \in Nodes : crash(n) \/ restart(n) \/ move_slot(n)

Spec == Init /\ [][Next]_vars

\* Threads run, a caller that waits for topology_lock, to read the map or to
\* write it, obtains it though it is taken again and again, and a node that is
\* down comes back.
FairSpec ==
    /\ Spec
    /\ \A t \in Threads : WF_vars(step(t))
    /\ \A t \in Callers : SF_vars(refresh_lock(t)) /\ SF_vars(vc_cluster_node_for_slot(t))
    /\ \A n \in Nodes : WF_vars(restart(n))

-----------------------------------------------------------------------------
\* As long as no connection was closed under another thread's eyes, a pool
\* entry serves one thread at a time, and an entry in use is marked so.
PoolExclusive ==
    "raced" \notin met =>
        \A t, u \in Threads :
            th[t].nc # 0 =>
                /\ Conn(t).in_use
                /\ t # u => <<th[t].at, th[t].nc>> # <<th[u].at, th[u].nc>>

\* The reply vc_cluster_cmd hands to its caller is the first line that answers
\* that call's own request, never a line of another call, of a PING or of a
\* refresh, across pooled connections, crashes, redirections, replies of unknown
\* types and retries.  It holds up to and including the first reply of more
\* lines than resp_read_reply takes (an array, a map, the two replies of INCR):
\* the lines left are what the next user of that connection reads.
ReplyMatches ==
    "raced" \notin met =>
        \A t \in Callers : th[t].res.says \notin {None, "nonode", "net"} =>
            /\ th[t].res.says \in {"data", "header"}
            /\ th[t].res.to = th[t].id /\ th[t].res.name = None

\* The client has met none of its faults and no reply of an unknown type, no pool
\* and no table was full and no node has crashed.
Calm == Sound /\ "hindered" \notin met /\ crashes = 0 /\ format = "nested"

\* Without crashes, races, a full pool or a full node table, while every reply is of
\* a type the client knows, and with fewer moves of the slot than attempts,
\* vc_cluster_cmd succeeds: retries and redirections hide every move from the caller.
NoSpuriousFailure ==
    Calm /\ moves < VC_CLUSTER_MAX_RETRIES =>
        \A t \in Callers : th[t].res.says \notin {"nonode", "net"}

Clear == format = "nested" /\ Sound

\* vc_cluster_cmd returns, whatever crashes and moves and though it waits for the
\* map's lock: locks and pool entries are given back on every path, and the
\* retries are bounded.
CallsReturn == \A t \in Callers : Clear /\ th[t].pc # "idle" ~> th[t].pc = "idle" \/ ~Clear

\* Once the nodes stay up, the health thread takes every one for alive again,
\* though commands, pings and refreshes gave them up and left dead
\* connections in their pools.
Recovers == <>[](Clear => \A x \in Known : host[x] \in Nodes => alive[x])
=============================================================================
