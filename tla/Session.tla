------------------------------ MODULE Session -------------------------------
(***************************************************************************)
(* The requests of one connection slot of net/server.c, as bytes: clients  *)
(* write requests, the network delivers them in pieces of any size,        *)
(* process_conn parses what has arrived and dispatches every complete      *)
(* command, and the client reads the replies in the protocol version it    *)
(* has agreed upon.  When the connection ends the slot serves another one. *)
(*                                                                         *)
(* Module Connection has the events, the sockets and the flushing.         *)
(***************************************************************************)
EXTENDS Handlers

CONSTANTS
    Requests,     \* what clients write: the bytes, the arguments they stand for, and
                  \* whether it is written last, when the others have been delivered
    Users,        \* the users of the ACL file, in its order
    MaxRequests,  \* bound: requests written
    MaxClients    \* bound: clients the slot serves

ASSUME SessionAssumption ==
    /\ MaxRequests \in Nat /\ MaxClients \in Nat
    /\ \A q \in Requests : DOMAIN q = {"wire", "argv", "last"} /\ q.wire # <<>>

VARIABLES
    require_auth,   \* srv->auth.require_auth
    clients, asked, \* clients served, requests written by all of them
    sent,           \* what this client has written
    in,             \* bytes on their way
    rbuf,           \* conn->rbuf
    pc,             \* process_conn: "wait", or in its "parse" loop
    state,          \* conn->state
    user, resp3,    \* conn->user, conn->resp3
    ran,            \* the commands dispatched for this client
    out             \* the elements of their replies

vars == <<require_auth, clients, asked, sent, in, rbuf, pc, state, user, resp3, ran, out>>

None == [name |-> <<>>, pass |-> <<>>, acl |-> {}]
Anonymous == [name |-> <<"anonymous">>, pass |-> <<>>, acl |-> {"READ", "WRITE", "ADMIN"}]
Bad == <<<<"bad">>>>    \* the argument vector of bytes that are no request

Init ==
    /\ require_auth \in BOOLEAN
    /\ clients = 1 /\ asked = 0
    /\ sent = <<>> /\ in = <<>> /\ rbuf = <<>>
    /\ pc = "wait" /\ state = "CONNECTED"
    /\ user = None /\ resp3 = FALSE
    /\ ran = <<>> /\ out = <<>>

-----------------------------------------------------------------------------
(* The client.                                                             *)

request ==
    /\ state = "CONNECTED" /\ asked < MaxRequests
    /\ sent # <<>> => ~sent[Len(sent)].last
    /\ \E q \in Requests :
         /\ q.last => in = <<>>
         /\ sent' = Append(sent, q) /\ in' = in \o q.wire
    /\ asked' = asked + 1
    /\ UNCHANGED <<require_auth, clients, rbuf, pc, state, user, resp3, ran, out>>

\* Fault: the version is left as it was.
Reset_kept == user' = None /\ UNCHANGED resp3
Reset == user' = None /\ resp3' = FALSE

\* The next client of the slot, the last one having left or been closed.
conn_alloc ==
    /\ pc = "wait" /\ clients < MaxClients
    /\ clients' = clients + 1
    /\ state' = "CONNECTED" /\ rbuf' = <<>> /\ out' = <<>>
    /\ Reset
    /\ sent' = <<>> /\ in' = <<>> /\ ran' = <<>>
    /\ UNCHANGED <<require_auth, asked, pc>>

-----------------------------------------------------------------------------
(* Users.                                                                  *)

vc_auth_verify(name, pass) ==
    LET same == {i \in DOMAIN Users : Users[i].name = name /\ Users[i].pass = pass} IN
    IF ~require_auth THEN Anonymous ELSE IF same = {} THEN None ELSE Users[First(same)]

need_auth(acl) == require_auth /\ (user = None \/ ~(acl \subseteq user.acl))

-----------------------------------------------------------------------------
(* Handlers that change the connection: what it becomes, and the reply.    *)

Become(u, r3, s, replies) ==
    /\ user' = u /\ resp3' = r3 /\ state' = s
    /\ \E reply \in replies : out' = out \o reply

\* The AUTH clauses of HELLO in their order, up to the first that fails.
Clauses(c) ==
    FoldLeft(LAMBDA a, i :
        IF ~a.ok \/ i < a.next \/ Word(c[i]) # "AUTH" \/ i + 2 > Len(c) THEN a
        ELSE LET u == vc_auth_verify(c[i + 1], c[i + 2]) IN
             [ok |-> u # None, next |-> i + 3, user |-> IF u = None THEN a.user ELSE u],
        [ok |-> TRUE, next |-> 3, user |-> user], [i \in 1 .. Len(c) - 1 |-> i])

cmd_hello(c) ==
    LET proto == IF Len(c) >= 2 THEN Number(c[2]) ELSE 2
        a == Clauses(c) IN
    IF proto \notin {2, 3} THEN Become(user, resp3, state, FAIL)
    ELSE IF ~a.ok THEN Become(a.user, resp3, state, FAIL)
    ELSE Become(a.user, proto = 3, state, {resp_write_hello(proto = 3)})

cmd_auth(c) ==
    LET u == IF Len(c) = 2 THEN vc_auth_verify(<<"default">>, c[2]) ELSE vc_auth_verify(c[2], c[3]) IN
    IF Len(c) \notin 2 .. 3 THEN Become(user, resp3, state, FAIL)
    ELSE IF ~require_auth THEN Become(user, resp3, state, OK)
    ELSE IF u = None THEN Become(user, resp3, state, FAIL)
    ELSE Become(u, resp3, state, OK)

cmd_quit == Become(user, resp3, "CLOSING", OK)

vc_dispatch(c) ==
    IF c = <<>> THEN UNCHANGED <<user, resp3, state, out>>
    ELSE IF need_auth(acl_needed(Name(c))) /\ acl_needed(Name(c)) # {} THEN Become(user, resp3, state, FAIL)
    ELSE CASE Name(c) = "HELLO" -> cmd_hello(c)
           [] Name(c) = "AUTH" -> cmd_auth(c)
           [] Name(c) = "QUIT" -> cmd_quit
           [] OTHER -> Become(user, resp3, state, Handler(c, resp3))

-----------------------------------------------------------------------------
(* process_conn                                                            *)

read ==
    /\ pc = "wait" /\ state = "CONNECTED"
    /\ \E n \in 1 .. Len(in) : rbuf' = rbuf \o SubSeq(in, 1, n) /\ in' = SubSeq(in, n + 1, Len(in))
    /\ pc' = "parse"
    /\ UNCHANGED <<require_auth, clients, asked, sent, state, user, resp3, ran, out>>

\* RESP_PARSE_MORE: the rest has not arrived.
parse_more ==
    /\ pc' = "wait"
    /\ UNCHANGED <<rbuf, state, user, resp3, ran, out>>

\* RESP_PARSE_ERR: the error is written and the connection closed.
parse_err ==
    /\ ran' = Append(ran, Bad) /\ out' = out \o resp_write_error
    /\ state' = "FREE" /\ rbuf' = <<>> /\ pc' = "wait"
    /\ UNCHANGED <<user, resp3>>

\* vc_dispatch, vc_cmd_free, vc_buf_consume; QUIT ends the connection.
parse_ok(argv, consumed) ==
    /\ vc_dispatch(argv)
    /\ ran' = Append(ran, argv)
    /\ rbuf' = SubSeq(rbuf, consumed + 1, Len(rbuf))
    /\ pc' = IF state' = "CLOSING" \/ rbuf' = <<>> THEN "wait" ELSE "parse"

process_conn ==
    /\ pc = "parse"
    /\ LET cmd == resp_parse_command(rbuf) IN
       \/ cmd.r = "MORE" /\ parse_more
       \/ cmd.r = "ERR" /\ parse_err
       \/ cmd.r = "OK" /\ parse_ok(cmd.argv, cmd.consumed)
    /\ UNCHANGED <<require_auth, clients, asked, sent, in>>

Finished == pc = "wait" /\ (in = <<>> \/ state # "CONNECTED") /\ UNCHANGED vars

Next == request \/ conn_alloc \/ read \/ process_conn \/ Finished

Spec == Init /\ [][Next]_vars

-----------------------------------------------------------------------------
Meant == [k \in DOMAIN sent |-> sent[k].argv]

\* Requests keep their boundaries: however the bytes are cut on their way, and
\* whatever bytes arguments hold, the commands dispatched are the requests of the
\* client in their order, argument for argument, bytes that are no request end the
\* connection where they are met, and once everything has been read none of it
\* waits in rbuf.
Framed ==
    /\ IsPrefix(ran, Meant)
    /\ pc = "wait" /\ state = "CONNECTED" /\ in = <<>> => ran = Meant /\ rbuf = <<>>

\* Requests without arguments get no reply.
Asking(cmds) == SelectSeq(cmds, LAMBDA c : c # <<>>)

\* The client reads an element: r.need of them are missing from the reply to
\* request r.k + 1, and r.resp3 is the version of the last HELLO that succeeded.
\* A counter command writes its number twice.
Read(cmds, r, e) ==
    LET c == cmds[r.k + 1]
        first == r.need = 0
        version == IF first /\ Name(c) = "HELLO" /\ e.type # "-"
                   THEN Len(c) > 1 /\ Number(c[2]) = 3 ELSE r.resp3
        more == IF ~first THEN r.need - 1 ELSE IF Name(c) \in Counters /\ e.type # "-" THEN 1 ELSE 0
        need == e.n + more IN
    IF r.k = Len(cmds) \/ ~r.ok THEN [r EXCEPT !.ok = FALSE]
    ELSE [k |-> IF need = 0 THEN r.k + 1 ELSE r.k, need |-> need, resp3 |-> version,
          ok |-> e.type \in Readable(version) \/ Name(c) = "VCGET"]

\* "HELLO response must match the negotiated protocol version", and so do all others:
\* a client reads the replies as complete elements of the version it has agreed
\* upon, one reply for each request, in a session of its own whoever had the slot
\* before.  (VCGET is an exception: it writes a map, a double or a boolean to
\* clients of either version.)
Understood ==
    LET cmds == Asking(Meant)
        r == FoldLeft(LAMBDA x, e : Read(cmds, x, e), [k |-> 0, need |-> 0, resp3 |-> FALSE, ok |-> TRUE], out) IN
    r.ok /\ r.need = 0 /\ r.k = Len(Asking(ran))
=============================================================================
