------------------------------- MODULE Server -------------------------------
(***************************************************************************)
(* The connection table of net/server.c: worker threads that accept        *)
(* clients on their own SO_REUSEPORT sockets, serve them from their own    *)
(* edge-triggered epoll, and every now and then sweep the whole table for  *)
(* idle connections.  conns_lock is taken by conn_alloc and by nothing     *)
(* else.  Requests are counted, not parsed (module Connection follows one  *)
(* connection in detail); conn_close is one step per field it releases.    *)
(***************************************************************************)
EXTENDS Integers, Sequences, FiniteSetsExt

CONSTANTS
    Workers,        \* worker_thread instances
    Master,         \* the listening socket vcserver_create opens
    Clients,
    VC_MAX_CONNS,   \* slots of srv->conns
    MaxFd,          \* bound: sockets open at once
    MaxReq,         \* bound: requests a client sends
    Timeout,        \* VC_CONN_TIMEOUT_S
    MaxClock,       \* bound on the clock
    None

ASSUME TableAssumption ==
    /\ VC_MAX_CONNS \in Nat \ {0} /\ MaxFd \in Nat /\ MaxReq \in Nat
    /\ Timeout \in Nat /\ MaxClock \in Nat
    /\ Master \notin Workers /\ None \notin Workers \cup Clients \cup {Master}

VARIABLES
    clock,      \* monotonic time
    backlog,    \* connections the kernel has queued on each listening socket
    client,     \* where each client stands: requests it may still send, and whether it is connected
    sock,       \* open sockets by descriptor
    conns,      \* srv->conns
    heap,       \* slots whose buffers are allocated
    lock,       \* holder of conns_lock
    foreign,    \* history: a sweep has closed a connection of another worker
    pc, batch, cur, next,
    now         \* the time a worker's sweep goes by

vars == <<clock, backlog, client, foreign, sock, conns, heap, lock, pc, batch, cur, next, now>>
kernel == <<clock, backlog, client, foreign>>
locals == <<batch, cur, next, now>>

Slots == 1 .. VC_MAX_CONNS
Fds == 1 .. MaxFd
NoFd == MaxFd + 1       \* conn->fd = -1
Listen == 0             \* the event of the listening socket in a batch

NoSock == [who |-> None, at |-> None, slot |-> 0, req |-> 0, edge |-> FALSE, hup |-> FALSE, heard |-> 0]
Socket(c) == [NoSock EXCEPT !.who = c, !.heard = clock]
IsOpen(f) == f \in Fds /\ sock[f] # NoSock
Ready(s) == s.req > 0 \/ s.hup

Init ==
    /\ clock = 0
    /\ backlog = [l \in Workers \cup {Master} |-> <<>>]
    /\ client = [c \in Clients |-> [left |-> MaxReq, at |-> "new"]]
    /\ sock = [f \in Fds |-> NoSock]
    /\ conns = [i \in Slots |-> [state |-> "FREE", fd |-> 0, active |-> 0]]    \* calloc: descriptor 0
    /\ heap = {}
    /\ lock = None
    /\ foreign = FALSE
    /\ pc = [w \in Workers |-> "wait"]
    /\ batch = [w \in Workers |-> {}]
    /\ cur = [w \in Workers |-> 0]
    /\ next = [w \in Workers |-> 0]
    /\ now = [w \in Workers |-> 0]

Goto(w, label) == pc' = [pc EXCEPT ![w] = label]

-----------------------------------------------------------------------------
(* The kernel and the clients.                                             *)

Tick == clock < MaxClock /\ clock' = clock + 1
        /\ UNCHANGED <<backlog, client, foreign, sock, conns, heap, lock, pc, locals>>

\* SO_REUSEPORT: the kernel picks one of the sockets bound to the port.
connect(c) ==
    /\ client[c].at = "new"
    /\ \E l \in DOMAIN backlog : backlog' = [backlog EXCEPT ![l] = Append(@, c)]
    /\ client' = [client EXCEPT ![c].at = "queued"]
    /\ UNCHANGED <<clock, foreign, sock, conns, heap, lock, pc, locals>>

\* A request arrives, or the client shuts its side down: an edge for the epoll.
send(c) ==
    \E f \in Fds :
        /\ sock[f].who = c /\ client[c].left > 0 /\ ~sock[f].hup
        /\ client' = [client EXCEPT ![c].left = @ - 1]
        /\ \/ sock' = [sock EXCEPT ![f].req = @ + 1, ![f].edge = TRUE]
           \/ sock' = [sock EXCEPT ![f].hup = TRUE, ![f].edge = TRUE]
        /\ UNCHANGED <<clock, backlog, foreign, conns, heap, lock, pc, locals>>

-----------------------------------------------------------------------------
(* worker_thread                                                           *)

\* epoll_wait reports what is ready once; it also returns empty-handed after 1 s.
epoll_wait(w) ==
    /\ pc[w] = "wait"
    /\ LET ready == {f \in Fds : sock[f].at = w /\ sock[f].edge}
       IN /\ batch' = [batch EXCEPT ![w] =
                  {[slot |-> sock[f].slot, hup |-> sock[f].hup] : f \in ready}
                  \cup (IF backlog[w] = <<>> THEN {} ELSE {[slot |-> Listen, hup |-> FALSE]})]
          /\ sock' = [f \in Fds |-> IF f \in ready THEN [sock[f] EXCEPT !.edge = FALSE] ELSE sock[f]]
    /\ Goto(w, "events")
    /\ UNCHANGED <<kernel, conns, heap, lock, cur, next, now>>

\* The event of the listening socket.
listen_event(w) ==
    /\ pc[w] = "events" /\ [slot |-> Listen, hup |-> FALSE] \in batch[w]
    /\ batch' = [batch EXCEPT ![w] = @ \ {[slot |-> Listen, hup |-> FALSE]}]
    /\ Goto(w, "accept")
    /\ UNCHANGED <<kernel, sock, conns, heap, lock, cur, next, now>>

\* accept4, until the queue is empty or it fails for want of a descriptor; the
\* kernel gives the lowest free one.
accept(w) ==
    /\ pc[w] = "accept"
    /\ LET free == {g \in Fds : sock[g] = NoSock}
           f == Min(free)
       IN IF backlog[w] = <<>> \/ free = {}
          THEN Goto(w, "events") /\ UNCHANGED <<backlog, client, sock, next>>
          ELSE /\ sock' = [sock EXCEPT ![f] = Socket(Head(backlog[w]))]
               /\ client' = [client EXCEPT ![Head(backlog[w])].at = "accepted"]
               /\ backlog' = [backlog EXCEPT ![w] = Tail(@)]
               /\ next' = [next EXCEPT ![w] = f]
               /\ Goto(w, "alloc")
    /\ UNCHANGED <<clock, foreign, conns, heap, lock, batch, cur, now>>

\* conn_alloc takes the lock and claims the first FREE slot ...
conn_alloc(w) ==
    /\ pc[w] = "alloc" /\ lock = None
    /\ LET free == {i \in Slots : conns[i].state = "FREE"}
       IN IF free = {}
          THEN /\ sock' = [sock EXCEPT ![next[w]] = NoSock]      \* close(cfd)
               /\ Goto(w, "accept")
               /\ UNCHANGED <<conns, lock, cur>>
          ELSE /\ conns' = [conns EXCEPT ![Min(free)].state = "CONNECTED"]
               /\ cur' = [cur EXCEPT ![w] = Min(free)]
               /\ lock' = w
               /\ Goto(w, "alloc_fill")
               /\ UNCHANGED sock
    /\ UNCHANGED <<kernel, heap, batch, next, now>>

\* Fault: a reused slot is taken to have its buffers.
alloc_fill_reused(w) ==
    /\ pc[w] = "alloc_fill"
    /\ heap' = IF conns[cur[w]].fd = NoFd THEN heap ELSE heap \cup {cur[w]}
    /\ conns' = [conns EXCEPT ![cur[w]].active = clock]
    /\ lock' = None
    /\ Goto(w, "register")
    /\ UNCHANGED <<kernel, sock, locals>>

\* ... then allocates its buffers and stamps it.  (Neither vc_buf_new is checked for
\* NULL: an allocation is taken to succeed.)
alloc_fill(w) ==
    /\ pc[w] = "alloc_fill"
    /\ heap' = heap \cup {cur[w]}
    /\ conns' = [conns EXCEPT ![cur[w]].active = clock]
    /\ lock' = None
    /\ Goto(w, "register")
    /\ UNCHANGED <<kernel, sock, locals>>

\* conn->fd = cfd and EPOLL_CTL_ADD, which reports what has already arrived.
register(w) ==
    /\ pc[w] = "register"
    /\ conns' = [conns EXCEPT ![cur[w]].fd = next[w]]
    /\ sock' = [sock EXCEPT ![next[w]].at = w, ![next[w]].slot = cur[w], ![next[w]].edge = Ready(sock[next[w]])]
    /\ Goto(w, "accept")
    /\ UNCHANGED <<kernel, heap, lock, locals>>

\* An event of a connection: skipped when its slot is FREE, closed on hangup.  A
\* handshake or a pending write goes on in "reply"; when that write is done, or none
\* was pending, the connection is read.
conn_event(w) ==
    /\ pc[w] = "events"
    /\ \E e \in batch[w] :
        /\ e.slot # Listen
        /\ batch' = [batch EXCEPT ![w] = @ \ {e}]
        /\ cur' = [cur EXCEPT ![w] = e.slot]
        /\ next' = [next EXCEPT ![w] = 0]
        /\ \/ conns[e.slot].state = "FREE" /\ Goto(w, "events")
           \/ conns[e.slot].state # "FREE" /\ e.hup /\ Goto(w, "close")
           \/ conns[e.slot].state # "FREE" /\ ~e.hup /\ (Goto(w, "read") \/ Goto(w, "reply"))
    /\ UNCHANGED <<kernel, sock, conns, heap, lock, now>>

\* Fault: last_active is not refreshed.
process_read_unstamped(w) ==
    /\ pc[w] = "read"
    /\ LET f == conns[cur[w]].fd
       IN IF ~IsOpen(f) \/ sock[f].hup
          THEN /\ Goto(w, "close")
               /\ UNCHANGED sock
          ELSE /\ sock' = [sock EXCEPT ![f].req = 0, ![f].heard = IF sock[f].req > 0 THEN clock ELSE @]
               /\ Goto(w, "reply")
    /\ UNCHANGED <<kernel, conns, heap, lock, locals>>

\* process_conn reads until nothing is left; end of file closes.
process_read(w) ==
    /\ pc[w] = "read"
    /\ LET f == conns[cur[w]].fd
       IN IF ~IsOpen(f) \/ sock[f].hup
          THEN /\ Goto(w, "close")
               /\ UNCHANGED <<sock, conns>>
          ELSE /\ sock' = [sock EXCEPT ![f].req = 0, ![f].heard = IF sock[f].req > 0 THEN clock ELSE @]
               /\ conns' = [conns EXCEPT ![cur[w]].active = IF sock[f].req > 0 THEN clock ELSE @]
               /\ Goto(w, "reply")
    /\ UNCHANGED <<kernel, heap, lock, locals>>

\* The commands are dispatched and their replies written; QUIT, a protocol error
\* and a failed write or handshake close afterwards.
process_reply(w) ==
    /\ pc[w] = "reply"
    /\ \E end \in BOOLEAN :
        /\ conns' = [conns EXCEPT ![cur[w]].state = IF end THEN "CLOSING" ELSE @]
        /\ Goto(w, IF end THEN "close" ELSE "events")
    /\ UNCHANGED <<kernel, sock, heap, lock, locals>>

-----------------------------------------------------------------------------
(* conn_close returns at once from a FREE slot.                            *)

Resume(w) == IF next[w] = 0 THEN "events" ELSE "sweep"

\* Fault: the slot is marked FREE before it is released.
close_socket_early(w) ==
    /\ pc[w] = "close"
    /\ IF conns[cur[w]].state = "FREE"
       THEN Goto(w, Resume(w)) /\ UNCHANGED <<sock, conns>>
       ELSE /\ sock' = [f \in Fds |-> IF f = conns[cur[w]].fd THEN NoSock ELSE sock[f]]
            /\ conns' = [conns EXCEPT ![cur[w]].state = "FREE"]
            /\ Goto(w, "close_buffers")
    /\ UNCHANGED <<kernel, heap, lock, locals>>

close_socket(w) ==
    /\ pc[w] = "close"
    /\ IF conns[cur[w]].state = "FREE"
       THEN Goto(w, Resume(w)) /\ UNCHANGED sock
       ELSE /\ sock' = [f \in Fds |-> IF f = conns[cur[w]].fd THEN NoSock ELSE sock[f]]
            /\ Goto(w, "close_buffers")
    /\ UNCHANGED <<kernel, conns, heap, lock, locals>>

close_buffers(w) ==
    /\ pc[w] = "close_buffers"
    /\ conns' = [conns EXCEPT ![cur[w]].fd = NoFd]
    /\ heap' = heap \ {cur[w]}
    /\ Goto(w, "close_slot")
    /\ UNCHANGED <<kernel, sock, lock, locals>>

close_slot(w) ==
    /\ pc[w] = "close_slot"
    /\ conns' = [conns EXCEPT ![cur[w]].state = "FREE"]
    /\ Goto(w, Resume(w))
    /\ UNCHANGED <<kernel, sock, heap, lock, locals>>

-----------------------------------------------------------------------------
(* After its events a worker waits again or, every tenth time, sweeps the  *)
(* connections of all workers (sweep_count is a choice here).              *)

loop_end(w) ==
    /\ pc[w] = "events" /\ batch[w] = {}
    /\ \/ Goto(w, "wait") /\ UNCHANGED now
       \/ Goto(w, "sweep") /\ now' = [now EXCEPT ![w] = clock]
    /\ next' = [next EXCEPT ![w] = 1]
    /\ UNCHANGED <<kernel, sock, conns, heap, lock, batch, cur>>

Expired(w, i) == conns[i].state # "FREE" /\ conns[i].fd # NoFd /\ now[w] - conns[i].active > Timeout

OwnedBy(w, i) ==
    IsOpen(conns[i].fd) /\ sock[conns[i].fd].at = w /\ sock[conns[i].fd].slot = i

sweep_slot(w) ==
    /\ pc[w] = "sweep"
    /\ IF next[w] > VC_MAX_CONNS
       THEN Goto(w, "wait") /\ now' = [now EXCEPT ![w] = 0] /\ UNCHANGED <<cur, next, foreign>>
       ELSE /\ cur' = [cur EXCEPT ![w] = next[w]]
            /\ next' = [next EXCEPT ![w] = @ + 1]
            /\ foreign' = (foreign \/ (Expired(w, next[w]) /\ ~OwnedBy(w, next[w])))
            /\ Goto(w, IF Expired(w, next[w]) THEN "close" ELSE "sweep")
            /\ UNCHANGED now
    /\ UNCHANGED <<clock, backlog, client, sock, conns, heap, lock, batch>>

worker(w) ==
    \/ epoll_wait(w) \/ listen_event(w) \/ accept(w) \/ conn_alloc(w) \/ alloc_fill(w) \/ register(w)
    \/ conn_event(w) \/ process_read(w) \/ process_reply(w)
    \/ close_socket(w) \/ close_buffers(w) \/ close_slot(w)
    \/ loop_end(w) \/ sweep_slot(w)

Next ==
    \/ Tick
    \/ \E c \in Clients : connect(c) \/ send(c)
    \/ \E w \in Workers : worker(w)

Spec == Init /\ [][Next]_vars

-----------------------------------------------------------------------------
(* foreign marks what the code gets wrong: a worker's sweep takes any      *)
(* connection whose last_active is old, without a lock, while its owner    *)
(* may be accepting, serving or closing it.  Up to then the following      *)
(* holds.                                                                  *)

\* A worker that reads into or writes from a connection's buffers finds them
\* allocated: conn_close, the only place that frees them, runs in no other worker
\* meanwhile.
BuffersLive == ~foreign => \A w \in Workers : pc[w] \in {"read", "reply"} => cur[w] \in heap

\* Slot i is being filled or released.
InTransit(i) == \E w \in Workers :
    cur[w] = i /\ pc[w] \in {"alloc_fill", "register", "close_buffers", "close_slot"}

\* Outside accept and conn_close, the slots in use and the registered sockets
\* correspond one to one: no two connections share a slot or a descriptor, no open
\* socket is without a slot, and no slot points to a closed one.
TableMatches ==
    ~foreign =>
        /\ \A i \in Slots : conns[i].state # "FREE" /\ ~InTransit(i) =>
               IsOpen(conns[i].fd) /\ sock[conns[i].fd].slot = i
        /\ \A f \in Fds : sock[f].at # None /\ ~InTransit(sock[f].slot) =>
               conns[sock[f].slot].state # "FREE" /\ conns[sock[f].slot].fd = f

\* The sweep closes a connection only when nothing has been read from it for longer
\* than VC_CONN_TIMEOUT_S, judged at the moment of closing.
IdleOnly ==
    ~foreign => \A w \in Workers : pc[w] = "close" /\ next[w] > 0 /\ conns[cur[w]].state # "FREE" =>
        IsOpen(conns[cur[w]].fd) /\ clock - sock[conns[cur[w]].fd].heard > Timeout
=============================================================================
