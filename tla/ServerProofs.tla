---------------------------- MODULE ServerProofs ----------------------------
(***************************************************************************)
(* The connection table, for every number of workers, clients, slots and   *)
(* descriptors, up to the first sweep that takes another worker's          *)
(* connection.                                                             *)
(***************************************************************************)
EXTENDS Server, WellFoundedInduction, TLAPS

-----------------------------------------------------------------------------
(* The inductive invariant.                                                *)

Labels == {"wait", "events", "accept", "alloc", "alloc_fill", "register", "read", "reply",
           "close", "close_buffers", "close_slot", "sweep"}

Sockets == [who : Clients \cup {None}, at : Workers \cup {None}, slot : Nat, req : Nat,
            edge : BOOLEAN, hup : BOOLEAN, heard : Nat]
Conns   == [state : {"FREE", "CONNECTED", "CLOSING"}, fd : Nat, active : Nat]
Events  == [slot : Nat, hup : BOOLEAN]

TypeOK ==
    /\ clock \in Nat /\ foreign \in BOOLEAN
    /\ backlog \in [Workers \cup {Master} -> Seq(Clients)]
    /\ sock \in [Fds -> Sockets] /\ conns \in [Slots -> Conns]
    /\ pc \in [Workers -> Labels] /\ batch \in [Workers -> SUBSET Events]
    /\ cur \in [Workers -> Nat] /\ next \in [Workers -> Nat] /\ now \in [Workers -> Nat]

Accepting(w) == pc[w] \in {"alloc", "alloc_fill", "register"}
Filling(w)   == pc[w] \in {"alloc_fill", "register"}
Serving(w)   == pc[w] \in {"read", "reply", "close"}
Releasing(w) == pc[w] \in {"close_buffers", "close_slot"}
Moving(w)    == Filling(w) \/ Releasing(w)

\* Slot i holds a connection that worker w has registered.
Owned(w, i) ==
    /\ i \in Slots /\ conns[i].fd \in Fds
    /\ sock[conns[i].fd].at = w /\ sock[conns[i].fd].slot = i

\* A registered socket has a slot, with buffers, that was stamped no earlier
\* than anything was read from it.
SocketOK(f) ==
    sock[f].at # None =>
        /\ sock[f].at \in Workers /\ sock[f].slot \in Slots
        /\ conns[sock[f].slot].state # "FREE" /\ conns[sock[f].slot].fd = f
        /\ sock[f].slot \in heap
        /\ sock[f].heard <= conns[sock[f].slot].active

\* A slot in use has a registered socket or is being filled or released.
SlotOK(i) ==
    conns[i].state # "FREE" =>
        (\E w \in Workers : Moving(w) /\ cur[w] = i) \/ (\E w \in Workers : Owned(w, i))

\* What a worker holds while it accepts, fills or releases.
MovingOK(w) ==
    /\ Moving(w) => /\ cur[w] \in Slots /\ conns[cur[w]].state # "FREE"
                    /\ \A u \in Workers : ~Owned(u, cur[w])
                    /\ \A u \in Workers : u # w /\ Moving(u) => cur[u] # cur[w]
    /\ Accepting(w) => /\ next[w] \in Fds /\ sock[next[w]] # NoSock /\ sock[next[w]].at = None
                       /\ \A u \in Workers : u # w /\ Accepting(u) => next[u] # next[w]
                       /\ sock[next[w]].heard <= clock
    /\ pc[w] = "register" => cur[w] \in heap /\ sock[next[w]].heard <= conns[cur[w]].active

\* What a worker serves is its own, and none of the events it has yet to handle.
ServingOK(w) ==
    /\ Serving(w) => Owned(w, cur[w])
    /\ \A e \in batch[w] : e.slot = Listen \/ (Owned(w, e.slot) /\ (Serving(w) => e.slot # cur[w]))
    /\ \A e, g \in batch[w] : e.slot = g.slot => e = g
    /\ now[w] <= clock
    /\ pc[w] \in {"read", "reply"} => next[w] = 0
    /\ pc[w] = "sweep" => batch[w] = {} /\ next[w] # 0
    /\ (pc[w] = "close" \/ Releasing(w)) /\ next[w] # 0 => batch[w] = {}
    /\ pc[w] = "close" /\ next[w] # 0 => clock - conns[cur[w]].active > Timeout

TableOK ==
    /\ \A f \in Fds : SocketOK(f)
    /\ \A i \in Slots : SlotOK(i) /\ conns[i].active <= clock
    /\ \A w \in Workers : MovingOK(w) /\ ServingOK(w)

TableInv == TypeOK /\ (~foreign => TableOK)

-----------------------------------------------------------------------------
(* Types.                                                                  *)

\* A set of naturals that is not empty has a least member.
LEMMA LeastNumber ==
    ASSUME NEW T, T \subseteq Nat, T # {}
    PROVE  \E x \in T : \A y \in T : x <= y
<1> DEFINE R == OpToRel(<, Nat)
<1>1. IsWellFoundedOn(R, Nat)
  BY NatLessThanWellFounded, Zenon
<1> HIDE DEF R
<1>2. PICK x \in T : \A y \in T : ~ (<<y, x>> \in R)
  BY <1>1, WFMin, Zenon
<1>3. ASSUME NEW y \in T, y < x PROVE FALSE
  <2>1. <<y, x>> \in R
    BY <1>3 DEF R, OpToRel
  <2>2. QED
    BY <1>2, <2>1, Zenon
<1>4. QED
  BY <1>3

\* The lowest free descriptor, or slot, is one of them.
LEMMA MinIsIn == ASSUME NEW T, T \subseteq Nat, T # {} PROVE Min(T) \in T
<1>1. \E x \in T : \A y \in T : x <= y
  BY LeastNumber, Zenon
<1>2. QED
  BY <1>1, Zenon DEF Min

\* A changed field leaves a table a table.
LEMMA ConnsChange ==
    ASSUME NEW C \in [Slots -> Conns], NEW i, NEW v \in Nat, NEW st \in {"FREE", "CONNECTED", "CLOSING"}
    PROVE  /\ [C EXCEPT ![i].state = st] \in [Slots -> Conns]
           /\ [C EXCEPT ![i].fd = v] \in [Slots -> Conns]
           /\ [C EXCEPT ![i].active = v] \in [Slots -> Conns]
  BY Zenon DEF Conns

\* The same for the table of sockets, when something arrives ...
LEMMA SocketsArrival ==
    ASSUME NEW S \in [Fds -> Sockets], NEW f \in Fds, NEW n \in Nat
    PROVE  /\ [S EXCEPT ![f].req = n, ![f].edge = TRUE] \in [Fds -> Sockets]
           /\ [S EXCEPT ![f].hup = TRUE, ![f].edge = TRUE] \in [Fds -> Sockets]
<1>1. \A g \in Fds : S[g] \in Sockets
  BY Zenon
<1>2. \A g \in Fds : [S EXCEPT ![f].req = n, ![f].edge = TRUE][g] \in Sockets
  BY <1>1, ZenonT(30) DEF Sockets
<1>3. \A g \in Fds : [S EXCEPT ![f].hup = TRUE, ![f].edge = TRUE][g] \in Sockets
  BY <1>1, ZenonT(30) DEF Sockets
<1>4. QED
  BY <1>2, <1>3, Zenon

\* ... when it is read ...
LEMMA SocketsRead ==
    ASSUME NEW S \in [Fds -> Sockets], NEW f, NEW t \in Nat, NEW n \in Nat
    PROVE  [S EXCEPT ![f].req = n, ![f].heard = IF S[f].req > 0 THEN t ELSE @] \in [Fds -> Sockets]
<1>1. \A g \in Fds : S[g] \in Sockets
  BY Zenon
<1>2. \A g \in Fds : [S EXCEPT ![f].req = n, ![f].heard = IF S[f].req > 0 THEN t ELSE @][g] \in Sockets
  BY <1>1, ZenonT(30) DEF Sockets
<1>3. QED
  BY <1>2, Zenon

\* ... and when a socket is registered.
LEMMA SocketsRegister ==
    ASSUME NEW S \in [Fds -> Sockets], NEW f \in Fds, NEW n \in Nat, NEW w \in Workers, NEW b \in BOOLEAN
    PROVE  [S EXCEPT ![f].at = w, ![f].slot = n, ![f].edge = b] \in [Fds -> Sockets]
<1>1. \A g \in Fds : S[g] \in Sockets
  BY Zenon
<1>2. \A g \in Fds : [S EXCEPT ![f].at = w, ![f].slot = n, ![f].edge = b][g] \in Sockets
  BY <1>1, ZenonT(30) DEF Sockets
<1>3. QED
  BY <1>2, Zenon

\* The variables have their types at the start.
LEMMA TypeStart == Init => TypeOK
<1> SUFFICES ASSUME Init PROVE TypeOK
  OBVIOUS
<1>1. NoSock \in Sockets
  BY DEF NoSock, Sockets
<1>2. [state |-> "FREE", fd |-> 0, active |-> 0] \in Conns
  BY DEF Conns
<1>3. 0 \in Nat /\ <<>> \in Seq(Clients)
  OBVIOUS
<1>4. QED
  BY <1>1, <1>2, <1>3, Zenon DEF Init, TypeOK, Labels


\* The kernel and the clients keep the types.
LEMMA TypeEnvironment ==
    ASSUME TypeOK, \/ Tick
                   \/ \E c \in Clients : connect(c) \/ send(c)
    PROVE  TypeOK'
<1> USE DEF TypeOK
<1>1. CASE Tick
  <2>1. clock' \in Nat
    BY <1>1 DEF Tick
  <2>2. QED
    BY <1>1, <2>1, Zenon DEF Tick, locals
<1>2. ASSUME NEW c \in Clients, connect(c) PROVE TypeOK'
  <2>1. PICK l \in Workers \cup {Master} : backlog' = [backlog EXCEPT ![l] = Append(@, c)]
    BY <1>2, Zenon DEF connect
  <2>2. Append(backlog[l], c) \in Seq(Clients)
    <3>1. backlog[l] \in Seq(Clients)
      BY <2>1, Zenon
    <3>2. QED
      BY <3>1
  <2>3. backlog' \in [Workers \cup {Master} -> Seq(Clients)]
    BY <2>1, <2>2, Zenon
  <2>4. QED
    BY <1>2, <2>3, Zenon DEF connect, locals
<1>3. ASSUME NEW c \in Clients, send(c) PROVE TypeOK'
  <2>1. PICK f \in Fds : \/ sock' = [sock EXCEPT ![f].req = @ + 1, ![f].edge = TRUE]
                         \/ sock' = [sock EXCEPT ![f].hup = TRUE, ![f].edge = TRUE]
    BY <1>3, Zenon DEF send
  <2>2. sock[f].req + 1 \in Nat
    BY DEF Sockets
  <2>3. sock' \in [Fds -> Sockets]
    <3>1. CASE sock' = [sock EXCEPT ![f].req = @ + 1, ![f].edge = TRUE]
      BY <2>2, <3>1, SocketsArrival, Zenon
    <3>2. CASE sock' = [sock EXCEPT ![f].hup = TRUE, ![f].edge = TRUE]
      BY <2>2, <3>2, SocketsArrival, Zenon
    <3>3. QED
      BY <2>1, <3>1, <3>2, Zenon
  <2>4. QED
    BY <1>3, <2>3, Zenon DEF send, locals
<1>4. QED
  BY <1>1, <1>2, <1>3, Zenon

\* A worker that waits for events and accepts connections keeps the types.
LEMMA TypeAccept ==
    ASSUME TypeOK, NEW w \in Workers,
           epoll_wait(w) \/ listen_event(w) \/ accept(w) \/ conn_alloc(w) \/ alloc_fill(w) \/ register(w)
    PROVE  TypeOK'
<1> USE DEF TypeOK, Labels
<1>1. CASE epoll_wait(w)
  <2>1. [slot |-> Listen, hup |-> FALSE] \in Events
    BY DEF Events, Listen
  <2>2. ASSUME NEW f \in Fds PROVE [slot |-> sock[f].slot, hup |-> sock[f].hup] \in Events
    <3>1. sock[f] \in Sockets
      BY Zenon
    <3>2. sock[f].slot \in Nat /\ sock[f].hup \in BOOLEAN
      BY <3>1, Zenon DEF Sockets
    <3>3. QED
      BY <3>2, Zenon DEF Events
  <2>3. batch' \in [Workers -> SUBSET Events]
    <3>1. PICK B : B = batch'[w]
      BY Zenon
    <3>2. batch' = [batch EXCEPT ![w] = B]
      BY <1>1, <3>1, Zenon DEF epoll_wait
    <3>3. \A e \in B : e = [slot |-> Listen, hup |-> FALSE] \/ \E f \in Fds : e = [slot |-> sock[f].slot, hup |-> sock[f].hup]
      BY <1>1, <3>1, Zenon DEF epoll_wait
    <3>4. B \subseteq Events
      BY <2>1, <2>2, <3>3, Zenon
    <3>5. QED
      BY <3>2, <3>4, Zenon
  <2>4. sock' \in [Fds -> Sockets]
    <3>1. \A s \in Sockets : [s EXCEPT !.edge = FALSE] \in Sockets
      BY Zenon DEF Sockets
    <3>2. QED
      BY <1>1, <3>1, Zenon DEF epoll_wait
  <2>5. QED
    BY <1>1, <2>3, <2>4, Zenon DEF epoll_wait, Goto, kernel
<1>2. CASE listen_event(w)
  <2>1. batch' \in [Workers -> SUBSET Events]
    BY <1>2, Zenon DEF listen_event
  <2>2. QED
    BY <1>2, <2>1, Zenon DEF listen_event, Goto, kernel
<1>3. CASE accept(w)
  <2>1. PICK T : T = {g \in Fds : sock[g] = NoSock}
    BY Zenon
  <2>2. CASE backlog[w] = <<>> \/ T = {}
    <3>1. pc' = [pc EXCEPT ![w] = "events"] /\ UNCHANGED <<backlog, sock, next>>
      BY <1>3, <2>1, <2>2, Zenon DEF accept, Goto
    <3>2. QED
      BY <1>3, <3>1, Zenon DEF accept
  <2>3. CASE backlog[w] # <<>> /\ T # {}
    <3>1. PICK f : f = Min(T)
      BY Zenon
    <3>2. /\ sock' = [sock EXCEPT ![f] = Socket(Head(backlog[w]))]
          /\ backlog' = [backlog EXCEPT ![w] = Tail(@)]
          /\ next' = [next EXCEPT ![w] = f]
          /\ pc' = [pc EXCEPT ![w] = "alloc"]
      BY <1>3, <2>1, <2>3, <3>1, Zenon DEF accept, Goto
    <3>3. f \in Nat
      <4>1. T \subseteq Nat
        BY <2>1 DEF Fds
      <4>2. QED
        BY <2>3, <3>1, <4>1, MinIsIn, Zenon
    <3>4. Head(backlog[w]) \in Clients /\ Tail(backlog[w]) \in Seq(Clients)
      <4>1. backlog[w] \in Seq(Clients)
        BY Zenon
      <4>2. QED
        BY <2>3, <4>1
    <3>5. Socket(Head(backlog[w])) \in Sockets
      <4>1. NoSock \in Sockets
        BY DEF NoSock, Sockets
      <4>2. QED
        BY <3>4, <4>1, Zenon DEF Socket, Sockets
    <3>6. backlog' \in [Workers \cup {Master} -> Seq(Clients)]
      BY <3>2, <3>4, Zenon
    <3>7. sock' \in [Fds -> Sockets] /\ next' \in [Workers -> Nat]
      BY <3>2, <3>3, <3>5, Zenon
    <3>8. QED
      BY <1>3, <3>2, <3>6, <3>7, Zenon DEF accept
  <2>4. QED
    BY <2>2, <2>3, Zenon
<1>4. CASE conn_alloc(w)
  <2>1. PICK T : T = {i \in Slots : conns[i].state = "FREE"}
    BY Zenon
  <2>2. CASE T = {}
    <3>1. NoSock \in Sockets
      BY DEF NoSock, Sockets
    <3>2. sock' = [sock EXCEPT ![next[w]] = NoSock] /\ UNCHANGED <<conns, cur>> /\ pc' = [pc EXCEPT ![w] = "accept"]
      BY <1>4, <2>1, <2>2, Zenon DEF conn_alloc, Goto
    <3>3. QED
      BY <1>4, <3>1, <3>2, Zenon DEF conn_alloc, kernel
  <2>3. CASE T # {}
    <3>1. /\ conns' = [conns EXCEPT ![Min(T)].state = "CONNECTED"] /\ sock' = sock
          /\ cur' = [cur EXCEPT ![w] = Min(T)] /\ pc' = [pc EXCEPT ![w] = "alloc_fill"]
      BY <1>4, <2>1, <2>3, Zenon DEF conn_alloc, Goto
    <3>2. T \subseteq Nat
      BY <2>1 DEF Slots
    <3>3. Min(T) \in Nat
      BY <2>3, <3>2, MinIsIn, Zenon
    <3>4. 0 \in Nat
      OBVIOUS
    <3>5. conns' \in [Slots -> Conns]
      BY <3>1, <3>4, ConnsChange, Zenon
    <3>6. QED
      BY <1>4, <3>1, <3>3, <3>5, Zenon DEF conn_alloc, kernel
  <2>4. QED
    BY <2>2, <2>3, Zenon
<1>5. CASE alloc_fill(w)
  <2>1. conns' \in [Slots -> Conns]
    BY <1>5, ConnsChange, Zenon DEF alloc_fill
  <2>2. QED
    BY <1>5, <2>1, Zenon DEF alloc_fill, Goto, kernel, locals
<1>6. CASE register(w)
  <2>1. conns' \in [Slots -> Conns]
    BY <1>6, ConnsChange, Zenon DEF register
  <2>2. Ready(sock[next[w]]) \in BOOLEAN
    BY Zenon DEF Ready
  <2>3. sock' \in [Fds -> Sockets]
    <3>1. CASE next[w] \in Fds
      BY <1>6, <2>2, <3>1, SocketsRegister, Zenon DEF register
    <3>2. CASE next[w] \notin Fds
      <4>1. DOMAIN sock' = Fds /\ \A g \in Fds : sock'[g] = sock[g]
        BY <1>6, <3>2, Zenon DEF register
      <4>2. sock' = [g \in Fds |-> sock[g]]
        BY <1>6, <3>2, Zenon DEF register
      <4>3. QED
        BY <4>2, Zenon
    <3>3. QED
      BY <3>1, <3>2, Zenon
  <2>4. QED
    BY <1>6, <2>1, <2>3, Zenon DEF register, Goto, kernel, locals
<1>7. QED
  BY <1>1, <1>2, <1>3, <1>4, <1>5, <1>6, Zenon

\* A worker that serves, closes and sweeps connections keeps the types.
LEMMA TypeServe ==
    ASSUME TypeOK, NEW w \in Workers,
           \/ conn_event(w) \/ process_read(w) \/ process_reply(w)
           \/ close_socket(w) \/ close_buffers(w) \/ close_slot(w) \/ loop_end(w) \/ sweep_slot(w)
    PROVE  TypeOK'
<1> USE DEF TypeOK, Labels
<1>0. NoSock \in Sockets /\ NoFd \in Nat /\ 0 \in Nat /\ 1 \in Nat
  BY TableAssumption DEF NoSock, Sockets, NoFd
<1>1. CASE conn_event(w)
  <2>1. PICK e \in batch[w] :
            /\ batch' = [batch EXCEPT ![w] = @ \ {e}] /\ cur' = [cur EXCEPT ![w] = e.slot]
            /\ next' = [next EXCEPT ![w] = 0]
            /\ \E label \in {"events", "close", "read", "reply"} : pc' = [pc EXCEPT ![w] = label]
    BY <1>1, Zenon DEF conn_event, Goto
  <2>2. e.slot \in Nat
    <3>1. e \in Events
      BY <2>1, Zenon
    <3>2. QED
      BY <3>1, Zenon DEF Events
  <2>3. batch' \in [Workers -> SUBSET Events] /\ cur' \in [Workers -> Nat] /\ next' \in [Workers -> Nat]
    BY <1>0, <2>1, <2>2, Zenon
  <2>4. pc' \in [Workers -> Labels]
    BY <2>1, Zenon
  <2>5. QED
    BY <1>1, <2>3, <2>4, Zenon DEF conn_event, kernel
<1>2. CASE process_read(w)
  <2>1. PICK f : f = conns[cur[w]].fd
    BY Zenon
  <2>2. CASE ~IsOpen(f) \/ sock[f].hup
    BY <1>2, <2>1, <2>2, Zenon DEF process_read, Goto, kernel, locals
  <2>3. CASE ~(~IsOpen(f) \/ sock[f].hup)
    <3>1. /\ sock' = [sock EXCEPT ![f].req = 0, ![f].heard = IF sock[f].req > 0 THEN clock ELSE @]
          /\ conns' = [conns EXCEPT ![cur[w]].active = IF sock[f].req > 0 THEN clock ELSE @]
      BY <1>2, <2>1, <2>3, Zenon DEF process_read
    <3>2. sock' \in [Fds -> Sockets]
      BY <1>0, <3>1, SocketsRead, Zenon
    <3>3. conns' \in [Slots -> Conns]
      BY <3>1, ZenonT(30) DEF Conns
    <3>4. QED
      BY <1>2, <2>1, <2>3, <3>2, <3>3, Zenon DEF process_read, Goto, kernel, locals
  <2>4. QED
    BY <2>2, <2>3, Zenon
<1>3. CASE process_reply(w)
  <2>1. conns' \in [Slots -> Conns]
    <3>1. conns' = [conns EXCEPT ![cur[w]].state = "CLOSING"] \/ conns' = [conns EXCEPT ![cur[w]].state = @]
      BY <1>3, Zenon DEF process_reply
    <3>2. CASE conns' = [conns EXCEPT ![cur[w]].state = "CLOSING"]
      BY <1>0, <3>2, ConnsChange, Zenon
    <3>3. CASE conns' = [conns EXCEPT ![cur[w]].state = @]
      BY <3>3, Zenon DEF Conns
    <3>4. QED
      BY <3>1, <3>2, <3>3, Zenon
  <2>2. pc' \in [Workers -> Labels]
    BY <1>3, Zenon DEF process_reply, Goto
  <2>3. QED
    BY <1>3, <2>1, <2>2, Zenon DEF process_reply, kernel, locals
<1>4. CASE close_socket(w)
  <2>1. sock' \in [Fds -> Sockets]
    BY <1>0, <1>4, Zenon DEF close_socket
  <2>2. pc' \in [Workers -> Labels]
    BY <1>4, Zenon DEF close_socket, Goto, Resume
  <2>3. QED
    BY <1>4, <2>1, <2>2, Zenon DEF close_socket, kernel, locals
<1>5. CASE close_buffers(w)
  <2>1. conns' \in [Slots -> Conns]
    BY <1>0, <1>5, ConnsChange, Zenon DEF close_buffers
  <2>2. QED
    BY <1>5, <2>1, Zenon DEF close_buffers, Goto, kernel, locals
<1>6. CASE close_slot(w)
  <2>1. conns' \in [Slots -> Conns]
    BY <1>0, <1>6, ConnsChange, Zenon DEF close_slot
  <2>2. pc' \in [Workers -> Labels]
    BY <1>6, Zenon DEF close_slot, Goto, Resume
  <2>3. QED
    BY <1>6, <2>1, <2>2, Zenon DEF close_slot, kernel, locals
<1>7. CASE loop_end(w)
  <2>1. next' \in [Workers -> Nat] /\ now' \in [Workers -> Nat] /\ pc' \in [Workers -> Labels]
    BY <1>0, <1>7, Zenon DEF loop_end, Goto
  <2>2. QED
    BY <1>7, <2>1, Zenon DEF loop_end, kernel
<1>8. CASE sweep_slot(w)
  <2>1. next[w] \in Nat
    BY Zenon
  <2>2. next[w] + 1 \in Nat
    BY <2>1
  <2>3. cur' \in [Workers -> Nat] /\ next' \in [Workers -> Nat]
    BY <1>8, <2>1, <2>2, Zenon DEF sweep_slot
  <2>4. now' \in [Workers -> Nat] /\ foreign' \in BOOLEAN
    BY <1>0, <1>8, Zenon DEF sweep_slot
  <2>5. pc' \in [Workers -> Labels]
    BY <1>8, Zenon DEF sweep_slot, Goto
  <2>6. QED
    BY <1>8, <2>3, <2>4, <2>5, Zenon DEF sweep_slot
<1>9. QED
  BY <1>1, <1>2, <1>3, <1>4, <1>5, <1>6, <1>7, <1>8, Zenon

-----------------------------------------------------------------------------
(* What a step of one worker leaves to the others.                         *)

\* A registered connection has its slot, its buffers and one worker.
LEMMA OwnedSlot ==
    ASSUME TableOK, NEW v \in Workers, NEW i, Owned(v, i)
    PROVE  /\ i \in Slots /\ conns[i].state # "FREE" /\ i \in heap
           /\ \A u \in Workers : Owned(u, i) => u = v
<1>1. v # None
  BY TableAssumption, Zenon
<1>2. PICK f \in Fds : f = conns[i].fd /\ sock[f].at = v /\ sock[f].slot = i
  BY Zenon DEF Owned
<1>3. SocketOK(f)
  BY Zenon DEF TableOK
<1>4. QED
  BY <1>1, <1>2, <1>3, Zenon DEF Owned, SocketOK

\* The socket of a registered connection is that of its slot.
LEMMA SocketOwned ==
    ASSUME TableOK, NEW f \in Fds, sock[f].at # None
    PROVE  sock[f].at \in Workers /\ Owned(sock[f].at, sock[f].slot) /\ conns[sock[f].slot].fd = f
<1>1. SocketOK(f)
  BY Zenon DEF TableOK
<1>2. QED
  BY <1>1, Zenon DEF Owned, SocketOK

\* Worker u has not moved.
Still(u) == pc'[u] = pc[u] /\ batch'[u] = batch[u] /\ cur'[u] = cur[u] /\ next'[u] = next[u] /\ now'[u] = now[u]

\* A worker that has not moved and has lost no connection goes on serving.
LEMMA ServeKeep ==
    ASSUME TypeOK, TypeOK', TableOK, NEW u \in Workers, Still(u), clock <= clock',
           \A i \in Slots : Owned(u, i) => Owned(u, i)',
           pc[u] = "close" => conns'[cur[u]].active = conns[cur[u]].active
    PROVE  ServingOK(u)'
<1>1. ServingOK(u)
  BY Zenon DEF TableOK
<1>2. /\ (Serving(u) => Owned(u, cur[u]))'
      /\ (\A e \in batch[u] : e.slot = Listen \/ (Owned(u, e.slot) /\ (Serving(u) => e.slot # cur[u])))'
  <2>1. \A i : Owned(u, i) => Owned(u, i)'
    BY Zenon DEF Owned
  <2>2. (Serving(u) => Owned(u, cur[u]))'
    BY <1>1, <2>1, Zenon DEF Still, ServingOK, Serving, Owned
  <2>3. ASSUME NEW e \in batch'[u] PROVE (e.slot = Listen \/ (Owned(u, e.slot) /\ (Serving(u) => e.slot # cur[u])))'
    <3>1. e.slot = Listen \/ (Owned(u, e.slot) /\ (Serving(u) => e.slot # cur[u]))
      BY <1>1, Zenon DEF Still, ServingOK
    <3>2. QED
      BY <2>1, <3>1, Zenon DEF Still, Serving
  <2>4. QED
    BY <2>2, <2>3, Zenon
<1>3. (now[u] <= clock)'
  <2>1. now[u] \in Nat /\ clock \in Nat /\ clock' \in Nat /\ now[u] <= clock
    BY <1>1, Zenon DEF TypeOK, ServingOK
  <2>2. now[u] <= clock'
    BY <2>1
  <2>3. QED
    BY <2>2, Zenon DEF Still
<1>4. (pc[u] = "close" /\ next[u] # 0 => clock - conns[cur[u]].active > Timeout)'
  <2>1. SUFFICES ASSUME pc[u] = "close", next[u] # 0 PROVE clock' - conns[cur[u]].active > Timeout
    BY Zenon DEF Still
  <2>2. clock - conns[cur[u]].active > Timeout /\ Owned(u, cur[u])
    BY <1>1, <2>1, Zenon DEF ServingOK, Serving
  <2>3. conns[cur[u]].active \in Nat
    BY <2>2, Zenon DEF Owned, TypeOK, Conns
  <2>4. clock \in Nat /\ clock' \in Nat
    BY Zenon DEF TypeOK
  <2>5. QED
    BY <2>2, <2>3, <2>4, TableAssumption
<1>5. QED
  <2>1. Releasing(u)' <=> Releasing(u)
    BY Zenon DEF Still, Releasing
  <2>2. /\ (\A e, g \in batch[u] : e.slot = g.slot => e = g)'
        /\ (pc[u] \in {"read", "reply"} => next[u] = 0)'
        /\ (pc[u] = "sweep" => batch[u] = {} /\ next[u] # 0)'
        /\ ((pc[u] = "close" \/ Releasing(u)) /\ next[u] # 0 => batch[u] = {})'
    BY <1>1, <2>1, Zenon DEF Still, ServingOK
  <2>3. QED
    BY <1>2, <1>3, <1>4, <2>2, Zenon DEF ServingOK

\* A step that registers, closes, claims and frees nothing, and moves no worker
\* into or out of accepting and releasing.
Quiet ==
    /\ heap' = heap /\ clock <= clock'
    /\ \A i \in Slots : /\ conns'[i].fd = conns[i].fd /\ (conns'[i].state = "FREE" <=> conns[i].state = "FREE")
                        /\ conns'[i].active <= clock'
                        /\ (\A w \in Workers : ~Owned(w, i)) => conns'[i].active = conns[i].active
    /\ \A f \in Fds : /\ sock'[f].at = sock[f].at /\ sock'[f].slot = sock[f].slot
                      /\ (sock'[f] = NoSock <=> sock[f] = NoSock)
                      /\ sock[f].at = None => sock'[f].heard = sock[f].heard
                      /\ sock[f].at # None => sock'[f].heard <= conns'[sock[f].slot].active
    /\ \A w \in Workers :
         \/ pc'[w] = pc[w] /\ cur'[w] = cur[w] /\ next'[w] = next[w]
         \/ ~Moving(w) /\ ~Accepting(w) /\ ~Moving(w)' /\ ~Accepting(w)'

\* A connection changes hands only when it is registered or closed.
LEMMA QuietOwned ==
    ASSUME Quiet, NEW w, NEW i
    PROVE  Owned(w, i)' <=> Owned(w, i)
  BY Zenon DEF Quiet, Owned

\* A quiet step keeps the table, whatever the workers serve.
LEMMA QuietTable ==
    ASSUME TypeOK, TypeOK', TableOK, Quiet, \A w \in Workers : ServingOK(w)'
    PROVE  TableOK'
<1>1. ASSUME NEW f \in Fds PROVE SocketOK(f)'
  <2>1. SocketOK(f)
    BY Zenon DEF TableOK
  <2>2. QED
    BY <2>1, Zenon DEF SocketOK, Quiet
<1>2. ASSUME NEW w \in Workers PROVE /\ Moving(w)' <=> Moving(w)
                                     /\ Moving(w) => cur'[w] = cur[w]
                                     /\ Accepting(w)' <=> Accepting(w)
                                     /\ Accepting(w) => next'[w] = next[w]
                                     /\ Moving(w) \/ Accepting(w) => pc'[w] = pc[w]
  BY Zenon DEF Quiet, Moving, Filling, Releasing, Accepting
<1>3. ASSUME NEW i \in Slots PROVE (SlotOK(i) /\ conns[i].active <= clock)'
  <2>1. SlotOK(i)
    BY Zenon DEF TableOK
  <2>2. QED
    BY <1>2, <2>1, QuietOwned, Zenon DEF SlotOK, Quiet
<1>4. ASSUME NEW w \in Workers PROVE MovingOK(w)'
  <2>1. MovingOK(w)
    BY Zenon DEF TableOK
  <2>2. ASSUME Moving(w) PROVE /\ cur'[w] \in Slots /\ conns'[cur'[w]].state # "FREE"
                               /\ \A u \in Workers : ~Owned(u, cur[w])'
                               /\ \A u \in Workers : u # w /\ Moving(u)' => cur'[u] # cur'[w]
    <3>1. PICK i \in Slots : i = cur[w] /\ i = cur'[w]
      BY <1>2, <2>1, <2>2, Zenon DEF MovingOK
    <3>2. \A u \in Workers : ~Owned(u, i)
      BY <2>1, <2>2, <3>1, Zenon DEF MovingOK
    <3>3. \A u \in Workers : ~Owned(u, i)'
      BY <3>2, QuietOwned, Zenon
    <3>4. conns'[i].state # "FREE"
      BY <2>1, <2>2, <3>1, Zenon DEF MovingOK, Quiet
    <3>5. \A u \in Workers : u # w /\ Moving(u)' => cur'[u] # i
      BY <1>2, <2>1, <2>2, <3>1, Zenon DEF MovingOK
    <3>6. QED
      BY <3>1, <3>3, <3>4, <3>5, Zenon
  <2>3. ASSUME Accepting(w) PROVE /\ next'[w] \in Fds /\ sock'[next'[w]] # NoSock /\ sock'[next'[w]].at = None
                                  /\ \A u \in Workers : u # w /\ Accepting(u)' => next'[u] # next'[w]
                                  /\ sock'[next'[w]].heard <= clock'
    <3>1. PICK f \in Fds : f = next[w] /\ f = next'[w]
      BY <1>2, <2>1, <2>3, Zenon DEF MovingOK
    <3>2. sock'[f] # NoSock /\ sock'[f].at = None /\ sock'[f].heard = sock[f].heard
      BY <2>1, <2>3, <3>1, ZenonT(30) DEF MovingOK, Quiet
    <3>3. \A u \in Workers : u # w /\ Accepting(u)' => next'[u] # f
      BY <1>2, <2>1, <2>3, <3>1, Zenon DEF MovingOK
    <3>4. sock[f].heard <= clock
      BY <2>1, <2>3, <3>1, Zenon DEF MovingOK
    <3>5. sock[f].heard \in Nat /\ clock \in Nat /\ clock' \in Nat /\ clock <= clock'
      BY Zenon DEF TypeOK, Sockets, Quiet
    <3>6. sock[f].heard <= clock'
      BY <3>4, <3>5
    <3>7. QED
      BY <3>1, <3>2, <3>3, <3>6, Zenon
  <2>4. ASSUME pc'[w] = "register" PROVE cur'[w] \in heap' /\ sock'[next'[w]].heard <= conns'[cur'[w]].active
    <3>1. Moving(w) /\ Accepting(w) /\ pc[w] = "register"
      BY <1>2, <2>4, Zenon DEF Moving, Filling, Accepting
    <3>2. PICK i \in Slots, f \in Fds : i = cur[w] /\ i = cur'[w] /\ f = next[w] /\ f = next'[w]
      BY <1>2, <2>1, <3>1, Zenon DEF MovingOK
    <3>3. i \in heap /\ sock[f].heard <= conns[i].active /\ sock[f].at = None /\ \A u \in Workers : ~Owned(u, i)
      BY <2>1, <3>1, <3>2, Zenon DEF MovingOK
    <3>4. i \in heap' /\ sock'[f].heard = sock[f].heard /\ conns'[i].active = conns[i].active
      BY <3>3, Zenon DEF Quiet
    <3>5. QED
      BY <3>2, <3>3, <3>4, Zenon
  <2>5. QED
    BY <1>2, <2>2, <2>3, <2>4, Zenon DEF MovingOK
<1>5. QED
  BY <1>1, <1>3, <1>4, Zenon DEF TableOK

\* Fields of sockets that a worker's bookkeeping rests on.
SameSocket(f) ==
    /\ sock'[f].at = sock[f].at /\ sock'[f].slot = sock[f].slot /\ sock'[f].heard = sock[f].heard
    /\ sock'[f] = NoSock <=> sock[f] = NoSock

\* A step that leaves the table alone is quiet.
LEMMA QuietSame ==
    ASSUME TypeOK, TypeOK', TableOK, heap' = heap, conns' = conns, clock <= clock', \A f \in Fds : SameSocket(f),
           \A w \in Workers : \/ pc'[w] = pc[w] /\ cur'[w] = cur[w] /\ next'[w] = next[w]
                              \/ ~Moving(w) /\ ~Accepting(w) /\ ~Moving(w)' /\ ~Accepting(w)'
    PROVE  Quiet
<1>1. ASSUME NEW i \in Slots PROVE conns[i].active <= clock'
  <2>1. conns[i].active \in Nat /\ clock \in Nat /\ clock' \in Nat
    BY Zenon DEF TypeOK, Conns
  <2>2. conns[i].active <= clock
    BY Zenon DEF TableOK
  <2>3. QED
    BY <2>1, <2>2
<1>2. ASSUME NEW f \in Fds, sock[f].at # None PROVE sock'[f].heard <= conns'[sock[f].slot].active
  <2>1. SocketOK(f)
    BY Zenon DEF TableOK
  <2>2. QED
    BY <1>2, <2>1, Zenon DEF SocketOK, SameSocket
<1>3. QED
  BY <1>1, <1>2, Zenon DEF Quiet, SameSocket

\* The clock and the clients leave the table as it is.
LEMMA EnvironmentTable ==
    ASSUME TypeOK, TypeOK', TableOK, \/ Tick
                                     \/ \E c \in Clients : connect(c) \/ send(c)
    PROVE  TableOK'
<1>1. /\ \A u \in Workers : Still(u)
      /\ heap' = heap /\ conns' = conns
  BY Zenon DEF Still, Tick, connect, send, locals
<1>2. clock \in Nat
  BY Zenon DEF TypeOK
<1>3. clock <= clock'
  <2>1. clock' = clock + 1 \/ clock' = clock
    BY Zenon DEF Tick, connect, send
  <2>2. QED
    BY <1>2, <2>1
<1>4. \A f \in Fds : SameSocket(f)
  <2>1. CASE sock' = sock
    BY <2>1, Zenon DEF SameSocket
  <2>2. ASSUME NEW c \in Clients, send(c) PROVE \A f \in Fds : SameSocket(f)
    <3>1. PICK g \in Fds : /\ sock[g].who = c
                           /\ \/ sock' = [sock EXCEPT ![g].req = @ + 1, ![g].edge = TRUE]
                              \/ sock' = [sock EXCEPT ![g].hup = TRUE, ![g].edge = TRUE]
      BY <2>2, Zenon DEF send
    <3>2. sock \in [Fds -> Sockets]
      BY Zenon DEF TypeOK
    <3>3. c # None
      BY TableAssumption, Zenon
    <3>4. /\ \A f \in Fds : f # g => sock'[f] = sock[f]
          /\ sock'[g].at = sock[g].at /\ sock'[g].slot = sock[g].slot /\ sock'[g].heard = sock[g].heard
          /\ sock'[g].who = sock[g].who
      <4>1. CASE sock' = [sock EXCEPT ![g].req = @ + 1, ![g].edge = TRUE]
        BY <3>2, <4>1, Zenon DEF Sockets
      <4>2. CASE sock' = [sock EXCEPT ![g].hup = TRUE, ![g].edge = TRUE]
        BY <3>2, <4>2, Zenon DEF Sockets
      <4>3. QED
        BY <3>1, <4>1, <4>2, Zenon
    <3>5. NoSock.who = None
      BY DEF NoSock
    <3>6. QED
      BY <3>1, <3>3, <3>4, <3>5, Zenon DEF SameSocket
  <2>3. QED
    BY <2>1, <2>2, Zenon DEF Tick, connect
<1>5. Quiet
  BY <1>1, <1>3, <1>4, QuietSame, Zenon DEF Still
<1>6. ASSUME NEW u \in Workers PROVE ServingOK(u)'
  BY <1>1, <1>3, <1>5, QuietOwned, ServeKeep, Zenon
<1>7. QED
  BY <1>5, <1>6, QuietTable, Zenon

\* A quiet step of worker w, of which only what w itself serves is left to show.
LEMMA QuietStep ==
    ASSUME TypeOK, TypeOK', TableOK, Quiet, NEW w \in Workers, ServingOK(w)',
           \A u \in Workers \ {w} : Still(u) /\ (pc[u] = "close" => conns'[cur[u]].active = conns[cur[u]].active)
    PROVE  TableOK'
<1>1. ASSUME NEW u \in Workers, u # w PROVE ServingOK(u)'
  <2>1. clock <= clock'
    BY Zenon DEF Quiet
  <2>2. \A i \in Slots : Owned(u, i) => Owned(u, i)'
    BY QuietOwned, Zenon
  <2>3. Still(u) /\ (pc[u] = "close" => conns'[cur[u]].active = conns[cur[u]].active)
    BY <1>1, Zenon
  <2>4. QED
    BY <2>1, <2>2, <2>3, ServeKeep, Zenon
<1>2. QED
  BY <1>1, QuietTable, Zenon

\* The same, of a step that leaves the table itself as it is.
LEMMA SameStep ==
    ASSUME TypeOK, TypeOK', TableOK, NEW w \in Workers, heap' = heap, conns' = conns, clock' = clock,
           \A f \in Fds : SameSocket(f), \A u \in Workers \ {w} : Still(u),
           ~Moving(w), ~Accepting(w), ~Moving(w)', ~Accepting(w)'
    PROVE  Quiet /\ (ServingOK(w)' => TableOK')
<1>1. clock <= clock'
  <2>1. clock \in Nat
    BY Zenon DEF TypeOK
  <2>2. QED
    BY <2>1
<1>2. Quiet
  BY <1>1, QuietSame, Zenon DEF Still
<1>3. QED
  BY <1>2, QuietStep, Zenon

\* The events a worker takes from its epoll are of its own connections, one each.
LEMMA WaitTable ==
    ASSUME TypeOK, TypeOK', TableOK, NEW w \in Workers, epoll_wait(w)
    PROVE  TableOK'
<1>1. \A f \in Fds : SameSocket(f)
  <2>1. sock \in [Fds -> Sockets]
    BY Zenon DEF TypeOK
  <2>2. ASSUME NEW f \in Fds PROVE sock'[f] = sock[f] \/ (sock'[f] = [sock[f] EXCEPT !.edge = FALSE] /\ sock[f].at = w)
    BY Zenon DEF epoll_wait
  <2>3. w # NoSock.at
    BY TableAssumption DEF NoSock
  <2>4. ASSUME NEW f \in Fds, sock'[f] = [sock[f] EXCEPT !.edge = FALSE], sock[f].at = w PROVE SameSocket(f)
    <3>1. sock'[f].at = w /\ sock'[f].slot = sock[f].slot /\ sock'[f].heard = sock[f].heard
      BY <2>1, <2>4, Zenon DEF Sockets
    <3>2. QED
      BY <2>3, <2>4, <3>1, Zenon DEF SameSocket
  <2>5. QED
    BY <2>2, <2>4, Zenon DEF SameSocket
<1>2. /\ pc[w] = "wait" /\ pc'[w] = "events"
      /\ \A u \in Workers \ {w} : Still(u)
      /\ heap' = heap /\ conns' = conns /\ clock' = clock /\ now'[w] = now[w]
  BY Zenon DEF epoll_wait, Goto, Still, TypeOK, kernel
<1>3. Quiet /\ (ServingOK(w)' => TableOK')
  BY <1>1, <1>2, SameStep, Zenon DEF Moving, Filling, Releasing, Accepting
<1>4. ASSUME NEW e \in batch'[w]
      PROVE  \/ e = [slot |-> Listen, hup |-> FALSE]
             \/ \E f \in Fds : sock[f].at = w /\ e = [slot |-> sock[f].slot, hup |-> sock[f].hup]
  BY ZenonT(30) DEF epoll_wait, TypeOK
<1>5. ASSUME NEW f \in Fds, sock[f].at = w
      PROVE  sock[f].slot # Listen /\ Owned(w, sock[f].slot) /\ conns[sock[f].slot].fd = f
  <2>1. w # None
    BY TableAssumption, Zenon
  <2>2. Owned(w, sock[f].slot) /\ conns[sock[f].slot].fd = f
    BY <1>5, <2>1, SocketOwned, Zenon
  <2>3. sock[f].slot \in Slots
    BY <2>2, Zenon DEF Owned
  <2>4. QED
    BY <2>2, <2>3 DEF Slots, Listen
<1>6. ASSUME NEW e \in batch'[w] PROVE e.slot = Listen \/ Owned(w, e.slot)'
  <2>1. CASE e = [slot |-> Listen, hup |-> FALSE]
    BY <2>1, Zenon
  <2>2. ASSUME NEW f \in Fds, sock[f].at = w, e = [slot |-> sock[f].slot, hup |-> sock[f].hup]
        PROVE  Owned(w, e.slot)'
    <3>1. PICK i : i = sock[f].slot /\ e.slot = i
      BY <2>2, Zenon
    <3>2. Owned(w, i)
      BY <1>5, <2>2, <3>1, Zenon
    <3>3. QED
      BY <1>3, <3>1, <3>2, QuietOwned, Zenon
  <2>3. QED
    BY <1>4, <2>1, <2>2, Zenon
<1>7. ASSUME NEW e \in batch'[w], NEW g \in batch'[w], e.slot = g.slot PROVE e = g
  <2>1. CASE e = [slot |-> Listen, hup |-> FALSE] \/ g = [slot |-> Listen, hup |-> FALSE]
    <3>1. ASSUME NEW x \in batch'[w], x.slot = Listen PROVE x = [slot |-> Listen, hup |-> FALSE]
      <4>1. ASSUME NEW f \in Fds, sock[f].at = w, x = [slot |-> sock[f].slot, hup |-> sock[f].hup] PROVE FALSE
        BY <1>5, <3>1, <4>1, Zenon
      <4>2. QED
        BY <1>4, <4>1, Zenon
    <3>2. e.slot = Listen \/ g.slot = Listen
      <4>1. CASE e = [slot |-> Listen, hup |-> FALSE]
        BY <4>1, Zenon
      <4>2. CASE g = [slot |-> Listen, hup |-> FALSE]
        BY <4>2, Zenon
      <4>3. QED
        BY <2>1, <4>1, <4>2, Zenon
    <3>3. QED
      BY <1>7, <3>1, <3>2, Zenon
  <2>2. CASE ~(e = [slot |-> Listen, hup |-> FALSE] \/ g = [slot |-> Listen, hup |-> FALSE])
    <3>1. PICK f \in Fds : sock[f].at = w /\ e = [slot |-> sock[f].slot, hup |-> sock[f].hup]
      BY <1>4, <2>2, Zenon
    <3>2. PICK h \in Fds : sock[h].at = w /\ g = [slot |-> sock[h].slot, hup |-> sock[h].hup]
      BY <1>4, <2>2, Zenon
    <3>3. sock[f].slot = sock[h].slot
      BY <1>7, <3>1, <3>2, Zenon
    <3>4. f = h
      BY <1>5, <3>1, <3>2, <3>3, Zenon
    <3>5. QED
      BY <3>1, <3>2, <3>4, Zenon
  <2>3. QED
    BY <2>1, <2>2, Zenon
<1>8. ServingOK(w)
  BY Zenon DEF TableOK
<1>9. ServingOK(w)'
  BY <1>2, <1>6, <1>7, <1>8, Zenon DEF ServingOK, Serving, Releasing
<1>10. QED
  BY <1>3, <1>9, Zenon

\* Turning to the listening socket, and back from it when there is nothing to accept.
LEMMA ListenTable ==
    ASSUME TypeOK, TypeOK', TableOK, NEW w \in Workers,
           listen_event(w) \/ (accept(w) /\ pc'[w] = "events")
    PROVE  TableOK'
<1>1. /\ pc[w] \in {"events", "accept"} /\ pc'[w] \in {"events", "accept"}
      /\ \A u \in Workers \ {w} : Still(u)
      /\ batch'[w] \subseteq batch[w] /\ cur'[w] = cur[w] /\ now'[w] = now[w]
      /\ heap' = heap /\ conns' = conns /\ clock' = clock /\ sock' = sock
  <2>1. CASE listen_event(w)
    BY <2>1, Zenon DEF listen_event, Goto, Still, TypeOK, kernel
  <2>2. CASE accept(w) /\ pc'[w] = "events"
    <3>1. pc' = [pc EXCEPT ![w] = "events"] /\ UNCHANGED <<sock, next>>
      BY <2>2, Zenon DEF accept, Goto, TypeOK
    <3>2. QED
      BY <2>2, <3>1, Zenon DEF accept, Still, TypeOK
  <2>3. QED
    BY <2>1, <2>2, Zenon
<1>2. Quiet /\ (ServingOK(w)' => TableOK')
  BY <1>1, SameStep, Zenon DEF Moving, Filling, Releasing, Accepting, SameSocket
<1>3. ServingOK(w)
  BY Zenon DEF TableOK
<1>4. \A e \in batch'[w] : e.slot = Listen \/ Owned(w, e.slot)'
  BY <1>1, <1>2, <1>3, QuietOwned, Zenon DEF ServingOK
<1>5. ServingOK(w)'
  BY <1>1, <1>3, <1>4, Zenon DEF ServingOK, Serving, Releasing
<1>6. QED
  BY <1>2, <1>5, Zenon

\* An event a worker takes up is of a connection that is still its own.
LEMMA EventTable ==
    ASSUME TypeOK, TypeOK', TableOK, NEW w \in Workers, conn_event(w)
    PROVE  TableOK'
<1>1. PICK e \in batch[w] :
          /\ e.slot # Listen
          /\ batch'[w] = batch[w] \ {e} /\ cur'[w] = e.slot /\ next'[w] = 0
          /\ pc[w] = "events" /\ pc'[w] \in {"events", "close", "read", "reply"}
  BY ZenonT(30) DEF conn_event, Goto, TypeOK
<1>2. /\ \A u \in Workers \ {w} : Still(u)
      /\ heap' = heap /\ conns' = conns /\ clock' = clock /\ sock' = sock /\ now'[w] = now[w]
  BY ZenonT(30) DEF conn_event, Goto, Still, TypeOK, kernel
<1>3. Quiet /\ (ServingOK(w)' => TableOK')
  BY <1>1, <1>2, SameStep, Zenon DEF Moving, Filling, Releasing, Accepting, SameSocket
<1>4. ServingOK(w)
  BY Zenon DEF TableOK
<1>5. PICK i : i = e.slot /\ i = cur'[w] /\ Owned(w, i)
  BY <1>1, <1>4, Zenon DEF ServingOK
<1>6. Owned(w, i)'
  BY <1>3, <1>5, QuietOwned, Zenon
<1>7. \A g \in batch'[w] : g.slot = Listen \/ (Owned(w, g.slot)' /\ g.slot # i)
  BY <1>1, <1>3, <1>4, <1>5, QuietOwned, Zenon DEF ServingOK
<1>8. Owned(w, cur[w])'
  BY <1>5, <1>6, Zenon
<1>9. ServingOK(w)'
  BY <1>1, <1>2, <1>4, <1>5, <1>7, <1>8, Zenon DEF ServingOK, Serving, Releasing
<1>10. QED
  BY <1>3, <1>9, Zenon

\* The end of a round: nothing is left of the batch.
LEMMA LoopTable ==
    ASSUME TypeOK, TypeOK', TableOK, NEW w \in Workers, loop_end(w)
    PROVE  TableOK'
<1>1. /\ pc[w] = "events" /\ pc'[w] \in {"wait", "sweep"}
      /\ \A u \in Workers \ {w} : Still(u)
      /\ batch[w] = {} /\ batch'[w] = {} /\ next'[w] = 1 /\ now'[w] \in {now[w], clock}
      /\ heap' = heap /\ conns' = conns /\ clock' = clock /\ sock' = sock
  BY Zenon DEF loop_end, Goto, Still, TypeOK, kernel
<1>2. Quiet /\ (ServingOK(w)' => TableOK')
  BY <1>1, SameStep, Zenon DEF Moving, Filling, Releasing, Accepting, SameSocket
<1>3. ServingOK(w)
  BY Zenon DEF TableOK
<1>4. now'[w] <= clock'
  <2>1. clock \in Nat /\ now[w] <= clock
    BY <1>3, Zenon DEF ServingOK, TypeOK
  <2>2. QED
    BY <1>1, <2>1
<1>5. next'[w] # 0
  BY <1>1
<1>6. ServingOK(w)'
  BY <1>1, <1>4, <1>5, Zenon DEF ServingOK, Serving, Releasing
<1>7. QED
  BY <1>2, <1>6, Zenon

\* Up to the first sweep that takes another worker's connection, a sweep takes
\* only the worker's own, and only when it is idle.
LEMMA SweepTable ==
    ASSUME TypeOK, TypeOK', TableOK, NEW w \in Workers, sweep_slot(w), ~foreign'
    PROVE  TableOK'
<1>1. /\ pc[w] = "sweep" /\ pc'[w] \in {"wait", "close", "sweep"}
      /\ \A u \in Workers \ {w} : Still(u)
      /\ batch'[w] = batch[w]
      /\ heap' = heap /\ conns' = conns /\ clock' = clock /\ sock' = sock
  BY ZenonT(30) DEF sweep_slot, Goto, Still, TypeOK
<1>2. Quiet /\ (ServingOK(w)' => TableOK')
  BY <1>1, SameStep, Zenon DEF Moving, Filling, Releasing, Accepting, SameSocket
<1>3. ServingOK(w)
  BY Zenon DEF TableOK
<1>4. batch[w] = {} /\ next[w] # 0 /\ now[w] <= clock
  BY <1>1, <1>3, Zenon DEF ServingOK
<1>5. clock \in Nat /\ next[w] \in Nat /\ now[w] \in Nat
  BY Zenon DEF TypeOK
<1>6. CASE next[w] > VC_MAX_CONNS
  <2>1. now'[w] = 0 /\ pc'[w] = "wait"
    BY <1>6, Zenon DEF sweep_slot, Goto, TypeOK
  <2>2. now'[w] <= clock'
    BY <1>1, <1>5, <2>1
  <2>3. ServingOK(w)'
    BY <1>1, <1>4, <2>1, <2>2, Zenon DEF ServingOK, Serving, Releasing
  <2>4. QED
    BY <1>2, <2>3, Zenon
<1>7. CASE ~(next[w] > VC_MAX_CONNS)
  <2>1. PICK i : i = next[w]
    BY Zenon
  <2>2. /\ cur'[w] = i /\ next'[w] = i + 1 /\ now'[w] = now[w]
        /\ foreign' = (foreign \/ (Expired(w, i) /\ ~OwnedBy(w, i)))
        /\ pc'[w] = IF Expired(w, i) THEN "close" ELSE "sweep"
    BY <1>7, <2>1, Zenon DEF sweep_slot, Goto, TypeOK
  <2>3. i \in Slots
    BY <1>4, <1>5, <1>7, <2>1, TableAssumption DEF Slots
  <2>4. next'[w] # 0
    BY <1>5, <2>1, <2>2
  <2>5. ASSUME pc'[w] = "close" PROVE Owned(w, i) /\ clock - conns[i].active > Timeout
    <3>1. Expired(w, i)
      BY <2>2, <2>5, Zenon
    <3>2. OwnedBy(w, i)
      BY <2>2, <3>1, Zenon
    <3>3. Owned(w, i)
      BY <2>3, <3>2, Zenon DEF OwnedBy, Owned, IsOpen
    <3>4. now[w] - conns[i].active > Timeout
      BY <3>1, Zenon DEF Expired
    <3>5. conns[i].active \in Nat
      BY <2>3, Zenon DEF TypeOK, Conns
    <3>6. QED
      BY <1>4, <1>5, <3>3, <3>4, <3>5, TableAssumption
  <2>6. ASSUME pc'[w] = "close" PROVE Owned(w, cur[w])' /\ clock' - conns'[cur'[w]].active > Timeout
    <3>1. Owned(w, i)'
      BY <1>2, <2>5, <2>6, QuietOwned, Zenon
    <3>2. QED
      BY <1>1, <2>2, <2>5, <2>6, <3>1, Zenon
  <2>7. pc'[w] \in {"close", "sweep"} /\ now'[w] <= clock'
    BY <1>1, <1>4, <2>2, Zenon
  <2>8. ServingOK(w)'
    BY <1>1, <1>4, <2>4, <2>6, <2>7, Zenon DEF ServingOK, Serving, Releasing
  <2>9. QED
    BY <1>2, <2>8, Zenon
<1>8. QED
  BY <1>6, <1>7, Zenon

\* A worker that goes on with the connection it serves, after a quiet step.
LEMMA ServeOn ==
    ASSUME TypeOK, TypeOK', TableOK, Quiet, NEW w \in Workers, pc[w] \in {"read", "reply"},
           pc'[w] \in {"reply", "close", "events"}, clock' = clock,
           batch'[w] = batch[w], cur'[w] = cur[w], next'[w] = next[w], now'[w] = now[w],
           \A u \in Workers \ {w} : Still(u),
           \A i \in Slots : i # cur[w] => conns'[i].active = conns[i].active
    PROVE  TableOK'
<1>1. ServingOK(w)
  BY Zenon DEF TableOK
<1>2. Owned(w, cur[w]) /\ next[w] = 0
  BY <1>1, Zenon DEF ServingOK, Serving
<1>3. \A i : Owned(w, i) => Owned(w, i)'
  BY QuietOwned, Zenon
<1>4. Owned(w, cur[w])'
  <2>1. PICK i : i = cur[w] /\ i = cur'[w]
    BY Zenon
  <2>2. QED
    BY <1>2, <1>3, <2>1, Zenon
<1>5. \A e \in batch'[w] : e.slot = Listen \/ (Owned(w, e.slot)' /\ e.slot # cur'[w])
  BY <1>1, <1>3, Zenon DEF ServingOK, Serving
<1>6. ServingOK(w)'
  BY <1>1, <1>2, <1>4, <1>5, Zenon DEF ServingOK, Serving, Releasing
<1>7. ASSUME NEW u \in Workers \ {w}, pc[u] = "close" PROVE conns'[cur[u]].active = conns[cur[u]].active
  <2>1. ServingOK(u)
    BY Zenon DEF TableOK
  <2>2. Owned(u, cur[u])
    BY <1>7, <2>1, Zenon DEF ServingOK, Serving
  <2>3. cur[u] \in Slots /\ cur[u] # cur[w]
    BY <1>2, <2>2, OwnedSlot, Zenon
  <2>4. QED
    BY <2>3, Zenon
<1>8. QED
  BY <1>6, <1>7, QuietStep, Zenon

\* Reading a connection stamps it.
LEMMA ReadTable ==
    ASSUME TypeOK, TypeOK', TableOK, NEW w \in Workers, process_read(w)
    PROVE  TableOK'
<1>1. /\ pc[w] = "read" /\ pc'[w] \in {"reply", "close"}
      /\ \A u \in Workers \ {w} : Still(u)
      /\ batch'[w] = batch[w] /\ cur'[w] = cur[w] /\ next'[w] = next[w] /\ now'[w] = now[w]
      /\ heap' = heap /\ clock' = clock
  BY Zenon DEF process_read, Goto, Still, TypeOK, kernel, locals
<1>2. Owned(w, cur[w])
  BY <1>1, Zenon DEF TableOK, ServingOK, Serving
<1>3. PICK k, f : k = cur[w] /\ f = conns[k].fd
  BY Zenon
<1>4. k \in Slots /\ f \in Fds /\ sock[f].at = w /\ sock[f].slot = k /\ w # None
  BY <1>2, <1>3, TableAssumption, Zenon DEF Owned
<1>5. sock \in [Fds -> Sockets] /\ conns \in [Slots -> Conns] /\ clock \in Nat
  BY Zenon DEF TypeOK
<1>6. PICK t \in Nat, a \in Nat : (sock[f].req > 0 => t = clock /\ a = clock)
                                  /\ (~(sock[f].req > 0) => t = sock[f].heard /\ a = conns[k].active)
  <2>1. sock[f].heard \in Nat /\ conns[k].active \in Nat
    BY <1>4, <1>5, Zenon DEF Sockets, Conns
  <2>2. QED
    BY <1>5, <2>1, Zenon
<1>7. t <= a /\ a <= clock
  <2>1. SocketOK(f) /\ conns[k].active <= clock
    BY <1>4, Zenon DEF TableOK
  <2>2. sock[f].heard <= conns[k].active
    BY <1>4, <2>1, Zenon DEF SocketOK
  <2>3. clock <= clock
    BY <1>5
  <2>4. QED
    BY <1>6, <2>1, <2>2, <2>3, Zenon
<1>8. CASE sock' = sock /\ conns' = conns
  <2>1. Quiet
    <3>1. clock <= clock'
      BY <1>1, <1>5
    <3>2. \A g \in Fds : SameSocket(g)
      BY <1>8, Zenon DEF SameSocket
    <3>3. QED
      BY <1>1, <1>8, <3>1, <3>2, QuietSame, Zenon DEF Still, Moving, Filling, Releasing, Accepting
  <2>2. QED
    BY <1>1, <1>8, <2>1, ServeOn, Zenon
<1>9. CASE /\ sock' = [sock EXCEPT ![f].req = 0, ![f].heard = IF sock[f].req > 0 THEN clock ELSE @]
           /\ conns' = [conns EXCEPT ![k].active = IF sock[f].req > 0 THEN clock ELSE @]
  <2>1. /\ conns'[k].fd = conns[k].fd /\ conns'[k].state = conns[k].state /\ conns'[k].active = a
        /\ \A i \in Slots : i # k => conns'[i] = conns[i]
    BY <1>4, <1>5, <1>6, <1>9, Zenon DEF Conns
  <2>2. \A g \in Fds : g # f => sock'[g] = sock[g]
    BY <1>4, <1>5, <1>9, Zenon
  <2>3. sock'[f].at = w /\ sock'[f].slot = k /\ sock'[f].heard = t
    BY <1>4, <1>5, <1>6, <1>9, Zenon DEF Sockets
  <2>4. NoSock.at = None
    BY DEF NoSock
  <2>5. ASSUME NEW i \in Slots
        PROVE  /\ conns'[i].fd = conns[i].fd /\ (conns'[i].state = "FREE" <=> conns[i].state = "FREE")
               /\ conns'[i].active <= clock'
               /\ (\A u \in Workers : ~Owned(u, i)) => conns'[i].active = conns[i].active
    <3>1. conns[i].active <= clock
      BY Zenon DEF TableOK
    <3>2. QED
      BY <1>1, <1>2, <1>3, <1>7, <2>1, <3>1, Zenon
  <2>6. ASSUME NEW g \in Fds
        PROVE  /\ sock'[g].at = sock[g].at /\ sock'[g].slot = sock[g].slot
               /\ (sock'[g] = NoSock <=> sock[g] = NoSock)
               /\ sock[g].at = None => sock'[g].heard = sock[g].heard
               /\ sock[g].at # None => sock'[g].heard <= conns'[sock[g].slot].active
    <3>1. CASE g = f
      BY <1>4, <1>7, <2>1, <2>3, <2>4, <3>1, Zenon
    <3>2. CASE g # f
      <4>1. SocketOK(g)
        BY Zenon DEF TableOK
      <4>2. sock[g].at # None => sock[g].slot # k /\ sock[g].slot \in Slots
        BY <1>3, <3>2, <4>1, Zenon DEF SocketOK
      <4>3. QED
        BY <2>1, <2>2, <3>2, <4>1, <4>2, Zenon DEF SocketOK
    <3>3. QED
      BY <3>1, <3>2, Zenon
  <2>7. clock <= clock'
    BY <1>1, <1>5
  <2>8. Quiet
    BY <1>1, <2>5, <2>6, <2>7, Zenon DEF Quiet, Still, Moving, Filling, Releasing, Accepting
  <2>9. QED
    BY <1>1, <1>3, <2>1, <2>8, ServeOn, Zenon
<1>10. QED
  BY <1>3, <1>8, <1>9, Zenon DEF process_read

\* Serving a connection, up to its QUIT, leaves it with its worker.
LEMMA ReplyTable ==
    ASSUME TypeOK, TypeOK', TableOK, NEW w \in Workers, process_reply(w)
    PROVE  TableOK'
<1>1. /\ pc[w] = "reply" /\ pc'[w] \in {"close", "events"}
      /\ \A u \in Workers \ {w} : Still(u)
      /\ batch'[w] = batch[w] /\ cur'[w] = cur[w] /\ next'[w] = next[w] /\ now'[w] = now[w]
      /\ heap' = heap /\ clock' = clock /\ sock' = sock
  BY Zenon DEF process_reply, Goto, Still, TypeOK, kernel, locals
<1>2. Owned(w, cur[w])
  BY <1>1, Zenon DEF TableOK, ServingOK, Serving
<1>3. conns[cur[w]].state # "FREE"
  BY <1>2, OwnedSlot, Zenon
<1>4. ASSUME NEW i \in Slots
      PROVE  conns'[i].fd = conns[i].fd /\ conns'[i].active = conns[i].active
             /\ (conns'[i].state = "FREE" <=> conns[i].state = "FREE")
  <2>1. conns \in [Slots -> Conns]
    BY Zenon DEF TypeOK
  <2>2. \/ conns' = [conns EXCEPT ![cur[w]].state = "CLOSING"]
        \/ conns' = [conns EXCEPT ![cur[w]].state = @]
    BY Zenon DEF process_reply
  <2>3. conns'[i].fd = conns[i].fd /\ conns'[i].active = conns[i].active
    <3>1. CASE conns' = [conns EXCEPT ![cur[w]].state = "CLOSING"]
      BY <2>1, <3>1, Zenon DEF Conns
    <3>2. CASE conns' = [conns EXCEPT ![cur[w]].state = @]
      BY <2>1, <3>2, Zenon DEF Conns
    <3>3. QED
      BY <2>2, <3>1, <3>2, Zenon
  <2>4. conns'[i].state = conns[i].state \/ (i = cur[w] /\ conns'[i].state = "CLOSING")
    <3>1. CASE conns' = [conns EXCEPT ![cur[w]].state = "CLOSING"]
      BY <2>1, <3>1, Zenon DEF Conns
    <3>2. CASE conns' = [conns EXCEPT ![cur[w]].state = @]
      BY <2>1, <3>2, Zenon DEF Conns
    <3>3. QED
      BY <2>2, <3>1, <3>2, Zenon
  <2>5. QED
    BY <1>3, <2>3, <2>4, Zenon
<1>5. clock <= clock'
  <2>1. clock \in Nat
    BY Zenon DEF TypeOK
  <2>2. QED
    BY <1>1, <2>1
<1>6. Quiet
  <2>1. ASSUME NEW f \in Fds, sock[f].at # None PROVE sock'[f].heard <= conns'[sock[f].slot].active
    <3>1. SocketOK(f)
      BY Zenon DEF TableOK
    <3>2. QED
      BY <1>1, <1>4, <2>1, <3>1, Zenon DEF SocketOK
  <2>2. \A i \in Slots : conns'[i].active <= clock'
    BY <1>1, <1>4, Zenon DEF TableOK
  <2>3. QED
    BY <1>1, <1>4, <1>5, <2>1, <2>2, Zenon DEF Quiet, Still, Moving, Filling, Releasing, Accepting
<1>7. QED
  BY <1>1, <1>4, <1>6, ServeOn, Zenon

-----------------------------------------------------------------------------
(* The steps that change the table.                                        *)

\* An accepted connection gets a descriptor no one holds.
LEMMA AcceptTable ==
    ASSUME TypeOK, TypeOK', TableOK, NEW w \in Workers, accept(w), pc'[w] # "events"
    PROVE  TableOK'
<1>1. PICK T : T = {g \in Fds : sock[g] = NoSock}
  BY Zenon
<1>2. backlog[w] # <<>> /\ T # {}
  BY <1>1, Zenon DEF accept, Goto, TypeOK
<1>3. PICK f, c : f = Min(T) /\ c = Head(backlog[w])
  BY Zenon
<1>4. f \in Fds /\ sock[f] = NoSock
  <2>1. T \subseteq Nat
    BY <1>1 DEF Fds
  <2>2. QED
    BY <1>1, <1>2, <1>3, <2>1, MinIsIn, Zenon
<1>5. c # None
  <2>1. backlog[w] \in Seq(Clients)
    BY Zenon DEF TypeOK
  <2>2. c \in Clients
    BY <1>2, <1>3, <2>1
  <2>3. QED
    BY <2>2, TableAssumption, Zenon
<1>6. /\ sock' = [sock EXCEPT ![f] = Socket(c)] /\ next'[w] = f
      /\ pc[w] = "accept" /\ pc'[w] = "alloc"
      /\ \A u \in Workers \ {w} : Still(u)
      /\ batch'[w] = batch[w] /\ cur'[w] = cur[w] /\ now'[w] = now[w]
  BY <1>1, <1>2, <1>3, Zenon DEF accept, Goto, Still, TypeOK
<1>7. conns' = conns /\ heap' = heap /\ clock' = clock /\ clock \in Nat
  BY Zenon DEF accept, TypeOK
<1>8. NoSock.at = None /\ NoSock.who = None /\ NoSock.slot = 0
  BY DEF NoSock
<1>9. Socket(c).at = None /\ Socket(c).slot = 0 /\ Socket(c).heard = clock /\ Socket(c) # NoSock
  <2>1. Socket(c).who = c /\ Socket(c).at = None /\ Socket(c).slot = 0 /\ Socket(c).heard = clock
    BY DEF Socket, NoSock
  <2>2. QED
    BY <1>5, <1>8, <2>1, Zenon
<1>10. sock'[f] = Socket(c) /\ \A g \in Fds : g # f => sock'[g] = sock[g]
  BY <1>4, <1>6, Zenon DEF TypeOK
<1>11. \A g \in Fds : sock'[g].at = sock[g].at /\ sock'[g].slot = sock[g].slot
  BY <1>4, <1>8, <1>9, <1>10, Zenon
<1>12. ASSUME NEW v, NEW i PROVE Owned(v, i)' <=> Owned(v, i)
  BY <1>7, <1>11, Zenon DEF Owned
<1>13. ASSUME NEW u \in Workers PROVE /\ Moving(u)' <=> Moving(u)
                                      /\ u # w => (Accepting(u)' <=> Accepting(u))
                                      /\ cur'[u] = cur[u] /\ (u # w => next'[u] = next[u])
  BY <1>6, Zenon DEF Still, Moving, Filling, Releasing, Accepting
<1>14. ASSUME NEW g \in Fds PROVE SocketOK(g)'
  <2>1. SocketOK(g)
    BY Zenon DEF TableOK
  <2>2. QED
    BY <1>4, <1>7, <1>8, <1>10, <1>11, <2>1, Zenon DEF SocketOK
<1>15. ASSUME NEW i \in Slots PROVE (SlotOK(i) /\ conns[i].active <= clock)'
  <2>1. SlotOK(i) /\ conns[i].active <= clock
    BY Zenon DEF TableOK
  <2>2. QED
    BY <1>7, <1>12, <1>13, <2>1, Zenon DEF SlotOK
<1>16. ASSUME NEW u \in Workers, u # w PROVE MovingOK(u)'
  <2>1. MovingOK(u)
    BY Zenon DEF TableOK
  <2>2. Accepting(u) => next[u] # f
    BY <1>4, <2>1, Zenon DEF MovingOK
  <2>3. (Moving(u) => /\ cur[u] \in Slots /\ conns[cur[u]].state # "FREE"
                      /\ \A v \in Workers : ~Owned(v, cur[u])
                      /\ \A v \in Workers : v # u /\ Moving(v) => cur[v] # cur[u])'
    <3>1. PICK i : i = cur[u] /\ i = cur'[u]
      BY <1>13, Zenon
    <3>2. QED
      BY <1>7, <1>12, <1>13, <2>1, <3>1, Zenon DEF MovingOK
  <2>4. (Accepting(u) => /\ next[u] \in Fds /\ sock[next[u]] # NoSock /\ sock[next[u]].at = None
                         /\ \A v \in Workers : v # u /\ Accepting(v) => next[v] # next[u]
                         /\ sock[next[u]].heard <= clock)'
    BY <1>6, <1>7, <1>10, <1>13, <1>16, <2>1, <2>2, ZenonT(30) DEF MovingOK
  <2>5. (pc[u] = "register" => cur[u] \in heap /\ sock[next[u]].heard <= conns[cur[u]].active)'
    <3>1. pc[u] = "register" => Accepting(u)
      BY Zenon DEF Accepting
    <3>2. QED
      BY <1>6, <1>7, <1>10, <1>16, <2>1, <2>2, <3>1, Zenon DEF MovingOK, Still
  <2>6. QED
    BY <2>3, <2>4, <2>5, Zenon DEF MovingOK
<1>17. MovingOK(w)'
  <2>1. ~Moving(w)' /\ pc'[w] # "register"
    BY <1>6, Zenon DEF Moving, Filling, Releasing
  <2>2. \A u \in Workers : u # w /\ Accepting(u)' => next'[u] # f
    BY <1>4, <1>13, Zenon DEF TableOK, MovingOK
  <2>3. clock <= clock
    BY <1>7
  <2>4. QED
    BY <1>4, <1>6, <1>7, <1>9, <1>10, <2>1, <2>2, <2>3, Zenon DEF MovingOK
<1>18. ASSUME NEW u \in Workers PROVE ServingOK(u)'
  <2>1. ServingOK(u)
    BY Zenon DEF TableOK
  <2>2. CASE u # w
    <3>1. clock <= clock'
      BY <1>7
    <3>2. QED
      BY <1>6, <1>7, <1>12, <2>2, <3>1, ServeKeep, Zenon
  <2>3. CASE u = w
    <3>1. \A e \in batch'[w] : e.slot = Listen \/ Owned(w, e.slot)'
      BY <1>6, <1>12, <2>1, <2>3, Zenon DEF ServingOK
    <3>2. QED
      BY <1>6, <1>7, <2>1, <2>3, <3>1, Zenon DEF ServingOK, Serving, Releasing
  <2>4. QED
    BY <2>2, <2>3, Zenon
<1>19. QED
  BY <1>14, <1>15, <1>16, <1>17, <1>18, Zenon DEF TableOK

\* A worker keeps what it holds while another one, w, takes nothing of it.
LEMMA MoveKeep ==
    ASSUME TableOK, NEW w \in Workers, NEW u \in Workers, u # w, clock' = clock,
           \A v \in Workers \ {w} : Still(v),
           Moving(u) => /\ conns'[cur[u]].state # "FREE"
                        /\ \A i, v : i = cur[u] /\ v \in Workers => ~Owned(v, i)'
                        /\ Moving(w)' => cur'[w] # cur[u],
           Accepting(u) => /\ sock'[next[u]] = sock[next[u]]
                           /\ Accepting(w)' => next'[w] # next[u],
           pc[u] = "register" => cur[u] \in heap' /\ conns'[cur[u]].active = conns[cur[u]].active
    PROVE  MovingOK(u)'
<1>1. MovingOK(u) /\ Still(u)
  BY Zenon DEF TableOK
<1>2. ASSUME NEW v \in Workers, v # w
      PROVE  (Moving(v)' <=> Moving(v)) /\ (Accepting(v)' <=> Accepting(v)) /\ cur'[v] = cur[v] /\ next'[v] = next[v]
  BY <1>2, Zenon DEF Still, Moving, Filling, Releasing, Accepting
<1>3. (Moving(u) => /\ cur[u] \in Slots /\ conns[cur[u]].state # "FREE"
                    /\ \A v \in Workers : ~Owned(v, cur[u])
                    /\ \A v \in Workers : v # u /\ Moving(v) => cur[v] # cur[u])'
  <2>1. PICK i : i = cur[u] /\ i = cur'[u]
    BY <1>2, Zenon
  <2>2. QED
    BY <1>1, <1>2, <2>1, Zenon DEF MovingOK
<1>4. (Accepting(u) => /\ next[u] \in Fds /\ sock[next[u]] # NoSock /\ sock[next[u]].at = None
                       /\ \A v \in Workers : v # u /\ Accepting(v) => next[v] # next[u]
                       /\ sock[next[u]].heard <= clock)'
  BY <1>1, <1>2, Zenon DEF MovingOK
<1>5. (pc[u] = "register" => cur[u] \in heap /\ sock[next[u]].heard <= conns[cur[u]].active)'
  <2>1. pc[u] = "register" => Accepting(u)
    BY Zenon DEF Accepting
  <2>2. QED
    BY <1>1, <2>1, Zenon DEF MovingOK, Still
<1>6. QED
  BY <1>3, <1>4, <1>5, Zenon DEF MovingOK

\* A step that keeps every connection its owner keeps what the workers serve, as
\* long as the worker that takes it, w, is accepting.
LEMMA ServeAccepting ==
    ASSUME TypeOK, TypeOK', TableOK, NEW w \in Workers, pc'[w] \in {"accept", "alloc", "alloc_fill", "register"},
           batch'[w] = batch[w], now'[w] = now[w], clock' = clock, \A v \in Workers \ {w} : Still(v),
           \A u \in Workers, i \in Slots : Owned(u, i) => Owned(u, i)',
           \A u \in Workers, i \in Slots : Owned(u, i) => conns'[i].active = conns[i].active,
           NEW u \in Workers
    PROVE  ServingOK(u)'
<1>1. ServingOK(u)
  BY Zenon DEF TableOK
<1>2. CASE u # w
  <2>1. clock <= clock'
    <3>1. clock \in Nat
      BY Zenon DEF TypeOK
    <3>2. QED
      BY <3>1
  <2>2. pc[u] = "close" => conns'[cur[u]].active = conns[cur[u]].active
    BY <1>1, Zenon DEF ServingOK, Serving, Owned
  <2>3. Still(u)
    BY <1>2, Zenon
  <2>4. \A i \in Slots : Owned(u, i) => Owned(u, i)'
    BY Zenon
  <2>5. QED
    BY <2>1, <2>2, <2>3, <2>4, ServeKeep, Zenon
<1>3. CASE u = w
  <2>1. ASSUME NEW i, Owned(w, i) PROVE Owned(w, i)'
    <3>1. i \in Slots
      BY <2>1, Zenon DEF Owned
    <3>2. QED
      BY <2>1, <3>1, Zenon
  <2>2. \A e \in batch'[w] : e.slot = Listen \/ Owned(w, e.slot)'
    BY <1>1, <1>3, <2>1, Zenon DEF ServingOK
  <2>3. QED
    BY <1>1, <1>3, <2>2, Zenon DEF ServingOK, Serving, Releasing
<1>4. QED
  BY <1>2, <1>3, Zenon

\* The table is full: the new connection is closed again.
LEMMA FullTable ==
    ASSUME TypeOK, TypeOK', TableOK, NEW w \in Workers, conn_alloc(w), pc'[w] = "accept"
    PROVE  TableOK'
<1>1. PICK f : f = next[w]
  BY Zenon
<1>2. /\ pc[w] = "alloc" /\ sock' = [sock EXCEPT ![f] = NoSock]
      /\ \A u \in Workers \ {w} : Still(u)
      /\ batch'[w] = batch[w] /\ now'[w] = now[w]
      /\ conns' = conns /\ heap' = heap /\ clock' = clock
  BY <1>1, Zenon DEF conn_alloc, Goto, Still, TypeOK, kernel
<1>3. Accepting(w) /\ MovingOK(w)
  BY <1>2, Zenon DEF TableOK, Accepting
<1>4. f \in Fds /\ sock[f].at = None /\ \A u \in Workers : u # w /\ Accepting(u) => next[u] # f
  BY <1>1, <1>3, Zenon DEF MovingOK
<1>5. NoSock.at = None /\ sock'[f] = NoSock /\ \A g \in Fds : g # f => sock'[g] = sock[g]
  <2>1. NoSock.at = None
    BY DEF NoSock
  <2>2. QED
    BY <1>2, <1>4, <2>1, Zenon DEF TypeOK
<1>6. ASSUME NEW v \in Workers, NEW i PROVE Owned(v, i)' <=> Owned(v, i)
  <2>1. v # None
    BY TableAssumption, Zenon
  <2>2. QED
    BY <1>2, <1>4, <1>5, <2>1, Zenon DEF Owned
<1>7. ASSUME NEW u \in Workers PROVE /\ Moving(u)' <=> Moving(u)
                                     /\ Moving(u) => cur'[u] = cur[u]
  BY <1>2, Zenon DEF Still, Moving, Filling, Releasing
<1>8. ASSUME NEW g \in Fds PROVE SocketOK(g)'
  <2>1. SocketOK(g)
    BY Zenon DEF TableOK
  <2>2. CASE g = f
    BY <1>5, <2>2, Zenon DEF SocketOK
  <2>3. CASE g # f
    <3>1. sock'[g] = sock[g] /\ conns' = conns /\ heap' = heap
      BY <1>2, <1>5, <2>3, Zenon
    <3>2. QED
      BY <2>1, <3>1, Zenon DEF SocketOK
  <2>4. QED
    BY <2>2, <2>3, Zenon
<1>9. ASSUME NEW i \in Slots PROVE (SlotOK(i) /\ conns[i].active <= clock)'
  <2>1. SlotOK(i) /\ conns[i].active <= clock
    BY Zenon DEF TableOK
  <2>2. QED
    BY <1>2, <1>6, <1>7, <2>1, Zenon DEF SlotOK
<1>10. ~Moving(w)' /\ ~Accepting(w)' /\ MovingOK(w)'
  BY Zenon DEF MovingOK, Moving, Filling, Releasing, Accepting
<1>11. ASSUME NEW u \in Workers, u # w PROVE MovingOK(u)'
  <2>1. MovingOK(u)
    BY Zenon DEF TableOK
  <2>2. Moving(u) => conns'[cur[u]].state # "FREE" /\ \A i, v : i = cur[u] /\ v \in Workers => ~Owned(v, i)'
    BY <1>2, <1>6, <2>1, Zenon DEF MovingOK
  <2>3. Accepting(u) => sock'[next[u]] = sock[next[u]]
    BY <1>4, <1>5, <1>11, <2>1, Zenon DEF MovingOK
  <2>4. pc[u] = "register" => cur[u] \in heap' /\ conns'[cur[u]].active = conns[cur[u]].active
    BY <1>2, <2>1, Zenon DEF MovingOK
  <2>5. QED
    BY <1>2, <1>10, <1>11, <2>2, <2>3, <2>4, MoveKeep, Zenon
<1>12. ASSUME NEW u \in Workers PROVE ServingOK(u)'
  BY <1>2, <1>6, ServeAccepting, Zenon
<1>13. QED
  BY <1>8, <1>9, <1>10, <1>11, <1>12, Zenon DEF TableOK

\* A slot that is claimed was no one's.
LEMMA ClaimTable ==
    ASSUME TypeOK, TypeOK', TableOK, NEW w \in Workers, conn_alloc(w), pc'[w] # "accept"
    PROVE  TableOK'
<1>1. PICK T : T = {i \in Slots : conns[i].state = "FREE"}
  BY Zenon
<1>2. PICK m : m = Min(T)
  BY Zenon
<1>3. /\ pc[w] = "alloc" /\ pc'[w] = "alloc_fill" /\ T # {}
      /\ conns' = [conns EXCEPT ![m].state = "CONNECTED"] /\ cur'[w] = m
      /\ \A u \in Workers \ {w} : Still(u)
      /\ batch'[w] = batch[w] /\ now'[w] = now[w] /\ next'[w] = next[w]
      /\ sock' = sock /\ heap' = heap /\ clock' = clock
  BY <1>1, <1>2, Zenon DEF conn_alloc, Goto, Still, TypeOK, kernel
<1>4. m \in Slots /\ conns[m].state = "FREE"
  <2>1. T \subseteq Nat
    BY <1>1 DEF Slots
  <2>2. QED
    BY <1>1, <1>2, <1>3, <2>1, MinIsIn, Zenon
<1>5. /\ conns'[m].state # "FREE"
      /\ \A i \in Slots : i # m => conns'[i].state = conns[i].state
      /\ \A i \in Slots : conns'[i].fd = conns[i].fd /\ conns'[i].active = conns[i].active
  <2>1. conns \in [Slots -> Conns]
    BY Zenon DEF TypeOK
  <2>2. QED
    BY <1>3, <1>4, <2>1, Zenon DEF Conns
<1>6. ASSUME NEW v \in Workers, NEW i PROVE Owned(v, i)' <=> Owned(v, i)
  BY <1>3, <1>5, Zenon DEF Owned
<1>7. ASSUME NEW u \in Workers, Moving(u) PROVE u # w /\ Moving(u)' /\ cur'[u] = cur[u] /\ cur[u] # m
  <2>1. MovingOK(u)
    BY Zenon DEF TableOK
  <2>2. u # w /\ cur[u] # m
    BY <1>3, <1>4, <1>7, <2>1, Zenon DEF MovingOK, Moving, Filling, Releasing
  <2>3. QED
    BY <1>3, <1>7, <2>2, Zenon DEF Still, Moving, Filling, Releasing
<1>8. ASSUME NEW g \in Fds PROVE SocketOK(g)'
  <2>1. SocketOK(g)
    BY Zenon DEF TableOK
  <2>2. QED
    BY <1>3, <1>5, <2>1, Zenon DEF SocketOK
<1>9. Moving(w)' /\ Accepting(w)'
  BY <1>3, Zenon DEF Moving, Filling, Accepting
<1>10. ASSUME NEW i \in Slots PROVE (SlotOK(i) /\ conns[i].active <= clock)'
  <2>1. SlotOK(i) /\ conns[i].active <= clock
    BY Zenon DEF TableOK
  <2>2. CASE i = m
    BY <1>3, <1>5, <1>9, <2>1, <2>2, Zenon DEF SlotOK
  <2>3. CASE i # m
    BY <1>3, <1>5, <1>6, <1>7, <2>1, <2>3, Zenon DEF SlotOK
  <2>4. QED
    BY <2>2, <2>3, Zenon
<1>11. MovingOK(w)'
  <2>1. MovingOK(w) /\ Accepting(w)
    BY <1>3, Zenon DEF TableOK, Accepting
  <2>2. ASSUME NEW u \in Workers PROVE ~Owned(u, m)'
    BY <1>4, <1>6, OwnedSlot, Zenon
  <2>3. ASSUME NEW u \in Workers, u # w, Moving(u)' PROVE cur'[u] # m
    <3>1. Moving(u)
      BY <1>3, <2>3, Zenon DEF Still, Moving, Filling, Releasing
    <3>2. QED
      BY <1>7, <3>1, Zenon
  <2>4. ASSUME NEW u \in Workers, u # w, Accepting(u)' PROVE next'[u] # next'[w]
    BY <1>3, <2>1, <2>4, Zenon DEF MovingOK, Still, Accepting
  <2>5. QED
    BY <1>3, <1>4, <1>5, <2>1, <2>2, <2>3, <2>4, Zenon DEF MovingOK
<1>12. ASSUME NEW u \in Workers, u # w PROVE MovingOK(u)'
  <2>1. MovingOK(u)
    BY Zenon DEF TableOK
  <2>2. Moving(u) => /\ conns'[cur[u]].state # "FREE"
                     /\ \A i, v : i = cur[u] /\ v \in Workers => ~Owned(v, i)'
                     /\ cur'[w] # cur[u]
    BY <1>3, <1>5, <1>6, <1>7, <2>1, Zenon DEF MovingOK
  <2>3. Accepting(u) => sock'[next[u]] = sock[next[u]] /\ next'[w] # next[u]
    <3>1. Accepting(w) /\ w # u
      BY <1>3, <1>12, Zenon DEF Accepting
    <3>2. QED
      BY <1>3, <2>1, <3>1, Zenon DEF MovingOK
  <2>4. pc[u] = "register" => cur[u] \in heap' /\ conns'[cur[u]].active = conns[cur[u]].active
    BY <1>3, <1>5, <2>1, Zenon DEF MovingOK, Moving, Filling
  <2>5. QED
    BY <1>3, <1>12, <2>2, <2>3, <2>4, MoveKeep, Zenon
<1>13. ASSUME NEW u \in Workers PROVE ServingOK(u)'
  BY <1>3, <1>5, <1>6, ServeAccepting, Zenon
<1>14. QED
  BY <1>8, <1>10, <1>11, <1>12, <1>13, Zenon DEF TableOK

\* A claimed slot gets its buffers and its stamp before anyone serves it.
LEMMA FillTable ==
    ASSUME TypeOK, TypeOK', TableOK, NEW w \in Workers, alloc_fill(w)
    PROVE  TableOK'
<1>1. PICK k, f : k = cur[w] /\ f = next[w]
  BY Zenon
<1>2. /\ pc[w] = "alloc_fill" /\ pc'[w] = "register"
      /\ heap' = heap \cup {k} /\ conns' = [conns EXCEPT ![k].active = clock]
      /\ \A u \in Workers : u # w => Still(u)
      /\ batch'[w] = batch[w] /\ now'[w] = now[w] /\ next'[w] = f /\ cur'[w] = k
      /\ sock' = sock /\ clock' = clock
  BY <1>1, Zenon DEF alloc_fill, Goto, Still, TypeOK, kernel, locals
<1>3. MovingOK(w) /\ Moving(w) /\ Accepting(w)
  BY <1>2, Zenon DEF TableOK, Moving, Filling, Accepting
<1>4. /\ k \in Slots /\ conns[k].state # "FREE" /\ \A u \in Workers : ~Owned(u, k)
      /\ \A u \in Workers : u # w /\ Moving(u) => cur[u] # k
      /\ f \in Fds /\ sock[f].heard <= clock /\ sock[f] # NoSock /\ sock[f].at = None
      /\ \A u \in Workers : u # w /\ Accepting(u) => next[u] # f
  BY <1>1, <1>3, Zenon DEF MovingOK
<1>5. /\ conns'[k].active = clock
      /\ \A i \in Slots : conns'[i].fd = conns[i].fd /\ conns'[i].state = conns[i].state
      /\ \A i \in Slots : i # k => conns'[i] = conns[i]
  <2>1. conns \in [Slots -> Conns]
    BY Zenon DEF TypeOK
  <2>2. QED
    BY <1>2, <1>4, <2>1, Zenon DEF Conns
<1>6. ASSUME NEW v \in Workers, NEW i PROVE Owned(v, i)' <=> Owned(v, i)
  BY <1>2, <1>5, Zenon DEF Owned
<1>7. ASSUME NEW u \in Workers PROVE /\ Moving(u)' <=> Moving(u)
                                     /\ Accepting(u)' <=> Accepting(u)
                                     /\ cur'[u] = cur[u] /\ next'[u] = next[u]
  BY <1>1, <1>2, Zenon DEF Still, Moving, Filling, Releasing, Accepting
<1>8. ASSUME NEW g \in Fds PROVE SocketOK(g)'
  <2>1. SocketOK(g)
    BY Zenon DEF TableOK
  <2>2. sock[g].at # None => sock[g].slot # k /\ sock[g].slot \in Slots
    <3>1. sock[g].at # None => sock[g].at \in Workers /\ Owned(sock[g].at, sock[g].slot)
      BY SocketOwned, Zenon
    <3>2. QED
      BY <1>4, <3>1, Zenon DEF Owned
  <2>3. QED
    BY <1>2, <1>5, <2>1, <2>2, Zenon DEF SocketOK
<1>9. ASSUME NEW i \in Slots PROVE (SlotOK(i) /\ conns[i].active <= clock)'
  <2>1. SlotOK(i) /\ conns[i].active <= clock
    BY Zenon DEF TableOK
  <2>2. clock <= clock
    <3>1. clock \in Nat
      BY Zenon DEF TypeOK
    <3>2. QED
      BY <3>1
  <2>3. SlotOK(i)'
    BY <1>5, <1>6, <1>7, <2>1, Zenon DEF SlotOK
  <2>4. QED
    BY <1>2, <1>5, <2>1, <2>2, <2>3, Zenon
<1>10. MovingOK(w)'
  <2>1. \A u \in Workers : ~Owned(u, k)'
    BY <1>4, <1>6, Zenon
  <2>2. \A u \in Workers : u # w /\ Moving(u)' => cur'[u] # k
    BY <1>4, <1>7, Zenon
  <2>3. \A u \in Workers : u # w /\ Accepting(u)' => next'[u] # f
    BY <1>4, <1>7, Zenon
  <2>4. conns'[k].state # "FREE" /\ k \in heap'
    BY <1>2, <1>4, <1>5, Zenon
  <2>5. /\ next'[w] = f /\ cur'[w] = k /\ sock'[f] # NoSock /\ sock'[f].at = None
        /\ sock'[f].heard <= clock' /\ sock'[f].heard <= conns'[k].active
    BY <1>2, <1>4, <1>5, Zenon
  <2>6. QED
    BY <1>4, <2>1, <2>2, <2>3, <2>4, <2>5, Zenon DEF MovingOK
<1>11. ASSUME NEW u \in Workers, u # w PROVE MovingOK(u)'
  <2>1. MovingOK(u)
    BY Zenon DEF TableOK
  <2>2. Moving(u) => /\ conns'[cur[u]].state # "FREE"
                     /\ \A i, v : i = cur[u] /\ v \in Workers => ~Owned(v, i)'
                     /\ cur'[w] # cur[u]
    BY <1>2, <1>4, <1>5, <1>6, <1>11, <2>1, Zenon DEF MovingOK
  <2>3. Accepting(u) => sock'[next[u]] = sock[next[u]] /\ next'[w] # next[u]
    BY <1>2, <1>4, <1>11, Zenon
  <2>4. pc[u] = "register" => cur[u] \in heap' /\ conns'[cur[u]].active = conns[cur[u]].active
    <3>1. pc[u] = "register" => Moving(u)
      BY Zenon DEF Moving, Filling
    <3>2. QED
      BY <1>2, <1>4, <1>5, <1>11, <2>1, <3>1, Zenon DEF MovingOK
  <2>5. \A v \in Workers \ {w} : Still(v)
    BY <1>2, Zenon
  <2>6. QED
    BY <1>2, <1>11, <2>2, <2>3, <2>4, <2>5, MoveKeep, Zenon
<1>12. ASSUME NEW u \in Workers PROVE ServingOK(u)'
  <2>1. \A v \in Workers, i \in Slots : Owned(v, i) => conns'[i].active = conns[i].active
    BY <1>4, <1>5, Zenon
  <2>2. \A v \in Workers \ {w} : Still(v)
    BY <1>2, Zenon
  <2>3. QED
    BY <1>2, <1>6, <2>1, <2>2, ServeAccepting, Zenon
<1>13. QED
  BY <1>8, <1>9, <1>10, <1>11, <1>12, Zenon DEF TableOK

\* Registering gives the slot its socket, and the socket its worker.
LEMMA RegisterTable ==
    ASSUME TypeOK, TypeOK', TableOK, NEW w \in Workers, register(w)
    PROVE  TableOK'
<1>1. PICK k, f, b : k = cur[w] /\ f = next[w] /\ b = Ready(sock[f])
  BY Zenon
<1>2. /\ pc[w] = "register" /\ pc'[w] = "accept"
      /\ conns' = [conns EXCEPT ![k].fd = f]
      /\ sock' = [sock EXCEPT ![f].at = w, ![f].slot = k, ![f].edge = b]
      /\ \A u \in Workers : u # w => Still(u)
      /\ batch'[w] = batch[w] /\ now'[w] = now[w] /\ next'[w] = f /\ cur'[w] = k
      /\ heap' = heap /\ clock' = clock
  BY <1>1, Zenon DEF register, Goto, Still, TypeOK, kernel, locals
<1>3. MovingOK(w) /\ Moving(w) /\ Accepting(w)
  BY <1>2, Zenon DEF TableOK, Moving, Filling, Accepting
<1>4. /\ k \in Slots /\ conns[k].state # "FREE" /\ \A u \in Workers : ~Owned(u, k)
      /\ \A u \in Workers : u # w /\ Moving(u) => cur[u] # k
      /\ f \in Fds /\ sock[f].at = None /\ k \in heap /\ sock[f].heard <= conns[k].active
      /\ \A u \in Workers : u # w /\ Accepting(u) => next[u] # f
  BY <1>1, <1>2, <1>3, Zenon DEF MovingOK
<1>5. /\ conns'[k].fd = f
      /\ \A i \in Slots : conns'[i].active = conns[i].active /\ conns'[i].state = conns[i].state
      /\ \A i \in Slots : i # k => conns'[i] = conns[i]
  <2>1. conns \in [Slots -> Conns]
    BY Zenon DEF TypeOK
  <2>2. QED
    BY <1>2, <1>4, <2>1, Zenon DEF Conns
<1>6. /\ sock'[f].at = w /\ sock'[f].slot = k /\ sock'[f].heard = sock[f].heard
      /\ \A g \in Fds : g # f => sock'[g] = sock[g]
  <2>1. sock \in [Fds -> Sockets]
    BY Zenon DEF TypeOK
  <2>2. \A g \in Fds : g # f => sock'[g] = sock[g]
    BY <1>2, <2>1, Zenon
  <2>3. sock'[f].at = w /\ sock'[f].slot = k /\ sock'[f].heard = sock[f].heard
    <3>1. sock[f] \in Sockets /\ sock'[f] = [sock[f] EXCEPT !.at = w, !.slot = k, !.edge = b]
      BY <1>2, <1>4, <2>1, Zenon
    <3>2. QED
      BY <3>1, Zenon DEF Sockets
  <2>4. QED
    BY <2>2, <2>3, Zenon
<1>7. None \notin Workers
  BY TableAssumption, Zenon
<1>8. ASSUME NEW v \in Workers, NEW i PROVE Owned(v, i)' <=> (Owned(v, i) \/ (v = w /\ i = k))
  <2>1. CASE i = k
    BY <1>4, <1>5, <1>6, <2>1, Zenon DEF Owned
  <2>2. CASE i # k /\ i \in Slots
    <3>1. conns'[i].fd = conns[i].fd
      BY <1>5, <2>2, Zenon
    <3>2. CASE conns[i].fd = f
      <4>1. ~Owned(v, i) /\ ~Owned(v, i)'
        BY <1>4, <1>6, <1>7, <2>2, <3>1, <3>2, Zenon DEF Owned
      <4>2. QED
        BY <2>2, <4>1, Zenon
    <3>3. CASE conns[i].fd # f
      <4>1. conns[i].fd \in Fds => sock'[conns[i].fd] = sock[conns[i].fd]
        BY <1>6, <3>3, Zenon
      <4>2. QED
        BY <2>2, <3>1, <4>1, Zenon DEF Owned
    <3>4. QED
      BY <3>2, <3>3, Zenon
  <2>3. CASE i \notin Slots
    BY <1>4, <2>3, Zenon DEF Owned
  <2>4. QED
    BY <2>1, <2>2, <2>3, Zenon
<1>9. ASSUME NEW g \in Fds PROVE SocketOK(g)'
  <2>1. SocketOK(g)
    BY Zenon DEF TableOK
  <2>2. CASE g = f
    <3>1. conns'[k].active = conns[k].active /\ conns'[k].state # "FREE" /\ k \in heap'
      BY <1>2, <1>4, <1>5, Zenon
    <3>2. QED
      BY <1>4, <1>5, <1>6, <2>2, <3>1, Zenon DEF SocketOK
  <2>3. CASE g # f
    <3>1. sock[g].at # None => sock[g].slot # k /\ sock[g].slot \in Slots
      <4>1. sock[g].at # None => sock[g].at \in Workers /\ Owned(sock[g].at, sock[g].slot)
        BY SocketOwned, Zenon
      <4>2. QED
        BY <1>4, <4>1, Zenon DEF Owned
    <3>2. sock'[g] = sock[g] /\ heap' = heap
      BY <1>2, <1>6, <2>3, Zenon
    <3>3. QED
      BY <1>5, <2>1, <3>1, <3>2, Zenon DEF SocketOK
  <2>4. QED
    BY <2>2, <2>3, Zenon
<1>10. ASSUME NEW i \in Slots PROVE (SlotOK(i) /\ conns[i].active <= clock)'
  <2>1. SlotOK(i) /\ conns[i].active <= clock
    BY Zenon DEF TableOK
  <2>2. CASE i = k
    BY <1>2, <1>5, <1>8, <2>1, <2>2, Zenon DEF SlotOK
  <2>3. CASE i # k
    <3>1. ASSUME NEW u \in Workers, Moving(u), cur[u] = i PROVE Moving(u)' /\ cur'[u] = i
      BY <1>1, <1>2, <2>3, <3>1, Zenon DEF Still, Moving, Filling, Releasing
    <3>2. QED
      BY <1>2, <1>5, <1>8, <2>1, <3>1, Zenon DEF SlotOK
  <2>4. QED
    BY <2>2, <2>3, Zenon
<1>11. ~Moving(w)' /\ ~Accepting(w)' /\ MovingOK(w)'
  BY <1>2, Zenon DEF MovingOK, Moving, Filling, Releasing, Accepting
<1>12. ASSUME NEW u \in Workers, u # w PROVE MovingOK(u)'
  <2>1. MovingOK(u)
    BY Zenon DEF TableOK
  <2>2. Moving(u) => /\ conns'[cur[u]].state # "FREE"
                     /\ \A i, v : i = cur[u] /\ v \in Workers => ~Owned(v, i)'
    BY <1>4, <1>5, <1>8, <1>12, <2>1, ZenonT(30) DEF MovingOK
  <2>3. Accepting(u) => sock'[next[u]] = sock[next[u]]
    BY <1>4, <1>6, <1>12, <2>1, Zenon DEF MovingOK
  <2>4. pc[u] = "register" => cur[u] \in heap' /\ conns'[cur[u]].active = conns[cur[u]].active
    <3>1. pc[u] = "register" => Moving(u)
      BY Zenon DEF Moving, Filling
    <3>2. QED
      BY <1>2, <1>5, <2>1, <3>1, Zenon DEF MovingOK
  <2>5. \A v \in Workers \ {w} : Still(v)
    BY <1>2, Zenon
  <2>6. QED
    BY <1>2, <1>11, <1>12, <2>2, <2>3, <2>4, <2>5, MoveKeep, Zenon
<1>13. ASSUME NEW u \in Workers PROVE ServingOK(u)'
  <2>1. \A v \in Workers \ {w} : Still(v)
    BY <1>2, Zenon
  <2>2. QED
    BY <1>2, <1>5, <1>8, <2>1, ServeAccepting, Zenon
<1>14. QED
  BY <1>9, <1>10, <1>11, <1>12, <1>13, Zenon DEF TableOK

\* Closing the socket takes the connection from its worker and from no other.
LEMMA CloseTable ==
    ASSUME TypeOK, TypeOK', TableOK, NEW w \in Workers, close_socket(w)
    PROVE  TableOK'
<1>1. PICK k, f : k = cur[w] /\ f = conns[k].fd
  BY Zenon
<1>2. pc[w] = "close" /\ ServingOK(w) /\ Serving(w)
  BY Zenon DEF close_socket, TableOK, Serving
<1>3. Owned(w, k)
  BY <1>1, <1>2, Zenon DEF ServingOK
<1>4. k \in Slots /\ f \in Fds /\ sock[f].at = w /\ sock[f].slot = k /\ conns[k].state # "FREE"
  BY <1>1, <1>3, OwnedSlot, Zenon DEF Owned
<1>5. /\ pc'[w] = "close_buffers" /\ sock' = [g \in Fds |-> IF g = f THEN NoSock ELSE sock[g]]
      /\ \A u \in Workers : u # w => Still(u)
      /\ batch'[w] = batch[w] /\ now'[w] = now[w] /\ next'[w] = next[w] /\ cur'[w] = k
      /\ conns' = conns /\ heap' = heap /\ clock' = clock
  BY <1>1, <1>4, Zenon DEF close_socket, Goto, Still, TypeOK, kernel, locals
<1>6. sock'[f].at = None /\ \A g \in Fds : g # f => sock'[g] = sock[g]
  <2>1. NoSock.at = None
    BY DEF NoSock
  <2>2. QED
    BY <1>4, <1>5, <2>1, Zenon
<1>7. None \notin Workers
  BY TableAssumption, Zenon
<1>8. ASSUME NEW v \in Workers, NEW i PROVE Owned(v, i)' <=> (Owned(v, i) /\ i # k)
  <2>1. conns' = conns
    BY <1>5, Zenon
  <2>2. CASE i = k
    BY <1>1, <1>6, <1>7, <2>1, <2>2, Zenon DEF Owned
  <2>3. CASE i # k /\ conns[i].fd = f
    BY <1>4, <1>6, <1>7, <2>1, <2>3, Zenon DEF Owned
  <2>4. CASE i # k /\ conns[i].fd # f
    BY <1>6, <2>1, <2>4, Zenon DEF Owned
  <2>5. QED
    BY <2>2, <2>3, <2>4, Zenon
<1>9. ASSUME NEW g \in Fds PROVE SocketOK(g)'
  <2>1. SocketOK(g) /\ conns' = conns /\ heap' = heap
    BY <1>5, Zenon DEF TableOK
  <2>2. CASE g = f
    BY <1>6, <2>2, Zenon DEF SocketOK
  <2>3. CASE g # f
    <3>1. sock'[g] = sock[g]
      BY <1>6, <2>3, Zenon
    <3>2. QED
      BY <2>1, <3>1, Zenon DEF SocketOK
  <2>4. QED
    BY <2>2, <2>3, Zenon
<1>10. Moving(w)' /\ ~Accepting(w)' /\ ~Moving(w)
  BY <1>2, <1>5, Zenon DEF Moving, Filling, Releasing, Accepting
<1>11. ASSUME NEW i \in Slots PROVE (SlotOK(i) /\ conns[i].active <= clock)'
  <2>1. SlotOK(i) /\ conns[i].active <= clock
    BY Zenon DEF TableOK
  <2>2. CASE i = k
    BY <1>5, <1>10, <2>1, <2>2, Zenon DEF SlotOK
  <2>3. CASE i # k
    <3>1. ASSUME NEW u \in Workers, Moving(u), cur[u] = i PROVE Moving(u)' /\ cur'[u] = i
      BY <1>5, <1>10, <3>1, Zenon DEF Still, Moving, Filling, Releasing
    <3>2. conns' = conns /\ clock' = clock
      BY <1>5, Zenon
    <3>3. QED
      BY <1>8, <2>1, <2>3, <3>1, <3>2, Zenon DEF SlotOK
  <2>4. QED
    BY <2>2, <2>3, Zenon
<1>12. ASSUME NEW u \in Workers, u # w, Moving(u) PROVE cur[u] # k
  <2>1. MovingOK(u)
    BY Zenon DEF TableOK
  <2>2. QED
    BY <1>3, <1>12, <2>1, Zenon DEF MovingOK
<1>13. MovingOK(w)'
  <2>1. \A u \in Workers : ~Owned(u, k)'
    BY <1>8, Zenon
  <2>2. ASSUME NEW u \in Workers, u # w, Moving(u)' PROVE cur'[u] # k
    BY <1>5, <1>12, <2>2, Zenon DEF Still, Moving, Filling, Releasing
  <2>3. cur'[w] = k /\ conns'[k].state # "FREE" /\ pc'[w] # "register"
    BY <1>4, <1>5, Zenon
  <2>4. QED
    BY <1>4, <1>10, <2>1, <2>2, <2>3, Zenon DEF MovingOK
<1>14. ASSUME NEW u \in Workers, u # w PROVE MovingOK(u)'
  <2>1. MovingOK(u)
    BY Zenon DEF TableOK
  <2>2. Moving(u) => /\ conns'[cur[u]].state # "FREE"
                     /\ \A i, v : i = cur[u] /\ v \in Workers => ~Owned(v, i)'
                     /\ cur'[w] # cur[u]
    BY <1>5, <1>8, <1>12, <1>14, <2>1, Zenon DEF MovingOK
  <2>3. Accepting(u) => sock'[next[u]] = sock[next[u]]
    BY <1>4, <1>6, <1>7, <2>1, Zenon DEF MovingOK
  <2>4. pc[u] = "register" => cur[u] \in heap' /\ conns'[cur[u]].active = conns[cur[u]].active
    BY <1>5, <2>1, Zenon DEF MovingOK
  <2>5. (\A v \in Workers \ {w} : Still(v)) /\ clock' = clock
    BY <1>5, Zenon
  <2>6. QED
    BY <1>10, <1>14, <2>2, <2>3, <2>4, <2>5, MoveKeep, Zenon
<1>15. ASSUME NEW u \in Workers, u # w PROVE ServingOK(u)'
  <2>1. \A i \in Slots : Owned(u, i) => Owned(u, i)'
    BY <1>3, <1>8, <1>15, OwnedSlot, Zenon
  <2>2. clock <= clock' /\ conns' = conns /\ Still(u)
    <3>1. clock \in Nat
      BY Zenon DEF TypeOK
    <3>2. clock <= clock
      BY <3>1
    <3>3. QED
      BY <1>5, <1>15, <3>2, Zenon
  <2>3. QED
    BY <2>1, <2>2, ServeKeep, Zenon
<1>16. ServingOK(w)'
  <2>1. \A e \in batch'[w] : e.slot = Listen \/ Owned(w, e.slot)'
    BY <1>1, <1>2, <1>5, <1>8, Zenon DEF ServingOK
  <2>2. next'[w] # 0 => batch'[w] = {}
    BY <1>2, <1>5, Zenon DEF ServingOK
  <2>3. now'[w] <= clock' /\ \A e, g \in batch'[w] : e.slot = g.slot => e = g
    BY <1>2, <1>5, Zenon DEF ServingOK
  <2>4. pc'[w] = "close_buffers"
    BY <1>5, Zenon
  <2>5. QED
    BY <2>1, <2>2, <2>3, <2>4, Zenon DEF ServingOK, Serving
<1>17. QED
  BY <1>9, <1>11, <1>13, <1>14, <1>15, <1>16, Zenon DEF TableOK

\* A slot that is released is no one else's, up to the moment it is FREE.
LEMMA ReleaseTable ==
    ASSUME TypeOK, TypeOK', TableOK, NEW w \in Workers, close_buffers(w) \/ close_slot(w)
    PROVE  TableOK'
<1>1. PICK k : k = cur[w]
  BY Zenon
<1>2. /\ Releasing(w) /\ Moving(w) /\ ~Accepting(w) /\ ~Accepting(w)' /\ pc'[w] # "register"
      /\ \/ pc'[w] = "close_slot"
         \/ pc'[w] = "events"
         \/ pc'[w] = "sweep" /\ next'[w] # 0
      /\ \A u \in Workers : u # w => Still(u)
      /\ batch'[w] = batch[w] /\ now'[w] = now[w] /\ next'[w] = next[w] /\ cur'[w] = k
      /\ sock' = sock /\ clock' = clock /\ (heap' = heap \/ heap' = heap \ {k})
  <2>1. CASE close_buffers(w)
    BY <1>1, <2>1, Zenon DEF close_buffers, Goto, Still, TypeOK, kernel, locals, Releasing, Moving, Accepting
  <2>2. CASE close_slot(w)
    BY <1>1, <2>2, Zenon DEF close_slot, Goto, Resume, Still, TypeOK, kernel, locals, Releasing, Moving, Accepting
  <2>3. QED
    BY <2>1, <2>2, Zenon
<1>3. MovingOK(w) /\ ServingOK(w)
  BY Zenon DEF TableOK
<1>4. /\ k \in Slots /\ conns[k].state # "FREE" /\ \A u \in Workers : ~Owned(u, k)
      /\ \A u \in Workers : u # w /\ Moving(u) => cur[u] # k
  BY <1>1, <1>2, <1>3, Zenon DEF MovingOK
<1>5. /\ conns'[k].fd = conns[k].fd \/ conns'[k].fd \notin Fds
      /\ conns'[k].state = "FREE" \/ (conns'[k].state = conns[k].state /\ pc'[w] = "close_slot")
      /\ \A i \in Slots : conns'[i].active = conns[i].active /\ (i # k => conns'[i] = conns[i])
  <2>1. conns \in [Slots -> Conns]
    BY Zenon DEF TypeOK
  <2>2. NoFd \notin Fds
    BY TableAssumption DEF NoFd, Fds
  <2>3. CASE close_buffers(w)
    <3>1. conns' = [conns EXCEPT ![k].fd = NoFd] /\ pc'[w] = "close_slot"
      BY <1>1, <2>3, Zenon DEF close_buffers, Goto, TypeOK
    <3>2. QED
      BY <1>4, <2>1, <2>2, <3>1, Zenon DEF Conns
  <2>4. CASE close_slot(w)
    <3>1. conns' = [conns EXCEPT ![k].state = "FREE"]
      BY <1>1, <2>4, Zenon DEF close_slot
    <3>2. QED
      BY <1>4, <2>1, <3>1, Zenon DEF Conns
  <2>5. QED
    BY <2>3, <2>4, Zenon
<1>6. ASSUME NEW v \in Workers, NEW i PROVE Owned(v, i)' <=> Owned(v, i)
  <2>1. sock' = sock
    BY <1>2, Zenon
  <2>2. CASE i = k
    BY <1>4, <1>5, <2>1, <2>2, Zenon DEF Owned
  <2>3. CASE i # k
    BY <1>5, <2>1, <2>3, Zenon DEF Owned
  <2>4. QED
    BY <2>2, <2>3, Zenon
<1>7. ASSUME NEW g \in Fds PROVE SocketOK(g)'
  <2>1. SocketOK(g)
    BY Zenon DEF TableOK
  <2>2. sock[g].at # None => sock[g].slot # k /\ sock[g].slot \in Slots
    <3>1. sock[g].at # None => sock[g].at \in Workers /\ Owned(sock[g].at, sock[g].slot)
      BY SocketOwned, Zenon
    <3>2. QED
      BY <1>4, <3>1, Zenon DEF Owned
  <2>3. sock' = sock /\ (heap' = heap \/ heap' = heap \ {k})
    BY <1>2, Zenon
  <2>4. QED
    BY <1>5, <2>1, <2>2, <2>3, Zenon DEF SocketOK
<1>8. ASSUME NEW i \in Slots PROVE (SlotOK(i) /\ conns[i].active <= clock)'
  <2>1. SlotOK(i) /\ conns[i].active <= clock /\ clock' = clock
    BY <1>2, Zenon DEF TableOK
  <2>2. CASE i = k
    <3>1. pc'[w] = "close_slot" => Moving(w)'
      BY Zenon DEF Moving, Releasing
    <3>2. cur'[w] = k
      BY <1>2, Zenon
    <3>3. QED
      BY <1>5, <2>1, <2>2, <3>1, <3>2, Zenon DEF SlotOK
  <2>3. CASE i # k
    <3>1. ASSUME NEW u \in Workers, Moving(u), cur[u] = i PROVE Moving(u)' /\ cur'[u] = i
      BY <1>1, <1>2, <2>3, <3>1, Zenon DEF Still, Moving, Filling, Releasing
    <3>2. QED
      BY <1>5, <1>6, <2>1, <2>3, <3>1, Zenon DEF SlotOK
  <2>4. QED
    BY <2>2, <2>3, Zenon
<1>9. MovingOK(w)'
  <2>1. \A u \in Workers : ~Owned(u, k)'
    BY <1>4, <1>6, Zenon
  <2>2. ASSUME NEW u \in Workers, u # w, Moving(u)' PROVE cur'[u] # k
    BY <1>2, <1>4, <2>2, Zenon DEF Still, Moving, Filling, Releasing
  <2>3. cur'[w] = k /\ ~Accepting(w)' /\ pc'[w] # "register"
    BY <1>2, Zenon
  <2>4. Moving(w)' => conns'[k].state # "FREE"
    <3>1. CASE close_buffers(w)
      <4>1. conns' = [conns EXCEPT ![k].fd = NoFd] /\ conns \in [Slots -> Conns]
        BY <1>1, <3>1, Zenon DEF close_buffers, TypeOK
      <4>2. QED
        BY <1>4, <4>1, Zenon DEF Conns
    <3>2. CASE close_slot(w)
      <4>1. ~Moving(w)'
        BY <3>2, Zenon DEF close_slot, Goto, Resume, TypeOK, Moving, Filling, Releasing
      <4>2. QED
        BY <4>1, Zenon
    <3>3. QED
      BY <3>1, <3>2, Zenon
  <2>5. QED
    BY <1>4, <2>1, <2>2, <2>3, <2>4, Zenon DEF MovingOK
<1>10. ASSUME NEW u \in Workers, u # w PROVE MovingOK(u)'
  <2>1. MovingOK(u)
    BY Zenon DEF TableOK
  <2>2. Moving(u) => /\ conns'[cur[u]].state # "FREE"
                     /\ \A i, v : i = cur[u] /\ v \in Workers => ~Owned(v, i)'
                     /\ cur'[w] # cur[u]
    BY <1>2, <1>4, <1>5, <1>6, <1>10, <2>1, Zenon DEF MovingOK
  <2>3. Accepting(u) => sock'[next[u]] = sock[next[u]]
    BY <1>2, Zenon
  <2>4. pc[u] = "register" => cur[u] \in heap' /\ conns'[cur[u]].active = conns[cur[u]].active
    <3>1. pc[u] = "register" => Moving(u)
      BY Zenon DEF Moving, Filling
    <3>2. QED
      BY <1>2, <1>4, <1>5, <1>10, <2>1, <3>1, Zenon DEF MovingOK
  <2>5. (\A v \in Workers \ {w} : Still(v)) /\ clock' = clock /\ ~Accepting(w)'
    BY <1>2, Zenon
  <2>6. QED
    BY <1>10, <2>2, <2>3, <2>4, <2>5, MoveKeep, Zenon
<1>11. ASSUME NEW u \in Workers, u # w PROVE ServingOK(u)'
  <2>1. \A i \in Slots : Owned(u, i) => Owned(u, i)'
    BY <1>6, Zenon
  <2>2. pc[u] = "close" => conns'[cur[u]].active = conns[cur[u]].active
    <3>1. pc[u] = "close" => cur[u] \in Slots
      BY Zenon DEF TableOK, ServingOK, Serving, Owned
    <3>2. QED
      BY <1>5, <3>1, Zenon
  <2>3. clock <= clock' /\ Still(u)
    <3>1. clock \in Nat
      BY Zenon DEF TypeOK
    <3>2. clock <= clock
      BY <3>1
    <3>3. QED
      BY <1>2, <1>11, <3>2, Zenon
  <2>4. QED
    BY <2>1, <2>2, <2>3, ServeKeep, Zenon
<1>12. ServingOK(w)'
  <2>1. \A e \in batch'[w] : e.slot = Listen \/ Owned(w, e.slot)'
    BY <1>2, <1>3, <1>6, Zenon DEF ServingOK
  <2>2. next'[w] # 0 => batch'[w] = {}
    BY <1>2, <1>3, Zenon DEF ServingOK
  <2>3. now'[w] <= clock' /\ \A e, g \in batch'[w] : e.slot = g.slot => e = g
    BY <1>2, <1>3, Zenon DEF ServingOK
  <2>4. \/ pc'[w] = "close_slot"
        \/ pc'[w] = "events"
        \/ pc'[w] = "sweep" /\ next'[w] # 0
    BY <1>2, Zenon
  <2>5. QED
    BY <2>1, <2>2, <2>3, <2>4, Zenon DEF ServingOK, Serving, Releasing
<1>13. QED
  BY <1>7, <1>8, <1>9, <1>10, <1>11, <1>12, Zenon DEF TableOK

-----------------------------------------------------------------------------
(* The invariant and what follows from it.                                 *)

\* An empty table is as it should be.
LEMMA TableStart == Init => TableInv
<1> SUFFICES ASSUME Init PROVE TableInv
  OBVIOUS
<1>1. TypeOK
  BY TypeStart
<1>2. \A f \in Fds : SocketOK(f)
  <2>1. NoSock.at = None
    BY DEF NoSock
  <2>2. QED
    BY <2>1, Zenon DEF Init, SocketOK
<1>3. 0 <= 0
  OBVIOUS
<1>4. \A i \in Slots : SlotOK(i) /\ conns[i].active <= clock
  BY <1>3, Zenon DEF Init, SlotOK
<1>5. ASSUME NEW w \in Workers PROVE MovingOK(w) /\ ServingOK(w)
  <2>1. pc[w] = "wait" /\ batch[w] = {} /\ now[w] <= clock
    BY <1>3, Zenon DEF Init
  <2>2. QED
    BY <2>1, Zenon DEF MovingOK, ServingOK, Moving, Filling, Releasing, Accepting, Serving
<1>6. QED
  BY <1>1, <1>2, <1>4, <1>5, Zenon DEF TableInv, TableOK

\* Every step keeps the table, until a sweep takes another worker's connection.
LEMMA TableNext == TableInv /\ [Next]_vars => TableInv'
<1> SUFFICES ASSUME TableInv, [Next]_vars PROVE TableInv'
  OBVIOUS
<1>1. TypeOK
  BY Zenon DEF TableInv
<1>2. CASE UNCHANGED vars
  <2>1. TypeOK'
    BY <1>1, <1>2, Zenon DEF vars, TypeOK
  <2>2. TableOK' <=> TableOK
    <3>1. \A w, i : Owned(w, i)' <=> Owned(w, i)
      BY <1>2, Zenon DEF vars, Owned
    <3>2. \A w : (Moving(w)' <=> Moving(w)) /\ (Accepting(w)' <=> Accepting(w))
      BY <1>2, Zenon DEF vars, Moving, Filling, Releasing, Accepting
    <3>3. \A w : (Serving(w)' <=> Serving(w)) /\ (Releasing(w)' <=> Releasing(w))
      BY <1>2, Zenon DEF vars, Serving, Releasing
    <3>4. \A f \in Fds : SocketOK(f)' <=> SocketOK(f)
      BY <1>2, Zenon DEF vars, SocketOK
    <3>5. \A i \in Slots : SlotOK(i)' <=> SlotOK(i)
      BY <1>2, <3>1, <3>2, Zenon DEF vars, SlotOK
    <3>6. ASSUME NEW w \in Workers PROVE MovingOK(w)' <=> MovingOK(w)
      BY <1>2, <3>1, <3>2, Zenon DEF vars, MovingOK, Owned
    <3>7. ASSUME NEW w \in Workers PROVE ServingOK(w)' <=> ServingOK(w)
      BY <1>2, <3>1, <3>3, Zenon DEF vars, ServingOK, Owned
    <3>8. QED
      BY <1>2, <3>4, <3>5, <3>6, <3>7, Zenon DEF vars, TableOK
  <2>3. QED
    BY <1>2, <2>1, <2>2, Zenon DEF vars, TableInv
<1>3. CASE Next
  <2>1. TypeOK'
    BY <1>1, <1>3, TypeEnvironment, TypeAccept, TypeServe, Zenon DEF Next, worker
  <2>2. SUFFICES ASSUME ~foreign' PROVE TableOK'
    BY <2>1, Zenon DEF TableInv
  <2>3. TableOK
    <3>1. foreign => foreign'
      BY <1>3, ZenonT(30) DEF Next, worker, Tick, connect, send, epoll_wait, listen_event, accept, conn_alloc,
            alloc_fill, register, conn_event, process_read, process_reply, close_socket, close_buffers,
            close_slot, loop_end, sweep_slot, kernel
    <3>2. QED
      BY <2>2, <3>1, Zenon DEF TableInv
  <2>4. CASE Tick \/ \E c \in Clients : connect(c) \/ send(c)
    BY <1>1, <2>1, <2>3, <2>4, EnvironmentTable, Zenon
  <2>5. ASSUME NEW w \in Workers, worker(w) PROVE TableOK'
    <3>1. CASE epoll_wait(w)
      BY <1>1, <2>1, <2>3, <3>1, WaitTable, Zenon
    <3>2. CASE listen_event(w)
      BY <1>1, <2>1, <2>3, <3>2, ListenTable, Zenon
    <3>3. CASE accept(w)
      BY <1>1, <2>1, <2>3, <3>3, ListenTable, AcceptTable, Zenon
    <3>4. CASE conn_alloc(w)
      BY <1>1, <2>1, <2>3, <3>4, FullTable, ClaimTable, ZenonT(30)
    <3>5. CASE alloc_fill(w)
      BY <1>1, <2>1, <2>3, <3>5, FillTable, Zenon
    <3>6. CASE register(w)
      BY <1>1, <2>1, <2>3, <3>6, RegisterTable, Zenon
    <3>7. CASE conn_event(w)
      BY <1>1, <2>1, <2>3, <3>7, EventTable, Zenon
    <3>8. CASE process_read(w)
      BY <1>1, <2>1, <2>3, <3>8, ReadTable, Zenon
    <3>9. CASE process_reply(w)
      BY <1>1, <2>1, <2>3, <3>9, ReplyTable, Zenon
    <3>10. CASE close_socket(w)
      BY <1>1, <2>1, <2>3, <3>10, CloseTable, Zenon
    <3>11. CASE close_buffers(w) \/ close_slot(w)
      BY <1>1, <2>1, <2>3, <3>11, ReleaseTable, Zenon
    <3>12. CASE loop_end(w)
      BY <1>1, <2>1, <2>3, <3>12, LoopTable, Zenon
    <3>13. CASE sweep_slot(w)
      BY <1>1, <2>1, <2>2, <2>3, <3>13, SweepTable, Zenon
    <3>14. QED
      BY <2>5, <3>1, <3>2, <3>3, <3>4, <3>5, <3>6, <3>7, <3>8, <3>9, <3>10, <3>11, <3>12, <3>13, Zenon DEF worker
  <2>6. QED
    BY <1>3, <2>4, <2>5, Zenon DEF Next
<1>4. QED
  BY <1>2, <1>3, Zenon

\* The invariant of the connection table holds in every state.
THEOREM TableInvariant == Spec => []TableInv
  BY TableStart, TableNext, PTL DEF Spec

\* A registered connection has an open socket.
LEMMA OwnedOpen == ASSUME NEW w \in Workers, NEW i, Owned(w, i) PROVE IsOpen(conns[i].fd)
<1>1. NoSock.at = None
  BY DEF NoSock
<1>2. w # None
  BY TableAssumption, Zenon
<1>3. QED
  BY <1>1, <1>2, Zenon DEF Owned, IsOpen

\* A worker never reads or writes buffers that conn_close has freed.
THEOREM BuffersCorrect == Spec => []BuffersLive
<1>1. TableInv => BuffersLive
  <2> SUFFICES ASSUME TableInv, ~foreign, NEW w \in Workers, pc[w] \in {"read", "reply"} PROVE cur[w] \in heap
    BY Zenon DEF BuffersLive
  <2>1. TableOK
    BY Zenon DEF TableInv
  <2>2. Owned(w, cur[w])
    BY <2>1, Zenon DEF TableOK, ServingOK, Serving
  <2>3. QED
    BY <2>1, <2>2, OwnedSlot, Zenon
<1>2. QED
  BY <1>1, TableInvariant, PTL

\* Outside accept and conn_close, slots in use and registered sockets correspond
\* one to one.
THEOREM TableCorrect == Spec => []TableMatches
<1>1. TableInv => TableMatches
  <2> SUFFICES ASSUME TableInv, ~foreign
               PROVE  /\ \A i \in Slots : conns[i].state # "FREE" /\ ~InTransit(i) =>
                             IsOpen(conns[i].fd) /\ sock[conns[i].fd].slot = i
                      /\ \A f \in Fds : sock[f].at # None /\ ~InTransit(sock[f].slot) =>
                             conns[sock[f].slot].state # "FREE" /\ conns[sock[f].slot].fd = f
    BY Zenon DEF TableMatches
  <2>1. TableOK
    BY Zenon DEF TableInv
  <2>2. ASSUME NEW i \in Slots, conns[i].state # "FREE", ~InTransit(i)
        PROVE  IsOpen(conns[i].fd) /\ sock[conns[i].fd].slot = i
    <3>1. SlotOK(i)
      BY <2>1, Zenon DEF TableOK
    <3>2. ASSUME NEW w \in Workers, Moving(w), cur[w] = i PROVE FALSE
      BY <2>2, <3>2, Zenon DEF InTransit, Moving, Filling, Releasing
    <3>3. PICK w \in Workers : Owned(w, i)
      BY <2>2, <3>1, <3>2, Zenon DEF SlotOK
    <3>4. QED
      BY <3>3, OwnedOpen, Zenon DEF Owned
  <2>3. ASSUME NEW f \in Fds, sock[f].at # None
        PROVE  conns[sock[f].slot].state # "FREE" /\ conns[sock[f].slot].fd = f
    BY <2>1, <2>3, Zenon DEF TableOK, SocketOK
  <2>4. QED
    BY <2>2, <2>3, Zenon
<1>2. QED
  BY <1>1, TableInvariant, PTL

\* The sweep closes only connections nothing has been read from for longer than
\* VC_CONN_TIMEOUT_S.
THEOREM IdleCorrect == Spec => []IdleOnly
<1>1. TableInv => IdleOnly
  <2> SUFFICES ASSUME TableInv, ~foreign, NEW w \in Workers,
                      pc[w] = "close", next[w] > 0, conns[cur[w]].state # "FREE"
               PROVE  IsOpen(conns[cur[w]].fd) /\ clock - sock[conns[cur[w]].fd].heard > Timeout
    BY Zenon DEF IdleOnly
  <2>1. TypeOK /\ TableOK /\ ServingOK(w)
    BY Zenon DEF TableInv, TableOK
  <2>2. Owned(w, cur[w])
    BY <2>1, Zenon DEF ServingOK, Serving
  <2>3. PICK k, f : k = cur[w] /\ f = conns[k].fd
    BY Zenon
  <2>4. next[w] # 0
    <3>1. next[w] \in Nat
      BY <2>1, Zenon DEF TypeOK
    <3>2. QED
      BY <3>1
  <2>5. clock - conns[k].active > Timeout
    BY <2>1, <2>3, <2>4, Zenon DEF ServingOK
  <2>6. k \in Slots /\ f \in Fds /\ sock[f].at = w /\ sock[f].slot = k
    BY <2>2, <2>3, Zenon DEF Owned
  <2>7. sock[f].heard <= conns[k].active
    <3>1. SocketOK(f) /\ w # None
      BY <2>1, <2>6, TableAssumption, Zenon DEF TableOK
    <3>2. QED
      BY <2>6, <3>1, Zenon DEF SocketOK
  <2>8. clock \in Nat /\ conns[k].active \in Nat /\ sock[f].heard \in Nat
    BY <2>1, <2>6, Zenon DEF TypeOK, Conns, Sockets
  <2>9. clock - sock[f].heard > Timeout
    BY <2>5, <2>7, <2>8, TableAssumption
  <2>10. QED
    BY <2>2, <2>3, <2>9, OwnedOpen, Zenon
<1>2. QED
  BY <1>1, TableInvariant, PTL
=============================================================================
