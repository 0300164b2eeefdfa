---------------------------- MODULE WorkerProofs ----------------------------
(***************************************************************************)
(* The threads of the server.  Start and stop (module Lifecycle), for every*)
(* number of worker threads; then a connection and the worker that serves  *)
(* it (module Connection), for every script of requests and every size of  *)
(* the socket's buffer.                                                    *)
(***************************************************************************)
EXTENDS Lifecycle, Connection, TLAPS

USE DEF lifecycle, Threads

-----------------------------------------------------------------------------
(* Start and stop: the inductive invariant.                                *)

Ended(j) == wpc[j] \in {"none", "exited"}

\* Until a stop running is set, so that no worker leaves its loop; srv->workers holds
\* the threads that were started; and what the main thread has joined has ended.
Ordered ==
    /\ main = "create" => \A j \in Threads : wpc[j] = "none"
    /\ main = "create" => i = 0
    /\ main \in {"start", "run"} => running /\ \A j \in Threads : wpc[j] # "exited"
    /\ main \in {"start", "join"} => i <= worker_threads
    /\ main \in {"create", "start"} => \A j \in Threads : j >= i => wpc[j] = "none"
    /\ main = "start" => \A j \in Threads : j < i => intact[j]
    /\ main \in {"run", "join"} => \A j \in Threads : j < worker_threads => intact[j]
    /\ main \in {"run", "join"} => \A j \in Threads : j >= worker_threads => wpc[j] = "none"
    /\ main = "join" => ~running /\ \A j \in Threads : j < i => wpc[j] = "exited"
    /\ main \in {"destroy", "exit"} /\ ~running => \A j \in Threads : Ended(j)
    /\ server = "destroyed" => main = "exit"

LifecycleInv == TypeOK /\ (Fits => Ordered)

\* The initial states satisfy the invariant.
LEMMA LifecycleInitInv == LifecycleInit => LifecycleInv
<1> SUFFICES ASSUME LifecycleInit PROVE TypeOK /\ Ordered
  BY DEF LifecycleInv
<1>1. intact \in [Threads -> BOOLEAN] /\ running \in BOOLEAN
  BY Zenon DEF LifecycleInit
<1>2. /\ wpc \in [Threads -> {"none", "loop", "serving", "exited"}]
      /\ \A j \in Threads : wpc[j] = "none"
  BY Zenon DEF LifecycleInit
<1>3. /\ worker_threads \in 1 .. MaxThreads /\ i = 0 /\ i \in 0 .. MaxThreads
      /\ main = "create" /\ server = "absent"
  BY ThreadsAssumption DEF LifecycleInit
<1> QED
  BY <1>1, <1>2, <1>3, Zenon DEF TypeOK, Ordered, Ended

\* Every step keeps the types.
LEMMA NextType == TypeOK /\ [LifecycleNext]_lifecycle => TypeOK'
<1> SUFFICES ASSUME TypeOK, [LifecycleNext]_lifecycle PROVE TypeOK'
  OBVIOUS
<1> USE ThreadsAssumption DEF TypeOK
<1>1. CASE vcserver_create /\ UNCHANGED worker_threads
  BY <1>1, Zenon DEF vcserver_create
<1>2. CASE vcserver_start /\ UNCHANGED worker_threads
  <2>1. /\ worker_threads' \in 1 .. MaxThreads /\ i' \in 0 .. MaxThreads /\ i \in Threads
        /\ main' = main /\ server' = server
    BY <1>2 DEF vcserver_start
  <2>2. intact' \in [Threads -> BOOLEAN] /\ running' \in BOOLEAN
    BY <1>2, <2>1, Zenon DEF vcserver_start
  <2>3. wpc' \in [Threads -> {"none", "loop", "serving", "exited"}]
    BY <1>2, <2>1, Zenon DEF vcserver_start
  <2> QED
    BY <2>1, <2>2, <2>3, Zenon
<1>3. CASE start_failed /\ UNCHANGED worker_threads
  BY <1>3 DEF start_failed
<1>4. CASE vcserver_run /\ UNCHANGED worker_threads
  BY <1>4 DEF vcserver_run
<1>5. CASE join /\ UNCHANGED worker_threads
  BY <1>5 DEF join
<1>6. CASE vcserver_destroy /\ UNCHANGED worker_threads
  BY <1>6 DEF vcserver_destroy
<1>7. CASE signal
  <2>1. intact' \in [Threads -> BOOLEAN]
    BY <1>7, Zenon DEF signal, vcserver_stop, Clobber
  <2>2. i' \in 0 .. MaxThreads
    BY <1>7 DEF signal, vcserver_stop
  <2> QED
    BY <1>7, <2>1, <2>2, Zenon DEF signal, vcserver_stop
<1>8. ASSUME NEW j \in Threads, worker_thread(j) PROVE TypeOK'
  <2>1. intact' \in [Threads -> BOOLEAN]
    BY <1>8, Zenon DEF worker_thread, worker_loop, worker_serve, Clobber
  <2>2. wpc' \in [Threads -> {"none", "loop", "serving", "exited"}]
    BY <1>8, Zenon DEF worker_thread, worker_loop, worker_serve
  <2> QED
    BY <1>8, <2>1, <2>2, Zenon DEF worker_thread, worker_loop, worker_serve
<1>9. CASE Done \/ UNCHANGED lifecycle
  BY <1>9 DEF Done
<1> QED
  BY <1>1, <1>2, <1>3, <1>4, <1>5, <1>6, <1>7, <1>8, <1>9 DEF LifecycleNext, main_thread

\* Every step keeps the order of the shutdown, if the array holds the threads.
LEMMA NextOrdered == TypeOK /\ Fits /\ Ordered /\ [LifecycleNext]_lifecycle => Ordered'
<1> SUFFICES ASSUME TypeOK, Fits, Ordered, [LifecycleNext]_lifecycle PROVE Ordered'
  OBVIOUS
<1>t. /\ worker_threads \in Nat /\ i \in Nat /\ VC_WORKER_THREADS \in Nat
      /\ worker_threads <= VC_WORKER_THREADS
      /\ \A j \in Threads : j \in Nat
  BY ThreadsAssumption DEF TypeOK, Fits
<1>1. CASE vcserver_create /\ UNCHANGED worker_threads
  BY <1>1, <1>t DEF vcserver_create, Ordered, Ended
<1>2. CASE vcserver_start /\ UNCHANGED worker_threads
  <2>1. i # RunningWord /\ running' = running /\ main' = "start" /\ server' = server /\ i' = i + 1
    BY <1>2, <1>t DEF vcserver_start, RunningWord
  <2>2. \A j \in Threads : j < i' => intact'[j]
    BY <1>2, <1>t DEF vcserver_start, Ordered, TypeOK
  <2>3. \A j \in Threads : (j >= i' => wpc'[j] = "none") /\ wpc'[j] # "exited"
    BY <1>2, <1>t DEF vcserver_start, Ordered, TypeOK
  <2>4. i' <= worker_threads' /\ running'
    BY <1>2, <1>t, <2>1 DEF vcserver_start, Ordered
  <2> QED
    BY <1>2, <2>1, <2>2, <2>3, <2>4, Zenon DEF vcserver_start, Ordered
<1>3. CASE start_failed /\ UNCHANGED worker_threads
  BY <1>3, Zenon DEF start_failed, Ordered, Ended
<1>4. CASE vcserver_run /\ UNCHANGED worker_threads
  BY <1>4, Zenon DEF vcserver_run, Ordered, Ended
<1>5. CASE join /\ UNCHANGED worker_threads
  <2>1. \A j \in Threads : j < i' => wpc'[j] = "exited"
    BY <1>5, <1>t DEF join, Ordered
  <2>2. i' <= worker_threads' /\ ~running'
    BY <1>5, <1>t DEF join, Ordered
  <2>3. main' \in {"join", "destroy"} /\ (main' = "destroy" => i' = worker_threads)
    BY <1>5 DEF join
  <2>4. main' = "destroy" => \A j \in Threads : Ended(j)'
    BY <1>5, <1>t, <2>1, <2>3 DEF join, Ordered, Ended
  <2> QED
    BY <1>5, <2>1, <2>2, <2>3, <2>4, Zenon DEF join, Ordered
<1>6. CASE vcserver_destroy /\ UNCHANGED worker_threads
  BY <1>6, Zenon DEF vcserver_destroy, Ordered, Ended
<1>7. CASE signal
  <2>1. /\ main = "run" /\ main' = "join" /\ i' = 0 /\ ~running'
        /\ wpc' = wpc /\ server' = server /\ worker_threads' = worker_threads
    BY <1>7, Zenon DEF signal, vcserver_stop
  <2>2. \A j \in Threads : j < worker_threads => j # RunningWord
    BY <1>t DEF RunningWord
  <2>3. \A j \in Threads : j < worker_threads => intact'[j]
    BY <1>7, <2>2, Zenon DEF signal, vcserver_stop, Clobber, Ordered
  <2>4. \A j \in Threads : ~(j < i')
    BY <1>t, <2>1
  <2>5. i' <= worker_threads'
    BY <1>t, <2>1
  <2> QED
    BY <2>1, <2>3, <2>4, <2>5, Zenon DEF Ordered
<1>8. ASSUME NEW j \in Threads, worker_thread(j) PROVE Ordered'
  <2>1. /\ main' = main /\ i' = i /\ running' = running /\ server' = server
        /\ worker_threads' = worker_threads
        /\ wpc[j] \in {"loop", "serving"}
    BY <1>8, Zenon DEF worker_thread, worker_loop, worker_serve
  <2>2. \A k \in Threads :
          /\ wpc[k] = "none" => wpc'[k] = "none"
          /\ wpc[k] = "exited" => wpc'[k] = "exited"
          /\ wpc'[k] = "exited" => wpc[k] = "exited" \/ ~running
    BY <1>8, Zenon DEF worker_thread, worker_loop, worker_serve, TypeOK
  <2>3. \A k \in Threads : k < worker_threads => k \notin {ConnsWord, CommandsWord, RejectedWord}
    BY <1>t DEF ConnsWord, CommandsWord, RejectedWord
  <2>4. \A k \in Threads : k < worker_threads /\ intact[k] => intact'[k]
    BY <1>8, <2>3, Zenon DEF worker_thread, worker_loop, worker_serve, Clobber
  <2>5. main = "start" => \A k \in Threads : k < i => k < worker_threads
    BY <1>t DEF Ordered
  <2>6. ~(main \in {"destroy", "exit"} /\ ~running)
    BY <2>1, Zenon DEF Ordered, Ended
  <2> QED
    BY <2>1, <2>2, <2>4, <2>5, <2>6, Zenon DEF Ordered
<1>9. CASE Done \/ UNCHANGED lifecycle
  <2>1. UNCHANGED <<main, i, running, intact, wpc, server>> /\ worker_threads' = worker_threads
    BY <1>9 DEF Done
  <2> QED
    BY <2>1, Zenon DEF Ordered, Ended
<1> QED
  BY <1>1, <1>2, <1>3, <1>4, <1>5, <1>6, <1>7, <1>8, <1>9 DEF LifecycleNext, main_thread

\* The invariant holds in every reachable state.
LEMMA LifecycleInvariant == LifecycleSpec => []LifecycleInv
<1>1. LifecycleInv /\ [LifecycleNext]_lifecycle => LifecycleInv'
  <2> SUFFICES ASSUME LifecycleInv, [LifecycleNext]_lifecycle PROVE LifecycleInv'
    OBVIOUS
  <2>1. TypeOK'
    BY NextType DEF LifecycleInv
  <2>2. worker_threads' = worker_threads
    BY DEF LifecycleNext, main_thread, signal, worker_thread, Done
  <2>3. Fits' => Ordered'
    BY <2>2, NextOrdered DEF LifecycleInv, Fits
  <2> QED
    BY <2>1, <2>3 DEF LifecycleInv
<1> QED
  BY LifecycleInitInv, <1>1, PTL DEF LifecycleSpec

\* With a table as long as --threads asks for, the workers serve until vcserver_stop.
THEOREM ServesCorrect == LifecycleSpec => []ServesUntilStop
<1>1. LifecycleInv => ServesUntilStop
  BY Zenon DEF LifecycleInv, TypeOK, Ordered, ServesUntilStop
<1> QED
  BY LifecycleInvariant, <1>1, PTL

\* After a stop vcserver_destroy frees the server when every worker has ended.
THEOREM DestroyCorrect == LifecycleSpec => []DestroyAfterWorkers
<1>1. LifecycleInv => DestroyAfterWorkers
  BY Zenon DEF LifecycleInv, Ordered, Ended, DestroyAfterWorkers
<1> QED
  BY LifecycleInvariant, <1>1, PTL

HIDE DEF lifecycle, Threads
USE DEF vars, clientside, socket, conn

-----------------------------------------------------------------------------
(* Sequences of replies.                                                   *)

Upto(n) == [k \in 1 .. n |-> k]

\* The first element of a sequence moves to the end of the one before it.
LEMMA MoveHead ==
    ASSUME NEW a \in Seq(Nat), NEW b \in Seq(Nat), b # <<>>
    PROVE  Append(a, Head(b)) \o Tail(b) = a \o b
  BY SMTT(30)

\* The same behind another sequence.
LEMMA MoveMiddle ==
    ASSUME NEW a \in Seq(Nat), NEW b \in Seq(Nat), NEW c \in Seq(Nat), c # <<>>
    PROVE  a \o Append(b, Head(c)) \o Tail(c) = a \o b \o c
<1>1. a \o Append(b, Head(c)) = Append(a \o b, Head(c)) /\ a \o b \in Seq(Nat)
  BY SMTT(30)
<1>2. Append(a \o b, Head(c)) \o Tail(c) = a \o b \o c
  BY <1>1, MoveHead, Zenon
<1> QED
  BY <1>1, <1>2, Zenon

\* The number of the next request follows those of the ones before it.
LEMMA AppendNext ==
    ASSUME NEW a \in Seq(Nat), NEW c \in Seq(Nat), NEW n \in Nat, a \o c = Upto(n)
    PROVE  a \o Append(c, n + 1) = Upto(n + 1)
<1>1. a \o Append(c, n + 1) = Append(a \o c, n + 1)
  BY SMTT(30)
<1>2. Upto(n) \in Seq(Nat) /\ Len(Upto(n)) = n /\ \A k \in 1 .. n : Upto(n)[k] = k
  BY DEF Upto
<1>3. Upto(n + 1) \in Seq(Nat) /\ Len(Upto(n + 1)) = n + 1 /\ \A k \in 1 .. n + 1 : Upto(n + 1)[k] = k
  BY DEF Upto
<1>4. Append(Upto(n), n + 1) = Upto(n + 1)
  BY <1>2, <1>3
<1> QED
  BY <1>1, <1>4, Zenon

-----------------------------------------------------------------------------
(* The inductive invariant.                                                *)

Types ==
    /\ got \in Seq(Nat) /\ out \in Seq(Nat) /\ wbuf \in Seq(Nat)
    /\ done \in Nat /\ rbuf \in Nat /\ Len(out) <= OutCap
    /\ pc \in {"wait", "handshake", "resume", "read", "parse", "flush", "last", "close"}

\* A worker handles an open connection, and only TLS connections shake hands.
Open ==
    /\ pc # "wait" => state # "FREE"
    /\ ~tls => state # "TLS_HAND" /\ pc # "handshake"
    /\ pc = "resume" => interest

\* What has to be done is known to epoll, or the worker is on its way to do it.
Pending ==
    ~tls /\ state = "CONNECTED" =>
        /\ in # <<>> => queued \/ pc \in {"read", "last", "close"} \/ (pc = "resume" /\ "IN" \in mask)
        /\ rbuf >= 2 => pc \in {"read", "parse", "last", "close"}
        /\ pc = "wait" /\ wbuf # <<>> => interest /\ (queued \/ Len(out) = OutCap)

IInv == Types /\ Open /\ InOrder /\ Pending

\* The initial states satisfy the invariant.
LEMMA InitIInv == Init => IInv
<1> SUFFICES ASSUME Init PROVE IInv
  OBVIOUS
<1>1. Types
  BY ConnectionAssumption DEF Init, Types
<1>2. InOrder
  <2>1. <<>> \o <<>> \o <<>> = [k \in 1 .. 0 |-> k]
    OBVIOUS
  <2> QED
    BY <2>1 DEF Init, InOrder
<1>3. Open /\ Pending
  BY DEF Init, Open, Pending
<1> QED
  BY <1>1, <1>2, <1>3 DEF IInv

\* Every step keeps the types.
LEMMA NextTypes == IInv /\ [Next]_vars => Types'
<1> SUFFICES ASSUME IInv, [Next]_vars PROVE Types'
  OBVIOUS
<1> USE ConnectionAssumption DEF IInv, Types
<1>1. CASE client_hello \/ client_finish \/ client_send \/ client_close
  BY <1>1, Zenon DEF client_hello, client_finish, client_send, client_close, Arrive
<1>2. CASE client_read
  BY <1>2 DEF client_read
<1>3. CASE epoll_wait
  BY <1>3 DEF epoll_wait
<1>4. CASE tls_do_handshake
  BY <1>4 DEF tls_do_handshake
<1>5. CASE flush_write
  BY <1>5 DEF flush_write
<1>6. CASE flush_done \/ flush_block \/ flush_error
  BY <1>6, Zenon DEF flush_done, flush_block, flush_error
<1>7. CASE read_some
  <2>1. PICK n \in 1 .. Len(in) : rbuf' = rbuf + n
    BY <1>7 DEF read_some
  <2>2. rbuf' \in Nat
    BY <2>1
  <2> QED
    BY <1>7, <2>2 DEF read_some
<1>8. CASE read_end \/ parse_more \/ sweep \/ elapse
  BY <1>8 DEF read_end, parse_more, sweep, elapse
<1>9. CASE dispatch
  BY <1>9 DEF dispatch
<1>10. CASE conn_close
  BY <1>10 DEF conn_close
<1>11. CASE Finished \/ UNCHANGED vars
  BY <1>11 DEF Finished
<1> QED
  BY <1>1, <1>2, <1>3, <1>4, <1>5, <1>6, <1>7, <1>8, <1>9, <1>10, <1>11, ZenonT(30)
     DEF Next, worker, reader, client, clock

\* Every step keeps what is known about the worker and the connection's state.
LEMMA NextOpen == IInv /\ [Next]_vars => Open'
<1> SUFFICES ASSUME IInv, [Next]_vars PROVE Open'
  OBVIOUS
<1> USE DEF IInv, Types, Open
<1>1. CASE (client_hello \/ client_finish \/ client_send \/ client_close \/ client_read) /\ UNCHANGED <<script, tls>>
  BY <1>1, Zenon DEF client_hello, client_finish, client_send, client_close, client_read, Arrive
<1>2. CASE epoll_wait /\ UNCHANGED <<script, tls>>
  <2>1. UNCHANGED <<state, interest, tls>> /\ state # "FREE"
    BY <1>2, Zenon DEF epoll_wait
  <2>2. pc' = "handshake" => state = "TLS_HAND"
    BY <1>2 DEF epoll_wait
  <2>3. pc' = "resume" => interest
    <3>1. pc' = "resume" => "OUT" \in mask'
      BY <1>2 DEF epoll_wait
    <3>2. "OUT" \in mask' => interest
      BY <1>2, Zenon DEF epoll_wait, ReadyMask
    <3> QED
      BY <3>1, <3>2
  <2> QED
    BY <2>1, <2>2, <2>3, Zenon
<1>3. CASE tls_do_handshake /\ UNCHANGED <<script, tls>>
  BY <1>3 DEF tls_do_handshake
<1>4. CASE flush_write /\ UNCHANGED <<script, tls>>
  BY <1>4, Zenon DEF flush_write
<1>5. CASE (flush_done \/ flush_block \/ flush_error) /\ UNCHANGED <<script, tls>>
  <2>1. UNCHANGED <<state, tls>> /\ state # "FREE" /\ pc' \in {"close", "read", "wait"}
    BY <1>5, Zenon DEF flush_done, flush_block, flush_error
  <2> QED
    BY <2>1, Zenon
<1>6. CASE (read_some \/ read_end \/ parse_more \/ sweep \/ elapse) /\ UNCHANGED <<script, tls>>
  BY <1>6 DEF read_some, read_end, parse_more, sweep, elapse
<1>7. CASE dispatch /\ UNCHANGED <<script, tls>>
  BY <1>7 DEF dispatch
<1>8. CASE conn_close /\ UNCHANGED <<script, tls>>
  BY <1>8 DEF conn_close
<1>9. CASE Finished \/ UNCHANGED vars
  BY <1>9 DEF Finished
<1> QED
  BY <1>1, <1>2, <1>3, <1>4, <1>5, <1>6, <1>7, <1>8, <1>9, ZenonT(30)
     DEF Next, worker, reader, client, clock

\* Every step keeps the replies in order: they move on from wbuf to the socket and
\* from there to the client, and dispatch adds the next one.
LEMMA NextInOrder == IInv /\ [Next]_vars => InOrder'
<1> SUFFICES ASSUME IInv, [Next]_vars PROVE InOrder'
  OBVIOUS
<1>t. got \in Seq(Nat) /\ out \in Seq(Nat) /\ wbuf \in Seq(Nat) /\ done \in Nat
  BY DEF IInv, Types
<1>o. state # "FREE" => got \o out \o wbuf = Upto(done)
  BY DEF IInv, InOrder, Upto
<1>1. CASE client_read
  <2>1. UNCHANGED <<state, wbuf, done>> /\ got' \o out' = got \o out
    BY <1>1, <1>t, MoveHead, Zenon DEF client_read
  <2> QED
    BY <2>1, Zenon DEF IInv, InOrder
<1>2. CASE flush_write
  <2>1. /\ UNCHANGED <<state, got, done>> /\ wbuf # <<>>
        /\ out' = Append(out, Head(wbuf)) /\ wbuf' = Tail(wbuf)
    BY <1>2, Zenon DEF flush_write
  <2>2. got \o Append(out, Head(wbuf)) \o Tail(wbuf) = got \o out \o wbuf
    BY <1>t, <2>1, MoveMiddle, ZenonT(30)
  <2> QED
    BY <2>1, <2>2, Zenon DEF IInv, InOrder
<1>3. CASE dispatch
  <2>1. UNCHANGED <<got, out>> /\ done' = done + 1 /\ wbuf' = Append(wbuf, done + 1) /\ state # "FREE"
    BY <1>3, Zenon DEF dispatch, IInv, Open
  <2>2. got \o out \in Seq(Nat)
    BY <1>t
  <2>3. got \o out \o Append(wbuf, done + 1) = Upto(done + 1)
    BY <1>t, <1>o, <2>1, <2>2, AppendNext, ZenonT(30)
  <2> QED
    BY <2>1, <2>3, Zenon DEF InOrder, Upto
<1>4. CASE tls_do_handshake
  <2>1. UNCHANGED <<got, out, wbuf, done>> /\ state # "FREE"
    BY <1>4, Zenon DEF tls_do_handshake, IInv, Open
  <2> QED
    BY <2>1, Zenon DEF IInv, InOrder
<1>5. CASE conn_close
  BY <1>5, Zenon DEF conn_close, InOrder
<1>6. CASE \/ client_hello \/ client_finish \/ client_send \/ client_close \/ epoll_wait
           \/ flush_done \/ flush_block \/ flush_error \/ read_some \/ read_end \/ parse_more
           \/ sweep \/ elapse \/ Finished \/ UNCHANGED vars
  <2>1. UNCHANGED <<got, out, wbuf, done, state>>
    BY <1>6, ZenonT(30)
       DEF client_hello, client_finish, client_send, client_close, Arrive, epoll_wait, flush_done, flush_block,
           flush_error, read_some, read_end, parse_more, sweep, elapse, Finished
  <2> QED
    BY <2>1, Zenon DEF IInv, InOrder
<1> QED
  BY <1>1, <1>2, <1>3, <1>4, <1>5, <1>6, ZenonT(30)
     DEF Next, worker, reader, client, clock

\* Every step keeps what has to be done known to epoll or to the worker.
LEMMA NextPending == IInv /\ [Next]_vars => Pending'
<1> SUFFICES ASSUME IInv, [Next]_vars, ~tls', state' = "CONNECTED"
             PROVE  /\ in' # <<>> => queued' \/ pc' \in {"read", "last", "close"} \/ (pc' = "resume" /\ "IN" \in mask')
                    /\ rbuf' >= 2 => pc' \in {"read", "parse", "last", "close"}
                    /\ pc' = "wait" /\ wbuf' # <<>> => interest' /\ (queued' \/ Len(out') = OutCap)
  BY Zenon DEF Pending
<1>k. tls' = tls
  BY Zenon DEF Next, worker, reader, client, clock, Finished
<1>h. pc # "handshake" /\ state # "TLS_HAND" /\ (pc = "resume" => interest)
  BY <1>k, Zenon DEF IInv, Open
<1>s. state' # "FREE" /\ ~tls'
  BY Zenon
<1>p. ASSUME state = "CONNECTED"
      PROVE  /\ in # <<>> => queued \/ pc \in {"read", "last", "close"} \/ (pc = "resume" /\ "IN" \in mask)
             /\ rbuf >= 2 => pc \in {"read", "parse", "last", "close"}
             /\ pc = "wait" /\ wbuf # <<>> => interest /\ (queued \/ Len(out) = OutCap)
  BY <1>p, <1>k, Zenon DEF IInv, Pending
<1>1. CASE client_hello \/ client_finish \/ client_send
  <2>1. queued' /\ UNCHANGED <<out, interest, state, rbuf, wbuf, pc>>
    BY <1>1, Zenon DEF client_hello, client_finish, client_send, Arrive
  <2> QED
    BY <2>1, <1>p, Zenon
<1>2. CASE client_close
  BY <1>2, <1>p, Zenon DEF client_close
<1>3. CASE client_read
  BY <1>3, <1>p, Zenon DEF client_read
<1>4. CASE epoll_wait
  <2>1. /\ UNCHANGED <<in, out, interest, state, rbuf, wbuf>> /\ pc = "wait"
        /\ mask' = ReadyMask(interest)
    BY <1>4, Zenon DEF epoll_wait
  <2>2. in # <<>> => "IN" \in mask'
    BY <2>1, Zenon DEF ReadyMask
  <2>3. interest /\ Len(out) < OutCap => "OUT" \in mask'
    BY <2>1, Zenon DEF ReadyMask
  <2>4. pc' = "wait" => mask' = {}
    BY <1>4 DEF epoll_wait
  <2>5. pc' \in {"wait", "close", "resume", "read"}
    BY <1>4, <1>h DEF epoll_wait
  <2>6. ~(rbuf >= 2)
    BY <2>1, <1>p
  <2>7. Len(out) < OutCap \/ Len(out) = OutCap
    BY ConnectionAssumption DEF IInv, Types
  <2> QED
    BY <2>1, <2>2, <2>3, <2>4, <2>5, <2>6, <2>7, <1>p, ZenonT(30)
<1>5. CASE tls_do_handshake
  BY <1>5, <1>h, Zenon DEF tls_do_handshake
<1>6. CASE flush_write
  BY <1>6, <1>p, Zenon DEF flush_write
<1>7. CASE flush_done
  BY <1>7, <1>p, ZenonT(30) DEF flush_done, Modify
<1>8. CASE flush_block
  BY <1>8, <1>p, <1>h, ZenonT(30) DEF flush_block, Modify
<1>9. CASE flush_error
  BY <1>9, <1>p, ZenonT(30) DEF flush_error
<1>10. CASE read_some \/ read_end
  BY <1>10, <1>p, ZenonT(30) DEF read_some, read_end
<1>11. CASE parse_more
  <2>1. ~(rbuf >= 2)
    BY <1>11 DEF parse_more, IInv, Types
  <2> QED
    BY <1>11, <2>1, <1>p, ZenonT(30) DEF parse_more
<1>12. CASE dispatch
  BY <1>12, <1>p, ZenonT(30) DEF dispatch
<1>13. CASE conn_close
  BY <1>13, <1>s, Zenon DEF conn_close
<1>14. CASE elapse \/ Finished \/ UNCHANGED vars
  <2>1. UNCHANGED <<in, out, interest, queued, state, rbuf, wbuf, pc, mask>>
    BY <1>14, Zenon DEF elapse, Finished
  <2> QED
    BY <2>1, <1>p, Zenon
<1>15. CASE sweep
  BY <1>15, Zenon DEF sweep
<1> QED
  BY <1>1, <1>2, <1>3, <1>4, <1>5, <1>6, <1>7, <1>8, <1>9, <1>10, <1>11, <1>12, <1>13, <1>14, <1>15, ZenonT(30)
     DEF Next, worker, reader, client, clock

-----------------------------------------------------------------------------
(* The theorems.                                                           *)

\* The invariant holds in every reachable state.
THEOREM InvCorrect == Spec => []IInv
<1>1. IInv /\ [Next]_vars => IInv'
  BY NextTypes, NextOpen, NextInOrder, NextPending, ZenonT(30) DEF IInv
<1> QED
  BY InitIInv, <1>1, PTL DEF Spec

\* conn_flush and process_conn answer in order: at any time the replies the client has
\* read, those in the socket and those in wbuf are the replies of the requests
\* dispatched so far, none lost, repeated or out of place.
THEOREM OrderCorrect == Spec => []InOrder
<1>1. IInv => InOrder
  BY DEF IInv
<1> QED
  BY InvCorrect, <1>1, PTL

\* worker_thread loses no edge of the epoll: without TLS, whatever the client sends and
\* however the reads and writes are cut, a worker that waits with nothing on the ready
\* list has nothing left to do but what a full socket holds back.
THEOREM WakeupCorrect == Spec => []NoLostWakeup
<1>1. IInv => NoLostWakeup
  <2> SUFFICES ASSUME IInv, ~tls, pc = "wait", state = "CONNECTED", ~queued
               PROVE  in = <<>> /\ rbuf < 2 /\ (wbuf # <<>> => interest /\ Len(out) = OutCap)
    BY Zenon DEF NoLostWakeup
  <2>1. in = <<>> /\ ~(rbuf >= 2) /\ (wbuf # <<>> => interest /\ Len(out) = OutCap)
    BY Zenon DEF IInv, Pending
  <2>2. rbuf < 2
    BY <2>1 DEF IInv, Types
  <2> QED
    BY <2>1, <2>2
<1> QED
  BY InvCorrect, <1>1, PTL
=============================================================================
