----------------------------- MODULE Lifecycle ------------------------------
(***************************************************************************)
(* Start and stop of the server: the main thread of cli/vcli.c creates it, *)
(* starts the workers, waits for a signal, stops, joins and destroys       *)
(* (net/server.c), while each worker loops as long as srv->running.        *)
(*                                                                         *)
(* vcserver_start stores worker i in srv->workers[i] without comparing i   *)
(* with VC_WORKER_THREADS.  In vcserver_t the words behind the array are   *)
(* running, total_conns, total_commands and rejected_auth, so a store past *)
(* the end overwrites them and they overwrite the stored thread: running   *)
(* becomes the low byte of a pthread_t, zero or not.                       *)
(***************************************************************************)
EXTENDS Naturals

CONSTANTS
    VC_WORKER_THREADS,  \* length of srv->workers
    MaxThreads          \* bound: the largest --threads argument tried

ASSUME ThreadsAssumption == VC_WORKER_THREADS \in Nat \ {0} /\ MaxThreads \in Nat \ {0}

VARIABLES
    worker_threads,     \* cfg.worker_threads
    main,       \* where the main thread is
    i,          \* its loop counter
    running,    \* srv->running
    intact,     \* workers[j] still holds the thread stored there
    wpc,        \* the workers
    server      \* srv and srv->cache: "absent", "live" or "destroyed"

lifecycle == <<worker_threads, main, i, running, intact, wpc, server>>

Threads == 0 .. MaxThreads - 1
RunningWord == VC_WORKER_THREADS
ConnsWord == VC_WORKER_THREADS + 1
CommandsWord == VC_WORKER_THREADS + 2
RejectedWord == VC_WORKER_THREADS + 3

Clobber(word) == intact' = [j \in Threads |-> intact[j] /\ j # word]

LifecycleInit ==
    /\ worker_threads \in 1 .. MaxThreads
    /\ main = "create" /\ i = 0
    /\ running = FALSE
    /\ intact = [j \in Threads |-> FALSE]
    /\ wpc = [j \in Threads |-> "none"]
    /\ server = "absent"

\* Fault: running is left for vcserver_run to set.
vcserver_create_idle ==
    /\ main = "create"
    /\ main' = "start" /\ server' = "live" /\ UNCHANGED running
    /\ UNCHANGED <<i, intact, wpc>>

\* A failed vcserver_create releases what it had; the process exits.
vcserver_create ==
    /\ main = "create"
    /\ \/ main' = "start" /\ server' = "live" /\ running' = TRUE
       \/ main' = "exit" /\ UNCHANGED <<server, running>>
    /\ UNCHANGED <<i, intact, wpc>>

vcserver_start ==
    /\ main = "start" /\ i < worker_threads
    /\ wpc' = [wpc EXCEPT ![i] = "loop"]
    /\ intact' = [intact EXCEPT ![i] = TRUE]
    /\ IF i = RunningWord THEN running' \in BOOLEAN ELSE UNCHANGED running
    /\ i' = i + 1
    /\ UNCHANGED <<main, server>>

\* vcserver_start returns -1 in the middle; main destroys the server and exits.
start_failed ==
    /\ main = "start" /\ i < worker_threads
    /\ main' = "destroy"
    /\ UNCHANGED <<i, running, intact, wpc, server>>

vcserver_run ==
    /\ main = "start" /\ i = worker_threads
    /\ main' = "run"
    /\ UNCHANGED <<i, running, intact, wpc, server>>

\* Fault: the workers are not told.
vcserver_stop_silent ==
    /\ main = "run"
    /\ main' = "join" /\ i' = 0
    /\ UNCHANGED <<running, intact, wpc, server>>

\* SIGINT or SIGTERM ends sigwait; vcserver_stop clears running.
vcserver_stop ==
    /\ main = "run"
    /\ running' = FALSE
    /\ IF running THEN Clobber(RunningWord) ELSE UNCHANGED intact
    /\ main' = "join" /\ i' = 0
    /\ UNCHANGED <<wpc, server>>

\* Fault: the threads are detached instead of joined.
join_detach ==
    /\ main = "join" /\ i < worker_threads
    /\ i' = i + 1
    /\ main' = IF i' = worker_threads THEN "destroy" ELSE main
    /\ UNCHANGED <<running, intact, wpc, server>>

\* pthread_join of a word that no longer holds a thread waits for nothing.
join ==
    /\ main = "join" /\ i < worker_threads
    /\ intact[i] => wpc[i] = "exited"
    /\ i' = i + 1
    /\ main' = IF i' = worker_threads THEN "destroy" ELSE main
    /\ UNCHANGED <<running, intact, wpc, server>>

vcserver_destroy ==
    /\ main = "destroy"
    /\ server' = "destroyed"
    /\ main' = "exit"
    /\ UNCHANGED <<i, running, intact, wpc>>

\* while (srv->running): events of one round, counted in the three statistics.
\* (epoll_wait is taken not to fail: the worker's descriptor is never closed, and
\* EINTR goes round again.)
worker_loop(j) ==
    /\ wpc[j] = "loop"
    /\ wpc' = [wpc EXCEPT ![j] = IF running THEN "serving" ELSE "exited"]
    /\ UNCHANGED <<main, i, running, intact, server>>

worker_serve(j) ==
    /\ wpc[j] = "serving"
    /\ wpc' = [wpc EXCEPT ![j] = "loop"]
    /\ \E word \in {ConnsWord, CommandsWord, RejectedWord} : Clobber(word)
    /\ UNCHANGED <<main, i, running, server>>

Done == main = "exit" /\ UNCHANGED lifecycle

main_thread ==
    /\ \/ vcserver_create \/ vcserver_start \/ start_failed \/ vcserver_run
       \/ join \/ vcserver_destroy
    /\ UNCHANGED worker_threads

signal == vcserver_stop /\ UNCHANGED worker_threads

worker_thread(j) == (worker_loop(j) \/ worker_serve(j)) /\ UNCHANGED worker_threads

LifecycleNext == main_thread \/ signal \/ (\E j \in Threads : worker_thread(j)) \/ Done

LifecycleSpec == LifecycleInit /\ [][LifecycleNext]_lifecycle

\* Threads are scheduled and epoll_wait returns within its 1 s timeout.
FairLifecycle == LifecycleSpec /\ WF_lifecycle(main_thread) /\ \A j \in Threads : WF_lifecycle(worker_thread(j))

-----------------------------------------------------------------------------
\* Types of the main thread's and the workers' state.
TypeOK ==
    /\ worker_threads \in 1 .. MaxThreads
    /\ main \in {"create", "start", "run", "join", "destroy", "exit"}
    /\ i \in 0 .. MaxThreads
    /\ running \in BOOLEAN
    /\ intact \in [Threads -> BOOLEAN]
    /\ wpc \in [Threads -> {"none", "loop", "serving", "exited"}]
    /\ server \in {"absent", "live", "destroyed"}

\* The array holds the threads; nothing in the code sees to it.
Fits == worker_threads <= VC_WORKER_THREADS

\* A worker leaves its loop only after vcserver_stop: the server keeps serving with
\* every thread it was asked for until it is told to stop.
ServesUntilStop ==
    Fits => \A j \in Threads : wpc[j] = "exited" => main \in {"join", "destroy", "exit"}

\* After a stop vcserver_destroy frees the server and the cache when no worker can
\* touch them any more.  (After a failed start running is still set: the workers
\* started so far go on while main frees the server.)
DestroyAfterWorkers ==
    Fits /\ server = "destroyed" /\ ~running => \A j \in Threads : wpc[j] \in {"none", "exited"}

\* Once vcserver_stop runs, every join returns and the server is destroyed.
StopReturns == Fits /\ main = "join" ~> server = "destroyed"

=============================================================================
