-------------------------------- MODULE Slab --------------------------------
(***************************************************************************)
(* One size class of the slab allocator: a Treiber stack of free blocks.   *)
(* slab_alloc pops, slab_free pushes, both by compare-and-swap on the head. *)
(* A block's first word is the free-list link while the block is free and   *)
(* value bytes once vc_set has copied the value in.                        *)
(*                                                                         *)
(* Left out: alloc_count and free_count, which nothing reads.              *)
(***************************************************************************)
EXTENDS Integers

CONSTANTS
    Threads,      \* threads calling the library
    NBlocks,      \* arena_size / block_size
    MaxOps        \* bound: calls of slab_alloc and slab_free

ASSUME SlabAssumption == NBlocks \in Nat /\ MaxOps \in Nat

VARIABLES
    head,   \* sc->head
    link,   \* per block: its first word, node->next
    uses,   \* per block: how many callers hold it
    ops,    \* calls made so far
    pc,     \* per thread: the next step of its call
    h,      \* per thread: the local "head"
    n,      \* per thread: the local "next"
    node,   \* per thread: the block it returns or was given
    aba     \* history: a pop has installed a link that was no longer its block's

vars == <<head, link, uses, ops, pc, h, n, node, aba>>

-----------------------------------------------------------------------------
Blocks == 1 .. NBlocks
NULL   == 0
Bytes  == -1         \* a first word that holds part of a value

Goto(t, l) == pc' = [pc EXCEPT ![t] = l]

\* slab_init links the blocks of the arena from the first to the last.
Init ==
    /\ head = IF NBlocks = 0 THEN NULL ELSE 1
    /\ link = [b \in Blocks |-> IF b = NBlocks THEN NULL ELSE b + 1]
    /\ uses = [b \in Blocks |-> 0]
    /\ ops = 0
    /\ pc = [t \in Threads |-> "idle"]
    /\ h = [t \in Threads |-> NULL]
    /\ n = [t \in Threads |-> NULL]
    /\ node = [t \in Threads |-> NULL]
    /\ aba = FALSE

Call(t, l) ==
    /\ pc[t] = "idle"
    /\ ops < MaxOps
    /\ ops' = ops + 1
    /\ Goto(t, l)
    /\ UNCHANGED <<head, link, h, n, aba>>

slab_alloc(t) == Call(t, "popload") /\ UNCHANGED <<uses, node>>

\* An exhausted class makes slab_alloc return NULL.
pop_load(t) ==
    /\ pc[t] = "popload"
    /\ h' = [h EXCEPT ![t] = head]
    /\ Goto(t, IF head = NULL THEN "idle" ELSE "popnext")
    /\ UNCHANGED <<head, link, uses, ops, n, node, aba>>

\* head->next is read after the load, whoever owns the block by then; a head
\* that is no block makes it a read of some other word.
pop_next(t) ==
    /\ pc[t] = "popnext"
    /\ \E w \in IF h[t] \in Blocks THEN {link[h[t]]} ELSE Blocks \cup {NULL, Bytes} :
         n' = [n EXCEPT ![t] = w]
    /\ Goto(t, "popcas")
    /\ UNCHANGED <<head, link, uses, ops, h, node, aba>>

pop_cas(t) ==
    /\ pc[t] = "popcas"
    /\ head = h[t]
    /\ head' = n[t]
    /\ uses' = [uses EXCEPT ![h[t]] = @ + 1]
    /\ node' = [node EXCEPT ![t] = h[t]]
    /\ Goto(t, "fill")
    /\ aba' = (aba \/ n[t] # link[h[t]])
    /\ UNCHANGED <<link, ops, h, n>>

\* Fault: the loop retries with the head it read first.
cas_fail_stale(t) == pc[t] \in {"popcas", "pushcas"} /\ UNCHANGED vars

\* compare_exchange_weak fails if the head differs, and may fail regardless.
cas_fail(t) ==
    /\ \/ pc[t] = "popcas" /\ Goto(t, "popload")
       \/ pc[t] = "pushcas" /\ Goto(t, "pushload")
    /\ UNCHANGED <<head, link, uses, ops, h, n, node, aba>>

\* vc_set: memcpy(vbuf, val, val_len).
fill(t) ==
    /\ pc[t] = "fill"
    /\ link' = [link EXCEPT ![node[t]] = Bytes]
    /\ Goto(t, "idle")
    /\ UNCHANGED <<head, uses, ops, h, n, node, aba>>

Filling(b) == \E t \in Threads : pc[t] = "fill" /\ node[t] = b

\* The owner of the block gives it up; any thread may be the one to do so.
slab_free(t, b) ==
    /\ uses[b] > 0 /\ ~Filling(b)
    /\ Call(t, "pushload")
    /\ uses' = [uses EXCEPT ![b] = @ - 1]
    /\ node' = [node EXCEPT ![t] = b]

push_load(t) ==
    /\ pc[t] = "pushload"
    /\ h' = [h EXCEPT ![t] = head]
    /\ Goto(t, "pushlink")
    /\ UNCHANGED <<head, link, uses, ops, n, node, aba>>

push_link(t) ==
    /\ pc[t] = "pushlink"
    /\ link' = [link EXCEPT ![node[t]] = h[t]]
    /\ Goto(t, "pushcas")
    /\ UNCHANGED <<head, uses, ops, h, n, node, aba>>

\* Fault: the head is stored without comparing.
push_cas_store(t) ==
    /\ pc[t] = "pushcas"
    /\ head' = node[t]
    /\ Goto(t, "idle")
    /\ UNCHANGED <<link, uses, ops, h, n, node, aba>>

push_cas(t) ==
    /\ pc[t] = "pushcas"
    /\ head = h[t]
    /\ head' = node[t]
    /\ Goto(t, "idle")
    /\ UNCHANGED <<link, uses, ops, h, n, node, aba>>

Step(t) ==
    \/ pop_load(t) \/ pop_next(t) \/ pop_cas(t) \/ cas_fail(t) \/ fill(t)
    \/ push_load(t) \/ push_link(t) \/ push_cas(t)

Finished == ops = MaxOps /\ (\A t \in Threads : pc[t] = "idle") /\ UNCHANGED vars

Next ==
    \/ \E t \in Threads : slab_alloc(t) \/ Step(t) \/ \E b \in Blocks : slab_free(t, b)
    \/ Finished

Spec == Init /\ [][Next]_vars

\* Threads keep running, and a compare-and-swap whose head keeps matching does
\* not fail for ever.
FairSpec ==
    Spec /\ \A t \in Threads : WF_vars(Step(t)) /\ SF_vars(pop_cas(t)) /\ SF_vars(push_cas(t))

-----------------------------------------------------------------------------
(* slab_alloc compares the head, not the link it read from it.  If the     *)
(* block was popped and pushed back in between, the compare-and-swap       *)
(* succeeds and installs a stale link (ABA): that is aba, and from then on *)
(* the head may be a block in use, or value bytes.  Up to then the         *)
(* following holds.                                                        *)

\* What a walk from the head along the links meets: the least set of blocks
\* that holds the head and, with a block, the one it links to.
Closed(S) ==
    /\ head \in Blocks => head \in S
    /\ \A b \in S : link[b] \in Blocks => link[b] \in S

FreeList  == {b \in Blocks : \A S \in SUBSET Blocks : Closed(S) => b \in S}
Pushed(t) == pc[t] \in {"pushload", "pushlink", "pushcas"}
InTransit == {node[t] : t \in {u \in Threads : Pushed(u)}}
InUse     == {b \in Blocks : uses[b] > 0}

\* No block is lost and none is in two places: the free list ends, and every
\* block is on it, held by a caller, or on its way back, never two of these.
\* So slab_alloc reports an exhausted class only when no block is free.
Conservation ==
    ~aba =>
        /\ head = NULL \/ \E b \in FreeList : link[b] = NULL
        /\ FreeList \cup InUse \cup InTransit = Blocks
        /\ FreeList \cap InUse = {} /\ FreeList \cap InTransit = {} /\ InUse \cap InTransit = {}

\* slab_alloc and slab_free return: a failed compare-and-swap means that some
\* other thread's succeeded or that the failure was spurious.  (MaxOps bounds
\* the other threads' operations; the stack is lock-free, not wait-free.)
CallsReturn == \A t \in Threads : (pc[t] # "idle") ~> (pc[t] = "idle")
=============================================================================
