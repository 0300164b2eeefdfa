---------------------------- MODULE ShardHistory ----------------------------
(***************************************************************************)
(* Shard with history variables: what the table meant to a caller when no  *)
(* writer was active, which of those values each vc_get could have seen,   *)
(* and the entry each vc_set was given.  They only observe; no action      *)
(* depends on them.                                                        *)
(***************************************************************************)
EXTENDS Shard

VARIABLES
    view,    \* per key: the value a lookup finds, as of the last even seq
    applied, \* the values of the vc_set calls whose sections are over
    seen,    \* per thread: the values of its key since its vc_get began
    given,   \* per thread: the entry its vc_set was given
    late     \* an entry has expired

hvars == <<vars, view, applied, seen, given, late>>

Lookup(k) ==
    IF \E s \in Slots : shard_find(k, s)
    THEN ent[CHOOSE s \in Slots : shard_find(k, s)].val
    ELSE NotFound

HInit ==
    /\ Init
    /\ view = [k \in Keys |-> NotFound]
    /\ applied = {}
    /\ seen = [t \in Threads |-> {}]
    /\ given = [t \in Threads |-> Blank]
    /\ late = FALSE

Follow ==
    /\ view' = IF Quiet' THEN [k \in Keys |-> Lookup(k)'] ELSE view
    /\ applied' = applied \cup {given[t].val : t \in
                    {u \in Threads : op[u] = "set" /\ pc[u] = "wend" /\ pc'[u] = "unlock"}}
    /\ seen' = [t \in Threads |->
                  IF pc'[t] # "idle" /\ pc[t] = "idle"
                  THEN IF op'[t] = "get" THEN {view[key'[t]]} ELSE {}
                  ELSE IF pc[t] # "idle" /\ op[t] = "get"
                       THEN seen[t] \cup {view'[key[t]]} ELSE seen[t]]

\* Time does what no call does: once an entry has expired the table is no longer
\* followed, which to the abstract cache is a Flush.
Observe ==
    /\ late' = (late \/ \E s \in Slots : (state[s] = "LIVE" /\ entry_expired(ent[s]))')
    /\ IF late' THEN /\ view' = [k \in Keys |-> NotFound]
                     /\ seen' = [t \in Threads |-> {}]
                     /\ UNCHANGED applied
                ELSE Follow
    /\ given' = [t \in Threads |-> IF pc'[t] = "idle" THEN Blank
                                   ELSE IF pc[t] = "idle" THEN inc'[t] ELSE given[t]]

HNext == Next /\ Observe

HSpec == HInit /\ [][HNext]_hvars

\* Each thread inside a call keeps running (the operating system schedules it).
HFairSpec == HSpec /\ \A t \in Threads : WF_hvars((Writer(t) \/ Reader(t)) /\ Observe)

Abstract == INSTANCE Cache WITH store <- view, used <- applied, MaxVal <- MaxCalls

\* A shard implements the abstract cache: each writer's section, however many
\* slots it moves, is one Set, Del or Flush; vc_set costs at most one key its
\* entry, and a value that was overwritten or deleted never comes back.
ImplementsCache == Abstract!Spec

\* vc_get is linearizable: what it returns was the value of its key at some
\* moment between its call and its return, as long as no entry has expired.
GetLinearizable ==
    \A t \in Threads : ~late /\ pc[t] = "idle" /\ op[t] = "get" => res[t] \in seen[t]

\* "vc_set - insert or update a key/value pair": when vc_set releases the lock
\* a lookup of its key finds the value it was given, unless that expired.
SetIsVisible ==
    \A t \in Threads :
        pc[t] = "unlock" /\ op[t] = "set" /\ ~entry_expired(given[t])
            => Lookup(key[t]) = given[t].val
=============================================================================
