------------------------------ MODULE MCServer ------------------------------
(* Instances of Server for TLC: workers and clients are interchangeable.    *)
(* The properties are about the states before a sweep takes another         *)
(* worker's connection, so TLC explores none behind such a sweep.           *)
EXTENDS Server, TLC

WorkerClientSymmetry == Permutations(Workers) \cup Permutations(Clients)

NoForeignYet == ~foreign
=============================================================================
