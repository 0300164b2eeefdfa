----------------------------- MODULE MCCluster -----------------------------
(* The seeds of a run: the client learns of the other node from this one.  *)
EXTENDS Cluster

MCSeeds == <<"n1">>
=============================================================================
