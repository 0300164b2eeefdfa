------------------------------- MODULE MCWal -------------------------------
(* Instances of Wal for TLC: threads and keys are interchangeable.          *)
EXTENDS Wal, TLC

ThreadKeySymmetry == Permutations(Threads) \cup Permutations(Keys)
=============================================================================
