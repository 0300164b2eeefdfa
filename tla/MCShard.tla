------------------------------ MODULE MCShard ------------------------------
(* Instances of Shard for TLC.                                             *)
EXTENDS Shard

CONSTANTS a, b, c, d

\* Two keys share a home, the next one's chain runs into theirs, and the
\* fourth starts at the last slot and wraps around.
MCHome == [k \in Keys |-> IF k \in {a, b} THEN 0 ELSE IF k = c THEN 1 ELSE Cap - 1]

\* Bound: calls overlap, and time passes, up to the second call; longer sequences
\* of calls are those of one thread.
MaxOverlap == 2
Main == CHOOSE t \in Threads : TRUE
Overlap == calls <= MaxOverlap \/ (now = 1 /\ \A t \in Threads \ {Main} : op[t] = "none")
=============================================================================
