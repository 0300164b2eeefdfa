------------------------------ MODULE MCValues ------------------------------
(* Instances of Values for TLC.                                             *)
EXTENDS Values

\* Around the limits of the payload: 24 bytes is the longest key that leaves
\* room for a pointer, 8 + 24 bytes the longest inline entry tried.
MCKeyLen == [k \in Keys |-> IF k = "k8" THEN 8 ELSE IF k = "k24" THEN 24 ELSE 25]
=============================================================================
