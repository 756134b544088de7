----------------------------- MODULE MCListCache -----------------------------
(***************************************************************************)
(* Instances of ListCache for TLC. Cache keys never meet in an operation,  *)
(* so the races of one endpoint are the races of the cache.                *)
(***************************************************************************)
EXTENDS ListCache

CONSTANTS r1, r2, r3, w1, p1

OneWriter == [c \in {r1, r2, r3, w1} |-> p1]
TwoReaders == [c \in {r1, r2, w1} |-> p1]
=============================================================================
