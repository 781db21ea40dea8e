---------------------------- MODULE MCModelJobs ----------------------------
(* Small instances of ModelJobs for TLC. *)
EXTENDS ModelJobs

CONSTANTS j1, j2, j3, c1, c2, r1

\* Two generations compete for one chat.
SameChat == [j \in Jobs |-> c1]

\* One answer of two bytes, and an empty one.
ShortAndLong == [j \in Jobs |-> IF j = j1 THEN 2 ELSE 0]
=============================================================================
