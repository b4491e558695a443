--------------------------- MODULE MCCallControl ---------------------------
(* One batch and one caller, for TLC. *)
EXTENDS CallControl
CONSTANTS b1, c1

OneBatch   == {b1}
NoRequests == {}
OneCaller  == {c1}
OwnIds     == [ j \in Jobs |-> j ]  \* a job's id is the job itself
=============================================================================
