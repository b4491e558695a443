------------------------------- MODULE MCCalls -------------------------------
(***************************************************************************)
(* For TLC, a batch and a USSD request: with retry_forever and outages;    *)
(* and with two recipients that are called one after the other.            *)
(***************************************************************************)
EXTENDS Batches
CONSTANTS b1, u1, c1

TwoJobs    == {b1, u1}
OneRequest == {u1}
OneCaller  == {c1}
OwnIds     == [ j \in Jobs |-> j ]  \* a job's id is the job itself
=============================================================================
