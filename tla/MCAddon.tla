------------------------------- MODULE MCAddon -------------------------------
(***************************************************************************)
(* A small instance, for TLC, of each part of the add-on that Addon puts   *)
(* side by side.                                                           *)
(***************************************************************************)
EXTENDS Addon, TLC
CONSTANTS b1, b2, c1

TwoBatches == {b1, b2}
NoRequests == {}
OneCaller  == {c1}
OwnIds     == [ j \in Jobs |-> j ]  \* a job's id is the job itself

\* Neighbours in the inbox differ in both sender and text, the first and third are equal.
ThreeMessages == << [from |-> "a", text |-> "x"], [from |-> "b", text |-> "y"],
                    [from |-> "a", text |-> "x"] >>

Symmetric == Permutations(TwoBatches)
=============================================================================
