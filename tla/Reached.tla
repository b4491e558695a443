------------------------------ MODULE Reached ------------------------------
(***************************************************************************)
(* Call batches (CallControl) with the history that tells whether the      *)
(* recipients a batch lists as reached took a call of it.                  *)
(***************************************************************************)
EXTENDS CallControl

VARIABLES
  met,    \* calls that were taken, as long as astray is FALSE
  astray  \* the call sensor may have shown a call nobody waits for

reached == <<vars, met, astray>>

ReachedInit == Init /\ met = {} /\ astray = FALSE

\* The sensor can mislead an attempt that begins before the driver has hung up, with a call
\* left behind or taken or before the sensor shows that none is; and one that waits while
\* another call is taken, which is one the driver dialled after a disconnect.
Misleads ==
  \/ /\ \E j \in Jobs : jobs[j].pc # "dial" /\ jobs'[j].pc = "dial"
     /\ hanging \/ shown \/ answered # {} \/ Standing # {}
  \/ \E call \in answered' \ answered, j \in Jobs :
       jobs[j].pc \in {"dialing", "ringing"} /\ call # <<j, jobs[j].at>>

Record ==
  /\ astray' = (astray \/ Misleads)
  /\ met' = IF astray' THEN {} ELSE met \cup answered'

ReachedNext == Next /\ Record

ReachedSpec == ReachedInit /\ [][ReachedNext]_reached

\* A recipient counts as reached only if the party took a call of this batch: what the call
\* sensor still shows of an earlier call is not credited (_wait_for_call_connected), unless
\* the pause before was too short for the driver's hang-up and the sensor, a lost
\* connection kept the hang-up from the driver, or a call was taken that the driver
\* dialled after a disconnect.
HonestCalls ==
  astray \/ \A j \in Calls : \A n \in jobs[j].completed : <<j, n>> \in met

\* The lists of a result: truth of what it counts as reached, and completeness (Covers of
\* CallControl).
HonestBatches == HonestCalls /\ Covers
=============================================================================
