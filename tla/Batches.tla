------------------------------- MODULE Batches -------------------------------
(***************************************************************************)
(* Two ways to configure the calls (CallControl): as the constants say,    *)
(* and without retry_forever or outages.  A behaviour keeps its            *)
(* configuration.                                                          *)
(***************************************************************************)
EXTENDS CallControl

CONSTANTS
  BoundedUssd, BoundedRecipients, BoundedRetries, BoundedStop, BoundedTracking

VARIABLE config  \* "given" or "bounded"

Bounded == INSTANCE CallControl WITH
  Ussd <- BoundedUssd, Recipients <- BoundedRecipients, MaxRetries <- BoundedRetries,
  RetryForever <- FALSE, StopBatch <- BoundedStop, Tracking <- BoundedTracking,
  Outages <- FALSE

ASSUME BoundedAssumption ==
  /\ BoundedUssd \subseteq Jobs /\ BoundedRecipients \in Nat \ {0} /\ BoundedRetries \in Nat
  /\ BoundedStop \in BOOLEAN /\ BoundedTracking \subseteq BOOLEAN /\ BoundedTracking # {}

BatchesInit == config \in {"given", "bounded"} /\ Init

BatchesNext ==
  /\ \/ config = "given" /\ Next
     \/ config = "bounded" /\ Bounded!Next
  /\ UNCHANGED config

DialOf(j) ==
  \/ config = "given" /\ Dial(j)
  \/ config = "bounded" /\ Bounded!Dial(j)

StepOf(j) ==
  \/ config = "given" /\ JobStep(j)
  \/ config = "bounded" /\ Bounded!JobStep(j)

CallerStepOf(c) ==
  \/ config = "given" /\ CallerStep(c)
  \/ config = "bounded" /\ Bounded!CallerStep(c)

\* Fairness of CallControl; Grant is the same in both.
BatchesFairness ==
  /\ \A j \in Jobs : WF_vars(DialOf(j)) /\ WF_vars(Yielded /\ StepOf(j))
  /\ WF_vars(Yielded /\ Grant)
  /\ \A c \in Callers : SF_vars(Yielded /\ CallerStepOf(c))

BatchesSpec == BatchesInit /\ [][BatchesNext]_<<config, vars>> /\ BatchesFairness

=============================================================================
