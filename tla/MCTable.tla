------------------------------- MODULE MCTable -------------------------------
(***************************************************************************)
(* Small instances, for TLC, of the two users of the outbox table: the SMS *)
(* jobs (Outbox) and the events for Home Assistant (EventDelivery).  Their *)
(* rows differ in kind, each kind has a worker of its own, and no          *)
(* statement of storage.py touches both, so a behaviour is about the one   *)
(* kind or the other, and the variables of the other stay as they are.     *)
(***************************************************************************)
EXTENDS Outbox
CONSTANTS j1, Events, MaxTries, MaxHalts, MaxFaults, Nothing

VARIABLES
  kind,  \* of the rows the behaviour is about
  jobs, order, inserting, bridge, halts, faults, forwards, holder, handled, smsJobs

OneJob == {j1}

HaEvents == INSTANCE EventDelivery

events == <<jobs, order, inserting, bridge, halts, faults, forwards, holder, handled, smsJobs>>
MCvars == <<kind, vars, events>>

MCInit == kind \in {"sms", "ha_event"} /\ Init /\ HaEvents!Init

MCNext ==
  \/ kind = "sms" /\ Next /\ UNCHANGED <<kind, events>>
  \/ kind = "ha_event" /\ HaEvents!Next /\ UNCHANGED <<kind, vars>>

\* Fairness of Outbox for SMS jobs and of EventDelivery for events.
MCSpec ==
  /\ MCInit /\ [][MCNext]_MCvars
  /\ WF_vars(kind = "sms" /\ Work) /\ SF_vars(kind = "sms" /\ Claim)
  /\ WF_vars(kind = "sms" /\ OtherEnds) /\ WF_vars(kind = "sms" /\ Restart)
  /\ WF_vars(kind = "sms" /\ ~available /\ Connection)
  /\ \A j \in Jobs : WF_vars(kind = "sms" /\ Due(j))
  /\ WF_events(kind = "ha_event" /\ HaEvents!Deliver)
  /\ WF_events(kind = "ha_event" /\ HaEvents!Boot)
  /\ \A e \in Events : WF_events(kind = "ha_event" /\ HaEvents!Due(e))

\* An event marked "sent" was delivered, and retries, restarts and lost answers deliver it
\* a bounded number of times (EventDelivery).
DeliveriesBounded == HaEvents!DeliveriesBounded

\* Every persisted event is delivered or given up in the end (EventDelivery).
EventsEnd == HaEvents!EventsEnd
=============================================================================
