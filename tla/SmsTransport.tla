---------------------------- MODULE SmsTransport ----------------------------
(***************************************************************************)
(* What the SIM800L driver promises about the SMS requests it accepts,     *)
(* without the modem protocol, the retries and the recoveries: a bounded   *)
(* first-in first-out queue whose head is handed to the network at most    *)
(* once, and which gets exactly one verdict, "sent" or "unknown" only      *)
(* after that.  Sim800l implements this specification.                     *)
(***************************************************************************)
EXTENDS Naturals, Sequences

CONSTANTS Requests, Capacity

VARIABLES
  pending,    \* accepted requests without a verdict, oldest first
  submitted,  \* the body of the oldest one was handed to the network
  verdict     \* what is known of each request

vars == <<pending, submitted, verdict>>

Verdicts == {"none", "open", "sent", "failed", "unknown"}

Init ==
  /\ pending = <<>> /\ submitted = FALSE
  /\ verdict = [ r \in Requests |-> "none" ]

Accept(r) ==
  /\ verdict[r] = "none" /\ Len(pending) < Capacity
  /\ pending' = Append(pending, r)
  /\ verdict' = [ verdict EXCEPT ![r] = "open" ]
  /\ UNCHANGED submitted

Reject(r) ==
  /\ verdict[r] = "none"
  /\ verdict' = [ verdict EXCEPT ![r] = "failed" ]
  /\ UNCHANGED <<pending, submitted>>

Submit ==
  /\ pending # <<>> /\ ~submitted
  /\ submitted' = TRUE
  /\ UNCHANGED <<pending, verdict>>

Resolve(v) ==
  /\ pending # <<>>
  /\ v \in {"sent", "unknown"} => submitted
  /\ verdict' = [ verdict EXCEPT ![Head(pending)] = v ]
  /\ pending' = Tail(pending)
  /\ submitted' = FALSE

Next ==
  \/ \E r \in Requests : Accept(r) \/ Reject(r)
  \/ Submit
  \/ \E v \in {"sent", "failed", "unknown"} : Resolve(v)

Spec == Init /\ [][Next]_vars
=============================================================================
