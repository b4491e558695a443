--------------------------- MODULE SmsConfirmation ---------------------------
(***************************************************************************)
(* How the add-on learns what became of a segment: the SIM800L driver,     *)
(* seen as SmsTransport, publishes one text sensor; the ESPHome connection *)
(* carries service calls one way and sensor states the other; the worker   *)
(* credits the first verdict that arrives after it handed a segment over   *)
(* (gateway.py), because a status names no request.                        *)
(*                                                                         *)
(* The version counter of the role is abstracted to "received since the    *)
(* hand-over"; the 75 s deadline may pass at any moment.                   *)
(***************************************************************************)
EXTENDS Naturals, Sequences

CONSTANTS
  Segments,   \* number of segments the worker sends
  Slots,      \* capacity of the driver's queue
  MaxDrops    \* bound: lost ESPHome connections in an instance

VARIABLES
  pending, submitted, verdict,  \* the driver, see SmsTransport
  sensor,      \* value of the sms_status text sensor
  dump,        \* a new subscriber has not got the current state yet
  up,          \* the add-on is subscribed to the states (available = True)
  calls,       \* execute_service calls under way to the ESP
  states,      \* verdicts of sms_status under way to the add-on
  next,        \* the segment the worker is at
  waiting,     \* in _wait_for_sms_confirmation
  heard,       \* first verdict of _sms_status_results newer than the hand-over
  credited,    \* what the worker made of each segment
  drops,       \* how often the connection was lost
  clean        \* history: segments sent with nothing outstanding, on one connection

driver == <<pending, submitted, verdict>>
wire   == <<dump, up, calls, states>>
sender == <<next, waiting, heard, credited>>
vars   == <<driver, sensor, wire, sender, drops, clean>>

Ids == 1 .. Segments
Transport == INSTANCE SmsTransport WITH Requests <- Ids, Capacity <- Slots

Final  == {"sent", "failed", "unknown"}
Status == Final \cup {"idle", "queued", "sending"}

Init ==
  /\ Transport!Init
  /\ sensor = "idle" /\ dump = FALSE /\ up = FALSE /\ calls = <<>> /\ states = <<>>
  /\ next = 1 /\ waiting = FALSE /\ heard = "none"
  /\ credited = [ s \in Ids |-> "none" ]
  /\ drops = 0 /\ clean = {}

----------------------------------------------------------------------------
(* The driver and its sensor.                                              *)

\* publish_sms_status_: a value equal to the sensor's is not published again.  A state
\* that is no verdict is left out of the wire: the wait skips it.
Publish(value) ==
  /\ sensor' = value
  /\ states' = IF up /\ value # sensor /\ value \in Final
               THEN Append(states, value) ELSE states

\* enqueue_sms_ on the next service call; refused when the queue is full.
Enqueue ==
  /\ calls # <<>> /\ calls' = Tail(calls)
  /\ \/ Transport!Accept(Head(calls)) /\ Publish("queued")
     \/ Len(pending) = Slots /\ Transport!Reject(Head(calls)) /\ Publish("failed")
  /\ UNCHANGED <<dump, up, sender, drops, clean>>

\* start_active_sms_, and requeue_active_sms_ after a recovery.
Attempt ==
  /\ pending # <<>> /\ ~submitted
  /\ \/ sensor # "sending" /\ Publish("sending")
     \/ sensor = "sending" /\ Publish("queued")
  /\ UNCHANGED <<driver, dump, up, calls, sender, drops, clean>>

Submit ==
  /\ Transport!Submit /\ sensor = "sending"
  /\ UNCHANGED <<sensor, wire, sender, drops, clean>>

\* complete_active_sms_
Complete(v) ==
  /\ Transport!Resolve(v) /\ Publish(v)
  /\ UNCHANGED <<dump, up, calls, sender, drops, clean>>

----------------------------------------------------------------------------
(* The connection.                                                         *)

\* _async_on_connect: the subscription is sent and the add-on is available at once;
\* the ESP answers with its current states some time later.
Connect ==
  /\ ~up /\ up' = TRUE /\ dump' = TRUE
  /\ UNCHANGED <<driver, sensor, calls, states, sender, drops, clean>>

Dump ==
  /\ dump /\ dump' = FALSE
  /\ states' = IF sensor \in Final THEN Append(states, sensor) ELSE states
  /\ UNCHANGED <<driver, sensor, up, calls, sender, drops, clean>>

\* _async_on_disconnect: what is under way is lost; the wait is not told.
Disconnect ==
  /\ up /\ drops < MaxDrops /\ drops' = drops + 1
  /\ up' = FALSE /\ dump' = FALSE /\ calls' = <<>> /\ states' = <<>>
  /\ clean' = clean \ (IF waiting THEN {next} ELSE {})
  /\ UNCHANGED <<driver, sensor, sender>>

----------------------------------------------------------------------------
(* The worker.                                                             *)

\* Mutant of Forget: a verdict from before the hand-over counts.
MutantForget == UNCHANGED heard

\* confirmation_version: only statuses received from here on count.
Forget == heard' = "none"

Quiet == calls = <<>> /\ states = <<>> /\ pending = <<>> /\ ~dump

\* The version is read, then execute_service writes to the connection.
Send ==
  /\ ~waiting /\ next \in Ids /\ up
  /\ calls' = Append(calls, next) /\ waiting' = TRUE /\ Forget
  /\ clean' = IF Quiet THEN clean \cup {next} ELSE clean
  /\ UNCHANGED <<driver, sensor, dump, up, states, next, credited, drops>>

\* Without a connection execute_service raises: the segment has failed.
Refused ==
  /\ ~waiting /\ next \in Ids /\ ~up
  /\ next' = next + 1 /\ credited' = [ credited EXCEPT ![next] = "failed" ]
  /\ UNCHANGED <<driver, sensor, wire, waiting, heard, drops, clean>>

\* _handle_state_callback
Receive ==
  /\ states # <<>> /\ states' = Tail(states)
  /\ heard' = IF heard = "none" THEN Head(states) ELSE heard
  /\ UNCHANGED <<driver, sensor, dump, up, calls, next, waiting, credited, drops, clean>>

Settle(v) ==
  /\ waiting /\ waiting' = FALSE /\ next' = next + 1
  /\ credited' = [ credited EXCEPT ![next] = v ]
  /\ UNCHANGED <<driver, sensor, wire, heard, drops, clean>>

Credit  == heard # "none" /\ Settle(heard)
Timeout == heard = "none" /\ Settle("unknown")

Next ==
  \/ Enqueue \/ Attempt \/ Submit \/ \E v \in Final : Complete(v)
  \/ Connect \/ Dump \/ Disconnect
  \/ Send \/ Refused \/ Receive \/ Credit \/ Timeout

Spec == Init /\ [][Next]_vars

----------------------------------------------------------------------------

TypeOK ==
  /\ pending \in Seq(Ids) /\ verdict \in [ Ids -> Final \cup {"none", "open"} ]
  /\ sensor \in Status /\ dump \in BOOLEAN /\ up \in BOOLEAN
  /\ calls \in Seq(Ids) /\ states \in Seq(Final)
  /\ next \in 1 .. (Segments + 1) /\ waiting \in BOOLEAN
  /\ heard \in Final \cup {"none"} /\ credited \in [ Ids -> Final \cup {"none"} ]
  /\ drops \in 0 .. MaxDrops /\ clean \subseteq Ids

\* "sent" means that the modem answered +CMGS and OK for this segment (DOCS.md:215).
HonestCredit == \A s \in Ids : credited[s] = "sent" => verdict[s] = "sent"

\* A segment handed over while nothing of an earlier segment or connection was
\* outstanding, on a connection that lasted, gets its own verdict or "unknown".
CleanCredit ==
  \A s \in clean : credited[s] \in {"sent", "failed"} => credited[s] = verdict[s]
=============================================================================
