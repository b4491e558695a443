---------------------------- MODULE IntegrationHub ----------------------------
(***************************************************************************)
(* The integration's hub (hub.py, __init__.py, entity.py) and the REST     *)
(* server it asks (server.py, app/security.py).  A poll every 5 s and      *)
(* every service call end in a status request; their answers may arrive in *)
(* any order.  Entities write their state when the hub notifies them.  A   *)
(* service call keeps the hub it began on, also when the entry is unloaded *)
(* and set up again with a new hub meanwhile.                              *)
(*                                                                         *)
(* A status is what the entities tell apart: whether the gateway is        *)
(* available and whether it can send SMS.                                  *)
(***************************************************************************)
EXTENDS Naturals, Functions

CONSTANTS
  Tokens,        \* API tokens the add-on may have
  Limit,         \* writes the limiter admits per window
  MaxOrders      \* bound: jobs the service calls of an instance have queued

VARIABLES
  backend,    \* the status the add-on reports
  token,      \* its token, also in the file Home Assistant reads
  bucket,     \* writes admitted in the limiter's window
  status,     \* of the config entry: absent, starting, forwarding, loaded, stuck
  mine,       \* the tokens of the present hub and of a former one that is still in use
  available, held, recent,  \* the present hub: availability, last status applied, its hash
  issue,      \* the repair issue "send_sms_capability_missing"
  foreign,    \* history: a former hub was the last to write it
  listening,  \* entities are registered as listeners
  shown,      \* what they last wrote
  flight,     \* the request the poll task and the service call await
  jobs        \* jobs queued for the present service call

server == <<backend, token, bucket>>
known  == <<available, held, recent>>
hub    == <<mine, known>>
repair == <<issue, foreign>>
view   == <<listening, shown>>
vars   == <<server, status, hub, repair, view, flight, jobs>>

Callers  == {"poll", "service"}
Statuses == [ available : BOOLEAN, sms : BOOLEAN ]
Unset    == [ available |-> FALSE, sms |-> TRUE ]   \* the flags default to True
Idle     == [ at |-> "idle" ]

\* The service call began on a hub that was unloaded since.
Stray == "former" \in DOMAIN mine

\* The hub a caller belongs to.
Owner(c) == IF c = "service" /\ Stray THEN "former" ELSE "present"

Sent(c, what) == [ at |-> "sent", what |-> what, token |-> mine'[Owner(c)] ]

Init ==
  /\ backend \in Statuses /\ token \in Tokens /\ bucket = 0
  /\ status = "absent" /\ mine = [ h \in {"present"} |-> token ]
  /\ available = FALSE /\ held = Unset /\ recent = Unset /\ issue = FALSE /\ foreign = FALSE
  /\ listening = FALSE /\ shown = Unset
  /\ flight = [ c \in Callers |-> Idle ] /\ jobs = 0

----------------------------------------------------------------------------
(* The add-on.                                                             *)

Report(s) ==
  /\ s # backend /\ backend' = s
  /\ UNCHANGED <<token, bucket, status, hub, repair, view, flight, jobs>>

\* load_or_create_api_token makes a new one when the file is gone.
Rotate(t) ==
  /\ t # token /\ token' = t
  /\ UNCHANGED <<backend, bucket, status, hub, repair, view, flight, jobs>>

\* The limiter's window has passed.
WindowEnds ==
  /\ bucket > 0 /\ bucket' = 0
  /\ UNCHANGED <<backend, token, status, hub, repair, view, flight, jobs>>

Answer(c, got) ==
  flight' = [ flight EXCEPT ![c] =
                [ at |-> "answered", what |-> flight[c].what, got |-> got,
                  body |-> IF got = "status" THEN backend ELSE Unset ] ]

\* api_send_sms, api_call, api_hangup, api_send_ussd, api_cancel: what was asked for is
\* refused with status 400 or 422, or done once; an error may also follow what was done.
Handle(c) ==
  \/ UNCHANGED jobs /\ Answer(c, "error")
  \/ /\ jobs < MaxOrders /\ jobs' = jobs + 1
     /\ \E got \in {"queued", "error"} : Answer(c, got)

\* protect_api, then the handler.  A read is not limited.
Serve(c) ==
  /\ flight[c].at = "sent"
  /\ IF flight[c].token # token
     THEN Answer(c, "unauthorized") /\ UNCHANGED <<bucket, jobs>>
     ELSE IF flight[c].what = "status"
     THEN Answer(c, "status") /\ UNCHANGED <<bucket, jobs>>
     ELSE IF bucket = Limit
     THEN Answer(c, "error") /\ UNCHANGED <<bucket, jobs>>
     ELSE bucket' = bucket + 1 /\ Handle(c)
  /\ UNCHANGED <<backend, token, status, hub, repair, view>>

\* The request or its answer is lost: ClientError, or the total timeout runs out.
Lose(c) ==
  /\ flight[c].at # "idle" /\ \E got \in {"lost", "timeout"} : Answer(c, got)
  /\ UNCHANGED <<server, status, hub, repair, view, jobs>>

----------------------------------------------------------------------------
(* _request_json and what follows it.                                      *)

\* _notify_listeners: each entity writes its state.
Notify ==
  /\ shown' = IF listening THEN [ available |-> available', sms |-> held'.sms ] ELSE shown
  /\ UNCHANGED listening

\* A caller has nothing more to await; a service call lets go of a former hub.
Ended(c) ==
  /\ flight' = [ flight EXCEPT ![c] = Idle ]
  /\ mine' = Restrict(mine, IF c = "service" THEN {"present"} ELSE DOMAIN mine)

\* A failed set-up drops the hub; any other caller goes on without an answer.
Stopped(c) ==
  status' = (IF status = "starting" /\ c = "poll" THEN "absent" ELSE status) /\ Ended(c)

\* 401: the token file is read again; a token that is new is tried at once.
Reauthorize(c) ==
  /\ flight[c].at = "answered" /\ flight[c].got = "unauthorized"
  /\ IF token # mine[Owner(c)]
     THEN /\ mine' = [ mine EXCEPT ![Owner(c)] = token ] /\ UNCHANGED status
          /\ flight' = [ flight EXCEPT ![c] = Sent(c, flight[c].what) ]
     ELSE Stopped(c)
  /\ UNCHANGED <<server, known, repair, view, jobs>>

\* _apply_status_payload of a status that equals the last one: nobody is notified.
Repeated(c) ==
  /\ status # "starting" /\ flight[c].body = recent
  /\ available' = recent.available
  /\ UNCHANGED <<held, recent, view>>

Applied(c) ==
  /\ status = "starting" \/ flight[c].body # recent
  /\ available' = flight[c].body.available /\ held' = flight[c].body /\ recent' = flight[c].body
  /\ Notify

Refresh(c) ==
  /\ flight[c].at = "answered" /\ flight[c].got = "status" /\ Owner(c) = "present"
  /\ Repeated(c) \/ Applied(c)
  /\ issue' = ~held'.sms /\ foreign' = FALSE
  /\ status' = IF status = "starting" THEN "forwarding" ELSE status
  /\ Ended(c) /\ UNCHANGED <<server, jobs>>

\* The same of a hub that was unloaded: whether the status is new to it or not, it writes
\* the issue of the entry, which the present hub has, too.
RefreshLate(c) ==
  /\ flight[c].at = "answered" /\ flight[c].got = "status" /\ Owner(c) = "former"
  /\ issue' = ~flight[c].body.sms /\ foreign' = TRUE
  /\ Ended(c) /\ UNCHANGED <<server, status, known, view, jobs>>

\* Mutant of Unreachable: the entities are not told.
MutantUnreachable(c) ==
  available' = FALSE /\ UNCHANGED <<held, recent, view>>

\* The except clause of _async_refresh_status
Unreachable(c) ==
  /\ available' = FALSE /\ UNCHANGED <<held, recent>>
  /\ Notify

NoStatus(c) ==
  /\ flight[c].at = "answered" /\ flight[c].what = "status" /\ flight[c].got \in {"error", "lost"}
  /\ \/ Owner(c) = "present" /\ Unreachable(c)
     \/ Owner(c) = "former" /\ UNCHANGED <<known, view>>
  /\ Stopped(c) /\ UNCHANGED <<server, repair, jobs>>

\* A timeout is no GatewayConnectionError: the hub stays as it is.
TimedOut(c) ==
  /\ flight[c].at = "answered" /\ flight[c].got = "timeout"
  /\ Stopped(c)
  /\ UNCHANGED <<server, known, repair, view, jobs>>

\* The service call went through; its status request follows.
Queued ==
  /\ flight["service"].at = "answered" /\ flight["service"].got = "queued"
  /\ UNCHANGED mine
  /\ flight' = [ flight EXCEPT !["service"] = Sent("service", "status") ]
  /\ UNCHANGED <<server, status, known, repair, view, jobs>>

\* Mutant of NotQueued: the order is sent once more when its answer was lost.
MutantNotQueued ==
  /\ flight["service"].at = "answered" /\ flight["service"].what = "order"
  /\ flight["service"].got = "lost" /\ UNCHANGED mine
  /\ flight' = [ flight EXCEPT !["service"] = Sent("service", "order") ]
  /\ UNCHANGED <<server, status, known, repair, view, jobs>>

\* An order that failed raises; whether it was queued is not known.
NotQueued ==
  /\ flight["service"].at = "answered" /\ flight["service"].what = "order"
  /\ flight["service"].got \in {"error", "lost"}
  /\ Stopped("service")
  /\ UNCHANGED <<server, known, repair, view, jobs>>

----------------------------------------------------------------------------
(* The config entry and its callers.                                       *)

\* async_setup_entry makes a hub; async_start asks for the first status.
SetUp ==
  /\ status = "absent" /\ status' = "starting" /\ mine' = [ mine EXCEPT !["present"] = token ]
  /\ available' = FALSE /\ held' = Unset /\ recent' = Unset /\ issue' = FALSE /\ foreign' = FALSE
  /\ flight' = [ flight EXCEPT !["poll"] = Sent("poll", "status") ]
  /\ UNCHANGED <<server, view, jobs>>

\* The hub and its poll task are gone, and what entities there are become unavailable; a
\* service call that awaits an answer keeps the hub.
Forgotten ==
  /\ available' = FALSE /\ held' = Unset /\ recent' = Unset
  /\ listening' = FALSE /\ shown' = Unset

Dropped ==
  /\ Forgotten
  /\ flight' = [ flight EXCEPT !["poll"] = Idle ]
  /\ mine' = IF flight["service"].at = "idle" \/ Stray THEN mine
             ELSE [ h \in {"present", "former"} |-> mine["present"] ]

\* The platforms add their entities, which register and write their first state; an
\* exception stops the hub again.
Forward ==
  /\ status = "forwarding"
  /\ \/ /\ status' = "loaded" /\ listening' = TRUE /\ UNCHANGED <<hub, flight>>
        /\ shown' = [ available |-> available, sms |-> held.sms ]
     \/ status' = "absent" /\ Dropped
  /\ UNCHANGED <<server, repair, jobs>>

\* _poll_loop begins when the first status is there.
Poll ==
  /\ status \in {"forwarding", "loaded"} /\ flight["poll"].at = "idle" /\ UNCHANGED mine
  /\ flight' = [ flight EXCEPT !["poll"] = Sent("poll", "status") ]
  /\ UNCHANGED <<server, status, known, repair, view, jobs>>

\* async_send_sms_batch, async_call_batch, async_hangup, async_cancel_batch, async_send_ussd;
\* the hub is found from before its platforms are set up.
Order ==
  /\ status \in {"forwarding", "loaded"} /\ flight["service"].at = "idle" /\ UNCHANGED mine
  /\ flight' = [ flight EXCEPT !["service"] = Sent("service", "order") ] /\ jobs' = 0
  /\ UNCHANGED <<server, status, known, repair, view>>

\* async_unload_entry, also by a reload.  The hub is stopped also when a platform does not
\* unload; then its entities stay.
Unload ==
  /\ status = "loaded"
  /\ \/ status' = "absent" /\ Dropped
     \/ /\ status' = "stuck" /\ UNCHANGED <<hub, view>>
        /\ flight' = [ flight EXCEPT !["poll"] = Idle ]
  /\ UNCHANGED <<server, repair, jobs>>

\* Home Assistant is started again.
Restart ==
  /\ status \in {"loaded", "stuck"} /\ status' = "absent"
  /\ Forgotten /\ flight' = [ c \in Callers |-> Idle ] /\ mine' = Restrict(mine, {"present"})
  /\ UNCHANGED <<server, repair, jobs>>

Next ==
  \/ \E s \in Statuses : Report(s)
  \/ \E t \in Tokens : Rotate(t)
  \/ WindowEnds
  \/ \E c \in Callers :
       \/ Serve(c) \/ Lose(c) \/ Reauthorize(c)
       \/ Refresh(c) \/ RefreshLate(c) \/ NoStatus(c) \/ TimedOut(c)
  \/ Queued \/ NotQueued
  \/ SetUp \/ Forward \/ Poll \/ Order \/ Unload \/ Restart

Spec == Init /\ [][Next]_vars

----------------------------------------------------------------------------

TypeOK ==
  /\ backend \in Statuses /\ token \in Tokens /\ bucket \in 0 .. Limit
  /\ mine \in [ {"present"} -> Tokens ] \cup [ {"present", "former"} -> Tokens ]
  /\ status \in {"absent", "starting", "forwarding", "loaded", "stuck"}
  /\ available \in BOOLEAN /\ held \in Statuses /\ recent \in Statuses
  /\ issue \in BOOLEAN /\ foreign \in BOOLEAN
  /\ listening \in BOOLEAN /\ shown \in Statuses /\ jobs \in 0 .. MaxOrders
  /\ \A c \in Callers : flight[c].at \in {"idle", "sent", "answered"}

\* The entities never show a gateway as available that the hub holds to be away, in
\* whatever order answers arrive; what they show of its services is what the hub holds
\* and what the repair issue says, unless a call of a hub that was unloaded wrote the issue
\* since the hub's last status.  (The other direction fails: after an outage an unchanged
\* status does not notify them.)
ShownIsSafe ==
  listening => /\ shown.available => available
               /\ shown.sms = held.sms
               /\ ~foreign => issue = ~shown.sms

\* A service call has the add-on queue at most one job, also when its request is sent
\* again with a new token or its hub is unloaded, and exactly one when it goes on to ask
\* for the status.
OneJobPerCall ==
  /\ jobs <= 1
  /\ flight["service"].at # "idle" /\ flight["service"].what = "status" => jobs = 1

\* The two together.
HubSound == ShownIsSafe /\ OneJobPerCall
=============================================================================
