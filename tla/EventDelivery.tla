---------------------------- MODULE EventDelivery ----------------------------
(***************************************************************************)
(* Gateway events (an SMS received, an incoming call, ...) on their way to *)
(* Home Assistant and back as forwarded SMS: the bridge of the add-on      *)
(* persists each event in the outbox table, its worker posts it to the     *)
(* event bus with retries (homeassistant_bridge.py, storage.py); the       *)
(* integration forwards every event the bus delivers, one at a time        *)
(* (forwarding.py).                                                        *)
(*                                                                         *)
(* Grain: a coroutine step per await; a store call commits in a step of    *)
(* its own.  Time is abstracted: a back-off may end at any moment.         *)
(***************************************************************************)
EXTENDS Naturals, Sequences, FiniteSets

CONSTANTS
  Events,       \* events that may happen; each has its own idempotency key
  MaxTries,     \* max_attempts of an event, 10 in the code
  MaxHalts,     \* bound: crashes of the add-on in an instance
  MaxFaults,    \* bound: SQLite calls that raise in an instance
  Nothing

VARIABLES
  jobs,      \* the table's ha_event rows
  order,     \* events in the order of created_at, rowid
  inserting, \* _enqueue_event tasks
  bridge,    \* _delivery_worker: its pc and the claimed event
  halts, faults,
  forwards,  \* the integration's forwarding tasks: how many for each event
  holder,    \* the event whose task holds _send_lock
  handled,   \* history: how often the bus delivered each event
  smsJobs    \* history: how many SMS jobs forwarding enqueued for each event

table  == <<jobs, order>>
limits == <<halts, faults>>
home   == <<forwards, holder, smsJobs>>
vars   == <<table, inserting, bridge, limits, home, handled>>

Row(s, n) == [ status |-> s, attempts |-> n, due |-> TRUE ]
Worker(pc, e) == [ pc |-> pc, event |-> e ]
Ended == {"sent", "failed"}

Init ==
  /\ jobs = [ e \in Events |-> Row("absent", 0) ] /\ order = <<>>
  /\ inserting = {} /\ bridge = Worker("idle", Nothing)
  /\ halts = 0 /\ faults = 0
  /\ forwards = [ e \in Events |-> 0 ] /\ holder = Nothing
  /\ handled = [ e \in Events |-> 0 ] /\ smsJobs = [ e \in Events |-> 0 ]

Up == bridge.pc # "off"

\* A store call may raise.
Raises == faults < MaxFaults /\ faults' = faults + 1 /\ UNCHANGED halts

----------------------------------------------------------------------------
(* The bridge.                                                             *)

\* _on_gateway_event: the event waits in a task until it is committed.
Happen(e) ==
  /\ Up /\ jobs[e].status = "absent" /\ e \notin inserting
  /\ inserting' = inserting \cup {e}
  /\ UNCHANGED <<table, bridge, limits, home, handled>>

\* enqueue_outbox; an error is logged and the event forgotten.
Insert(e) ==
  /\ e \in inserting /\ inserting' = inserting \ {e}
  /\ \/ /\ jobs' = [ jobs EXCEPT ![e].status = "accepted" ]
        /\ order' = Append(order, e) /\ UNCHANGED limits
     \/ Raises /\ jobs' = [ jobs EXCEPT ![e].status = "lost" ] /\ UNCHANGED order
  /\ UNCHANGED <<bridge, home, handled>>

Ready(e) == jobs[e].status \in {"accepted", "retry"} /\ jobs[e].due

Taken(row) == [ row EXCEPT !.status = "sending", !.attempts = @ + 1 ]

\* claim_next_outbox: the oldest event that is due; an error ends the worker.
Claim ==
  /\ bridge.pc = "idle"
  /\ \/ /\ \E i \in DOMAIN order :
             /\ Ready(order[i]) /\ \A k \in 1 .. (i - 1) : ~Ready(order[k])
             /\ jobs' = [ jobs EXCEPT ![order[i]] = Taken(@) ]
             /\ bridge' = Worker("fire", order[i])
        /\ UNCHANGED limits
     \/ Raises /\ bridge' = Worker("dead", Nothing) /\ UNCHANGED jobs
  /\ UNCHANGED <<order, inserting, home, handled>>

\* _fire_event: the bus may have taken an event whose answer is an error or is lost.
Fire ==
  /\ bridge.pc = "fire"
  /\ \E taken, answered \in BOOLEAN :
       /\ answered => taken
       /\ IF taken
          THEN /\ handled' = [ handled EXCEPT ![bridge.event] = @ + 1 ]
               /\ forwards' = [ forwards EXCEPT ![bridge.event] = @ + 1 ]
          ELSE UNCHANGED <<handled, forwards>>
       /\ bridge' = [ bridge EXCEPT !.pc = IF answered THEN "mark" ELSE "look" ]
  /\ UNCHANGED <<table, inserting, limits, holder, smsJobs>>

\* update_outbox(sent); its error is handled like one of the delivery.
Mark ==
  /\ bridge.pc = "mark"
  /\ \/ /\ jobs' = [ jobs EXCEPT ![bridge.event].status = "sent" ]
        /\ bridge' = Worker("count", Nothing) /\ UNCHANGED limits
     \/ Raises /\ bridge' = [ bridge EXCEPT !.pc = "look" ] /\ UNCHANGED jobs
  /\ UNCHANGED <<order, inserting, home, handled>>

\* Mutant of Again: one attempt more.
MutantAgain(n) == n <= MaxTries

Again(n) == n < MaxTries

\* get_outbox and update_outbox in the handler: an error there ends the worker.
Recover ==
  /\ bridge.pc = "look"
  /\ \/ /\ jobs' = [ jobs EXCEPT ![bridge.event] =
                       IF Again(@.attempts) THEN [ @ EXCEPT !.status = "retry", !.due = FALSE ]
                       ELSE [ @ EXCEPT !.status = "failed" ] ]
        /\ bridge' = Worker("count", Nothing) /\ UNCHANGED limits
     \/ Raises /\ bridge' = Worker("dead", Nothing) /\ UNCHANGED jobs
  /\ UNCHANGED <<order, inserting, home, handled>>

\* finally: async_refresh_outbox_depth
Count ==
  /\ bridge.pc = "count"
  /\ \/ bridge' = Worker("idle", Nothing) /\ UNCHANGED limits
     \/ Raises /\ bridge' = Worker("dead", Nothing)
  /\ UNCHANGED <<table, inserting, home, handled>>

Due(e) ==
  /\ jobs[e].status = "retry" /\ ~jobs[e].due
  /\ jobs' = [ jobs EXCEPT ![e].due = TRUE ]
  /\ UNCHANGED <<order, inserting, bridge, limits, home, handled>>

\* The process ends; events that were not committed are lost.
Halt ==
  /\ Up /\ halts < MaxHalts /\ halts' = halts + 1
  /\ bridge' = Worker("off", Nothing) /\ inserting' = {}
  /\ jobs' = [ e \in Events |-> IF e \in inserting THEN Row("lost", 0) ELSE jobs[e] ]
  /\ UNCHANGED <<order, faults, home, handled>>

\* Mutant of Interrupted: as for an SMS, an interrupted event keeps its uncertain state.
MutantInterrupted(row) == row

Interrupted(row) == IF row.status = "sending" THEN [ row EXCEPT !.status = "accepted" ] ELSE row

\* initialize and start.
Boot ==
  /\ bridge.pc = "off" /\ bridge' = Worker("idle", Nothing)
  /\ jobs' = [ e \in Events |-> Interrupted(jobs[e]) ]
  /\ UNCHANGED <<order, inserting, limits, home, handled>>

----------------------------------------------------------------------------
(* The integration: one task per delivered event, sending under _send_lock. *)

Take(e) ==
  /\ forwards[e] > 0 /\ holder = Nothing /\ holder' = e
  /\ forwards' = [ forwards EXCEPT ![e] = @ - 1 ]
  /\ UNCHANGED <<table, inserting, bridge, limits, smsJobs, handled>>

\* async_send_sms_batch: the add-on may have enqueued the job of a call that failed
\* or timed out; either way there is no second call.
Forward ==
  /\ holder # Nothing /\ holder' = Nothing
  /\ \/ Up /\ smsJobs' = [ smsJobs EXCEPT ![holder] = @ + 1 ]
     \/ UNCHANGED smsJobs
  /\ UNCHANGED <<table, inserting, bridge, limits, forwards, handled>>

\* With nothing due the worker waits for its wake event; a dead one does so for ever.
Wait ==
  /\ bridge.pc = "dead" \/ (bridge.pc = "idle" /\ \A e \in Events : ~Ready(e))
  /\ UNCHANGED vars

Deliver == Claim \/ Fire \/ Mark \/ Recover \/ Count

Next ==
  \/ \E e \in Events : Happen(e) \/ Insert(e) \/ Due(e) \/ Take(e)
  \/ Deliver \/ Wait \/ Halt \/ Boot \/ Forward

\* The worker loops without a condition, a back-off ends, and the Supervisor restarts
\* the add-on; store and network calls come to an end (timeouts of 5 s and 10 s).
Fairness == WF_vars(Deliver) /\ WF_vars(Boot) /\ \A e \in Events : WF_vars(Due(e))

Spec == Init /\ [][Next]_vars /\ Fairness

----------------------------------------------------------------------------

TypeOK ==
  /\ \A e \in Events :
       /\ jobs[e].status \in Ended \cup {"absent", "lost", "accepted", "sending", "retry"}
       /\ jobs[e].attempts \in 0 .. (MaxTries + MaxHalts) /\ jobs[e].due \in BOOLEAN
       /\ {handled[e], forwards[e], smsJobs[e]} \subseteq Nat
  /\ order \in Seq(Events) /\ inserting \subseteq Events
  /\ bridge.pc \in {"idle", "fire", "mark", "look", "count", "dead", "off"}
  /\ bridge.event \in Events \cup {Nothing} /\ holder \in Events \cup {Nothing}
  /\ halts \in 0 .. MaxHalts /\ faults \in 0 .. MaxFaults

\* An event marked "sent" was delivered, and the retries, the restarts that put an
\* interrupted delivery back and lost answers together deliver (and forward) it at
\* most MaxTries times and once more per restart.
DeliveriesBounded ==
  \A e \in Events :
    /\ jobs[e].status = "sent" => handled[e] > 0
    /\ handled[e] <= MaxTries + halts
    /\ smsJobs[e] + forwards[e] <= handled[e]

\* Sooner or later every event that was persisted has been delivered or given up, through
\* retries, restarts and interrupted deliveries, unless a store call that raised has ended
\* the worker.
EventsEnd ==
  <>[](\A e \in Events : jobs[e].status \in Ended \cup {"absent", "lost"} \/ bridge.pc = "dead")
=============================================================================
