---------------------------- MODULE CallControl ----------------------------
(***************************************************************************)
(* Call batches and USSD requests of the add-on (gateway.py): the          *)
(* transport lock, the attempts to reach a recipient, hang-up and          *)
(* cancellation; and the voice part of the driver (sim800l.cpp) with the   *)
(* calls at the modem they are about.                                      *)
(*                                                                         *)
(* Grain: a coroutine runs from one await that suspends it to the next.    *)
(* An ESPHome action is called in the step that awaits it, and raises in   *)
(* that step without the connection.  A job at "dial" has not reached such *)
(* an await, so nothing else on the event loop runs before it dials.       *)
(*                                                                         *)
(* Abstracted: events, diagnostics, time (a ring time or a pause may end   *)
(* at any moment), and what else keeps the driver busy (Sim800l has it):   *)
(* it may come to a pending dial or hang-up at any time, or never.  SMS    *)
(* jobs take the lock as USSD jobs do.                                     *)
(***************************************************************************)
EXTENDS Integers, Sequences, FiniteSets

CONSTANTS
  Jobs,         \* the call batches and USSD requests that may be made
  Ussd,         \* those of them that are USSD requests
  IdOf,         \* batch_id or job_id; idempotency keys may collide
  Callers,      \* the calls of async_hangup and async_cancel
  Recipients,   \* number of recipients of each batch
  MaxRetries,   \* calling.max_retries
  RetryForever, \* calling.retry_forever
  StopBatch,    \* calling.failure_action = "stop_batch"
  RetryWaits,   \* calling.retry_delay_s > 0
  PauseWaits,   \* calling.delay_between_calls_s > 0
  Tracking,     \* values of has_call_state_tracking, which depends on the entities last listed
  Outages,      \* the ESPHome connection may be lost
  StoreFails,   \* SQLite calls may raise
  HangUp, All,  \* what a caller asks for, besides an id
  NoJob

Ids   == { IdOf[j] : j \in Jobs }
Calls == Jobs \ Ussd

ASSUME JobsAssumption    == Ussd \subseteq Jobs /\ NoJob \notin Jobs
ASSUME IdsAssumption     == DOMAIN IdOf = Jobs /\ HangUp \notin Ids /\ All \notin Ids /\ HangUp # All
ASSUME CountsAssumption  == Recipients \in Nat \ {0} /\ MaxRetries \in Nat
ASSUME OptionsAssumption ==
  /\ {RetryForever, StopBatch, RetryWaits, PauseWaits, Outages, StoreFails} \subseteq BOOLEAN
  /\ Tracking \subseteq BOOLEAN /\ Tracking # {}

VARIABLES
  jobs,     \* the locals of each coroutine and its cancel event
  queued,   \* _queued_cancel_events
  waiting,  \* the waiters of _send_lock
  active,   \* the holder of _send_lock: _active_job_id, _active_cancel_event
  marks,    \* _disconnect_completed_job_ids
  callers,  \* the locals of async_hangup and async_cancel
  online,   \* the ESPHome connection is up
  held,     \* dial_pending_ and dial_recipient_ of the driver: a call, or none
  sent,     \* STATE_DIAL_WAIT: the modem has the dial and has not answered it
  hanging,  \* disconnect_pending_
  line,     \* calls the modem was asked for and that have not ended
  answered, \* those the called party took
  shown,    \* the call state sensor reads "connected"
  escaped   \* history: the unsent dial the last disconnect came upon, until its call is over

lock == <<queued, waiting, active, marks>>
sim  == <<held, sent, hanging, line, answered, escaped>>
vars == <<jobs, lock, callers, online, sim, shown>>

Numbers == 1 .. Recipients

New == [ pc |-> "new", at |-> 1, tries |-> 0, canceled |-> FALSE, outcome |-> "none",
         completed |-> {}, failed |-> {}, unknown |-> {}, status |-> "in_progress" ]

NoCall == [ pc |-> "idle", target |-> NoJob, hit |-> {}, before |-> {} ]

Init ==
  /\ jobs = [ j \in Jobs |-> New ] /\ queued = [ i \in Ids |-> NoJob ] /\ waiting = <<>>
  /\ active = NoJob /\ marks = {} /\ callers = [ c \in Callers |-> NoCall ]
  /\ online = TRUE /\ shown = FALSE
  /\ held = {} /\ sent = FALSE /\ hanging = FALSE
  /\ line = {} /\ answered = {} /\ escaped = {}

----------------------------------------------------------------------------
(* The driver: dial and disconnect, called by the actions of ESPHome.      *)

\* dial: a second one is refused as "dial_busy", which the add-on does not learn.
Take(call) ==
  /\ held' = IF held = {} THEN {call} ELSE held
  /\ escaped' = IF held = {} THEN escaped \ {call} ELSE escaped
  /\ UNCHANGED <<sent, hanging, line, answered>>

\* Mutant of Disconnect: a busy driver forgets the hang-up.
MutantDisconnect ==
  /\ hanging' = (hanging \/ sent) /\ sent' = FALSE
  /\ held' = IF sent THEN {} ELSE held
  /\ escaped' = held'
  /\ UNCHANGED <<line, answered>>

\* disconnect: a dial the modem has is given up, one that waits is not.
Disconnect ==
  /\ hanging' = TRUE /\ sent' = FALSE
  /\ held' = IF sent THEN {} ELSE held
  /\ escaped' = held'
  /\ UNCHANGED <<line, answered>>

----------------------------------------------------------------------------
(* async_call_batch.  Each operator maps the locals before to those after. *)

\* The coroutine returns: of its locals the result stays.
Done(r, status) ==
  [ r EXCEPT !.pc = "done", !.status = status, !.tries = 0, !.canceled = FALSE, !.outcome = "none" ]

StatusOf(r) ==
  IF r.failed # {} THEN "failed" ELSE IF r.unknown # {} THEN "unknown" ELSE "success"

\* Mutant of Advance: the batch goes on after its last recipient.
MutantAdvance(r) ==
  IF (r.failed # {} /\ StopBatch) \/ r.at > Recipients THEN Done(r, StatusOf(r))
  ELSE IF r.canceled THEN Done(r, "canceled")
  ELSE [ r EXCEPT !.at = @ + 1, !.tries = 0, !.outcome = "none",
                  !.pc = IF PauseWaits THEN "pause" ELSE "dial" ]

\* After the verdict on a recipient: the next one, unless the batch is over.
Advance(r) ==
  IF (r.failed # {} /\ StopBatch) \/ r.at = Recipients THEN Done(r, StatusOf(r))
  ELSE IF r.canceled THEN Done(r, "canceled")
  ELSE [ r EXCEPT !.at = @ + 1, !.tries = 0, !.outcome = "none",
                  !.pc = IF PauseWaits THEN "pause" ELSE "dial" ]


MutantRetryAtOnce(r) ==
  IF RetryForever \/ r.tries <= MaxRetries
  THEN IF r.canceled THEN Done(r, "canceled") ELSE [ r EXCEPT !.pc = "dial" ]
  ELSE Advance([ r EXCEPT !.failed = @ \cup {r.at} ])

\* After a failed attempt.
Retry(r) ==
  IF RetryForever \/ r.tries <= MaxRetries
  THEN IF r.canceled THEN Done(r, "canceled")
       ELSE [ r EXCEPT !.outcome = "none", !.pc = IF RetryWaits THEN "delay" ELSE "dial" ]
  ELSE Advance([ r EXCEPT !.failed = @ \cup {r.at} ])

\* Mutant of Settled: a recipient without call tracking is forgotten.
MutantSettled(r) ==
  CASE r.outcome = "connected" -> Advance([ r EXCEPT !.completed = @ \cup {r.at} ])
    [] r.outcome = "unknown"   -> Advance(r)
    [] OTHER                   -> Retry(r)

\* After an attempt.
Settled(r) ==
  CASE r.outcome = "connected" -> Advance([ r EXCEPT !.completed = @ \cup {r.at} ])
    [] r.outcome = "unknown"   -> Advance([ r EXCEPT !.unknown = @ \cup {r.at} ])
    [] OTHER                   -> Retry(r)

\* Mutant of Woken: a job that waited does not look at its cancel event.
MutantWoken(r, pc) == [ r EXCEPT !.pc = pc ]

\* A wait ends: _raise_if_canceled.
Woken(r, pc) == IF r.canceled THEN Done(r, "canceled") ELSE [ r EXCEPT !.pc = pc ]

\* The job's step: with its end it leaves _transport_job.
Step(j, r) ==
  /\ jobs' = [ jobs EXCEPT ![j] = r ]
  /\ IF r.pc = "done" THEN active' = NoJob /\ marks' = marks \ {IdOf[j]}
                      ELSE UNCHANGED <<active, marks>>

----------------------------------------------------------------------------
(* _transport_job.                                                         *)

Request(j) ==
  /\ jobs[j].pc = "new"
  /\ jobs' = [ jobs EXCEPT ![j].pc = "queued" ]
  /\ queued' = [ queued EXCEPT ![IdOf[j]] = j ] /\ waiting' = Append(waiting, j)
  /\ UNCHANGED <<active, marks, callers, online, sim, shown>>

\* The lock goes to the first waiter, which looks at its cancel event.
Grant ==
  /\ active = NoJob /\ waiting # <<>>
  /\ LET j == Head(waiting) IN
     /\ queued' = [ queued EXCEPT ![IdOf[j]] = NoJob ] /\ waiting' = Tail(waiting)
     /\ jobs' = [ jobs EXCEPT ![j] = Woken(jobs[j], "dial") ]
     /\ IF jobs[j].canceled THEN active' = NoJob /\ marks' = marks \ {IdOf[j]}
                            ELSE active' = j /\ UNCHANGED marks
  /\ UNCHANGED <<callers, online, sim, shown>>

----------------------------------------------------------------------------
(* _perform_single_call_attempt and async_send_ussd.                       *)

\* dial_action or send_ussd_action.
Dial(j) ==
  /\ jobs[j].pc = "dial"
  /\ LET r == [ jobs[j] EXCEPT !.tries = IF @ > MaxRetries THEN @ ELSE @ + 1 ] IN
     CASE j \in Ussd /\ online  -> Step(j, [ jobs[j] EXCEPT !.pc = "requesting" ]) /\ UNCHANGED sim
       [] j \in Ussd /\ ~online -> Step(j, Done(jobs[j], "failed")) /\ UNCHANGED sim
       [] j \in Calls /\ online -> Step(j, [ r EXCEPT !.pc = "dialing" ]) /\ Take(<<j, r.at>>)
       [] OTHER -> Step(j, Settled([ r EXCEPT !.outcome = "failed" ])) /\ UNCHANGED sim
  /\ UNCHANGED <<queued, waiting, callers, online, shown>>

Requested(j) ==
  /\ jobs[j].pc = "requesting"
  /\ Step(j, Done(jobs[j], "success"))
  /\ UNCHANGED <<queued, waiting, callers, online, sim, shown>>

\* The call was asked for: wait for a connection, or blindly.
Dialed(j) ==
  /\ jobs[j].pc = "dialing"
  /\ \E tracked \in Tracking :
       Step(j, Woken(jobs[j], CASE ~tracked -> "blind"
                                [] tracked /\ shown -> "talking"
                                [] OTHER -> "ringing"))
  /\ UNCHANGED <<queued, waiting, callers, online, sim, shown>>

\* The attempt ends with the disconnect action, or with the error it raises.
HangsUp(j, outcome) ==
  IF online
  THEN /\ Step(j, [ jobs[j] EXCEPT !.pc = "clearing", !.outcome = outcome ])
       /\ Disconnect
  ELSE /\ Step(j, Settled([ jobs[j] EXCEPT !.outcome = "failed" ]))
       /\ UNCHANGED sim

\* Mutant of Missed: who does not answer counts as reached.
MutantMissed == "connected"

\* What an attempt comes to when the ring time is over.
Missed == "failed"

\* _wait_for_call_connected: a cancellation, the sensor, or the end of the ring time.
Rung(j) ==
  /\ jobs[j].pc = "ringing"
  /\ IF jobs[j].canceled \/ shown
     THEN Step(j, Woken(jobs[j], "talking")) /\ UNCHANGED sim
     ELSE HangsUp(j, Missed)
  /\ UNCHANGED <<queued, waiting, callers, online, shown>>

\* The ring time after the connection, or without call tracking, is over.
Talked(j) ==
  /\ jobs[j].pc \in {"talking", "blind"}
  /\ IF jobs[j].canceled
     THEN Step(j, Done(jobs[j], "canceled")) /\ UNCHANGED sim
     ELSE HangsUp(j, IF jobs[j].pc = "blind" THEN "unknown" ELSE "connected")
  /\ UNCHANGED <<queued, waiting, callers, online, shown>>

Cleared(j) ==
  /\ jobs[j].pc = "clearing"
  /\ Step(j, Settled(jobs[j]))
  /\ UNCHANGED <<queued, waiting, callers, online, sim, shown>>

\* retry_delay_s or delay_between_calls_s is over, or the job was cancelled.
Slept(j) ==
  /\ jobs[j].pc \in {"delay", "pause"}
  /\ Step(j, Woken(jobs[j], "dial"))
  /\ UNCHANGED <<queued, waiting, callers, online, sim, shown>>

Attempt == {"dialing", "ringing", "talking", "blind", "clearing"}

\* Mutant of Owes: the disconnect of a cancelled task is left out.
MutantOwes(j) == FALSE

\* A cancelled task has to disconnect, unless a hang-up already did it for its batch.
Owes(j) == jobs[j].pc \in Attempt /\ IdOf[j] \notin marks

\* The task is cancelled from outside: CancelledError is raised at its await.
Abort(j) ==
  /\ jobs[j].pc \in Attempt \cup {"queued", "delay", "pause", "requesting"}
  /\ IF jobs[j].pc = "queued"
     THEN /\ jobs' = [ jobs EXCEPT ![j] = Done(@, "aborted") ]
          /\ queued' = [ queued EXCEPT ![IdOf[j]] = NoJob ]
          /\ \E i \in DOMAIN waiting :
               /\ waiting[i] = j
               /\ waiting' = [ k \in 1 .. (Len(waiting) - 1) |->
                                IF k < i THEN waiting[k] ELSE waiting[k + 1] ]
          /\ marks' = marks \ {IdOf[j]}
          /\ UNCHANGED <<active, sim>>
     ELSE /\ IF Owes(j) /\ online
             THEN Step(j, [ jobs[j] EXCEPT !.pc = "cleaning" ]) /\ Disconnect
             ELSE Step(j, Done(jobs[j], "aborted")) /\ UNCHANGED sim
          /\ UNCHANGED <<queued, waiting>>
  /\ UNCHANGED <<callers, online, shown>>

Cleaned(j) ==
  /\ jobs[j].pc = "cleaning"
  /\ Step(j, Done(jobs[j], "aborted"))
  /\ UNCHANGED <<queued, waiting, callers, online, sim, shown>>

----------------------------------------------------------------------------
(* async_hangup and async_cancel.                                          *)

\* Mutant of Registered: only queued jobs are looked for.
MutantRegistered == { j \in Jobs : queued[IdOf[j]] = j }

\* The jobs whose cancel event can be found.
Registered == { j \in Jobs : queued[IdOf[j]] = j \/ active = j }

\* The jobs a caller asks about.
Meant(target) == CASE target = HangUp -> Calls
                   [] target = All    -> Jobs
                   [] OTHER           -> { j \in Jobs : IdOf[j] = target }

Ask(c, target) ==
  /\ callers[c].pc = "idle"
  /\ callers' = [ callers EXCEPT ![c].pc = "asked", ![c].target = target ]
  /\ UNCHANGED <<jobs, lock, online, sim, shown>>

\* The first step of both: set the cancel events, remember the call jobs among them.
Signal(c, pc) ==
  LET meant == Meant(callers[c].target)
      found == Registered \cap meant
  IN
  /\ jobs' = [ j \in Jobs |-> IF j \in found THEN [ jobs[j] EXCEPT !.canceled = TRUE ] ELSE jobs[j] ]
  /\ callers' = [ callers EXCEPT ![c].pc = pc,
       ![c].hit = { IdOf[j] : j \in found \cap Calls },
       ![c].before = { j \in Calls \cap meant : jobs[j].pc \notin {"new", "done"} } ]

\* async_hangup disconnects in the step that signals.
Hangup(c) ==
  /\ callers[c].pc = "asked" /\ callers[c].target = HangUp
  /\ Signal(c, IF online THEN "marking" ELSE "refused")
  /\ IF online THEN Disconnect ELSE UNCHANGED sim
  /\ UNCHANGED <<lock, online, shown>>

Cancel(c) ==
  /\ callers[c].pc = "asked" /\ callers[c].target # HangUp
  /\ Signal(c, "table")
  /\ UNCHANGED <<lock, online, sim, shown>>

Reply(c, pc) == callers' = [ callers EXCEPT ![c].pc = pc ]

\* async_cancel after its store calls; without a cancelled job it may report an error.
Tabled(c) ==
  /\ callers[c].pc = "table"
  /\ \/ StoreFails /\ Reply(c, "refused") /\ UNCHANGED sim
     \/ callers[c].hit = {} /\ Reply(c, "answered") /\ UNCHANGED sim
     \/ callers[c].hit = {} /\ Reply(c, "refused") /\ UNCHANGED sim
     \/ callers[c].hit # {} /\ online /\ Reply(c, "marking") /\ Disconnect
     \/ callers[c].hit # {} /\ ~online /\ Reply(c, "refused") /\ UNCHANGED sim
  /\ UNCHANGED <<jobs, lock, online, shown>>

\* _mark_disconnect_completed, and the answer.
Mark(c) ==
  /\ callers[c].pc = "marking"
  /\ marks' = marks \cup { i \in callers[c].hit :
                             queued[i] # NoJob \/ (active # NoJob /\ IdOf[active] = i) }
  /\ Reply(c, "answered")
  /\ UNCHANGED <<jobs, queued, waiting, active, online, sim, shown>>

----------------------------------------------------------------------------
(* The driver's own steps, and the modem.                                  *)

\* process_ready_ comes to the dial; a hang-up goes first.
SendDial ==
  /\ held # {} /\ ~sent /\ ~hanging
  /\ sent' = TRUE /\ line' = line \cup held
  /\ UNCHANGED <<jobs, lock, callers, online, held, hanging, answered, escaped, shown>>

\* The modem answers the dial, or ends it (see FarHangup).
DialAnswered ==
  /\ sent /\ sent' = FALSE /\ held' = {} /\ escaped' = escaped \cap line
  /\ UNCHANGED <<jobs, lock, callers, online, hanging, line, answered, shown>>

\* recover_ in DIAL_WAIT: the dial stays pending.
Recover ==
  /\ sent /\ sent' = FALSE
  /\ UNCHANGED <<jobs, lock, callers, online, held, hanging, line, answered, escaped, shown>>

\* The hang-up is sent and answered: no call is up.  In HANGUP_WAIT, or recovering from
\* it, the driver does with every call of it what it does with the hang-up pending.
HungUp ==
  /\ hanging /\ hanging' = FALSE
  /\ line' = {} /\ answered' = {} /\ escaped' = escaped \cap held
  /\ UNCHANGED <<jobs, lock, callers, online, held, sent, shown>>

Answer ==
  \E call \in line \ answered :
    /\ answered' = answered \cup {call}
    /\ UNCHANGED <<jobs, lock, callers, online, held, sent, hanging, line, escaped, shown>>

\* The far end hangs up, the network gives up, or the modem restarts.
FarHangup ==
  \E call \in line :
    /\ line' = line \ {call} /\ answered' = answered \ {call}
    /\ escaped' = escaped \cap (line' \cup held)
    /\ UNCHANGED <<jobs, lock, callers, online, held, sent, hanging, shown>>

\* The state of the call sensor arrives.
Publish ==
  /\ online /\ shown # (answered # {})
  /\ shown' = (answered # {})
  /\ UNCHANGED <<jobs, lock, callers, online, sim>>

Connection ==
  /\ Outages /\ online' = ~online
  /\ UNCHANGED <<jobs, lock, callers, sim, shown>>

----------------------------------------------------------------------------

\* No coroutine keeps the event loop for itself.
Yielded == \A j \in Jobs : jobs[j].pc # "dial"

JobStep(j) ==
  Requested(j) \/ Dialed(j) \/ Rung(j) \/ Talked(j) \/ Cleared(j) \/ Slept(j) \/ Cleaned(j)

CallerStep(c) == Hangup(c) \/ Cancel(c) \/ Tabled(c) \/ Mark(c)

\* With nothing left to come the add-on waits.
Idle ==
  /\ \A j \in Jobs : jobs[j].pc = "done"
  /\ UNCHANGED vars

Next ==
  \/ \E j \in Jobs : Dial(j)
  \/ /\ Yielded
     /\ \/ \E j \in Jobs : Request(j) \/ JobStep(j) \/ Abort(j)
        \/ Grant
        \/ \E c \in Callers : \E target \in Ids \cup {HangUp, All} : Ask(c, target)
        \/ \E c \in Callers : CallerStep(c)
        \/ SendDial \/ DialAnswered \/ Recover \/ HungUp
        \/ Answer \/ FarHangup \/ Publish \/ Connection \/ Idle

Spec == Init /\ [][Next]_vars

\* The event loop serves what is ready in turn and waits end; a hang-up or cancellation is
\* served also between the dials of a batch that retries for ever (hence SF).  Of the driver,
\* the modem and the sensor nothing is assumed.
Fairness ==
  /\ \A j \in Jobs : WF_vars(Dial(j)) /\ WF_vars(Yielded /\ JobStep(j))
  /\ WF_vars(Yielded /\ Grant)
  /\ \A c \in Callers : SF_vars(Yielded /\ CallerStep(c))

FairSpec == Spec /\ Fairness

----------------------------------------------------------------------------
(* Properties.                                                             *)

Pcs == Attempt \cup {"new", "queued", "dial", "delay", "pause", "requesting", "cleaning", "done"}

JobRecord ==
  [ pc : Pcs, at : Numbers, tries : 0 .. (MaxRetries + 1), canceled : BOOLEAN,
    outcome : {"none", "connected", "unknown", "failed"},
    completed : SUBSET Numbers, failed : SUBSET Numbers, unknown : SUBSET Numbers,
    status : {"in_progress", "success", "unknown", "failed", "canceled", "aborted"} ]

CallerRecord ==
  [ pc : {"idle", "asked", "table", "marking", "answered", "refused"},
    target : Ids \cup {HangUp, All, NoJob}, hit : SUBSET Ids, before : SUBSET Calls ]

\* The lock's holder is the one job inside _transport_job, and its queue holds each job
\* that waits for it once.
LockAgrees ==
  /\ \A j \in Jobs : active = j <=> jobs[j].pc \notin {"new", "queued", "done"}
  /\ \A j \in Jobs : jobs[j].pc = "queued" <=> \E i \in DOMAIN waiting : waiting[i] = j
  /\ \A i, k \in DOMAIN waiting : waiting[i] = waiting[k] => i = k

\* The shape of the state, and the agreement of the lock with the coroutines: no grant is
\* lost, doubled or given to a job that left (_transport_job and a task's cancellation).
TypeOK ==
  /\ jobs \in [ Jobs -> JobRecord ]
  /\ queued \in [ Ids -> Jobs \cup {NoJob} ] /\ waiting \in Seq(Jobs)
  /\ active \in Jobs \cup {NoJob} /\ marks \subseteq Ids
  /\ callers \in [ Callers -> CallerRecord ]
  /\ online \in BOOLEAN /\ shown \in BOOLEAN
  /\ held \subseteq Calls \X Numbers /\ sent \in BOOLEAN /\ hanging \in BOOLEAN
  /\ line \subseteq Calls \X Numbers /\ answered \subseteq line /\ escaped \subseteq line \cup held
  /\ \A call, other \in held : call = other
  /\ sent => held # {} /\ ~hanging
  /\ LockAgrees

\* Calls the driver is about to hang up.
Ending == IF hanging THEN line \ held ELSE {}

\* Calls that are up or will be dialled.  A dial the driver had not sent when the last
\* disconnect came is left to it (NoDialAfterHangup of Sim800l is violated by it).
Standing == (line \cup held) \ (Ending \cup escaped)

UpFor(j) == { call \in Standing : call[1] = j }

\* Once a hang-up or a cancellation is answered, no call is up or about to be dialled, then
\* or later, of a batch it was about and that was accepted before, except that the driver
\* may still have to hang it up or to dial what it had not sent: no retry, next
\* recipient or queued batch dials after it (async_hangup and async_cancel against the
\* loop of async_call_batch and the driver's pending commands).
SilenceAfter ==
  \A c \in Callers : callers[c].pc = "answered" => \A j \in callers[c].before : UpFor(j) = {}

\* While the connection and the store work, a call is up or pending only in the attempt that
\* asked for it, while a canceller still has to disconnect it or the driver to hang it up, or
\* as a dial the driver had not sent: whichever way an attempt ends (ring time, cancel event,
\* cancelled task, mark of a hang-up), it asks for the end of its call.
CleanedUp ==
  \A call \in Standing :
    \/ jobs[call[1]].pc \in Attempt \ {"clearing"} /\ jobs[call[1]].at = call[2]
    \/ \E c \in Callers : callers[c].pc = "table" /\ IdOf[call[1]] \in callers[c].hit

\* The result of a batch that was not cancelled names each recipient it came to once,
\* and it came to all of them unless failure_action stopped it at the first failure.
Covers ==
  \A j \in Calls : jobs[j].status \in {"success", "unknown", "failed"} =>
    LET r == jobs[j] IN
    /\ r.completed \cap (r.failed \cup r.unknown) = {} /\ r.failed \cap r.unknown = {}
    /\ r.completed \cup r.failed \cup r.unknown = 1 .. r.at
    /\ r.at # Recipients => StopBatch /\ r.failed = {r.at}
    /\ r.status = "success" => r.completed = Numbers

\* After a hang-up or a cancellation of everything, each batch accepted before comes to
\* its end, under retry_forever as well, so the lock is free again.
CanceledEnds ==
  \A c \in Callers :
    callers[c].pc = "answered" /\ callers[c].target \in {HangUp, All}
      ~> \A j \in callers[c].before : jobs[j].pc = "done"

\* A hang-up or a cancellation is answered while a batch retries for ever: it does not
\* wait for the lock, and retries leave it room on the event loop.
Responsive == \A c \in Callers : callers[c].pc = "asked" ~> callers[c].pc \in {"answered", "refused"}

\* Without retry_forever each accepted job ends, with lists that cover its recipients.
BatchesEnd == \A j \in Jobs : jobs[j].pc = "queued" ~> jobs[j].pc = "done" /\ Covers

\* async_cancel, however it ends, asks for the end of the calls of a batch it signalled.
DisconnectGuaranteed ==
  \A c \in Callers : callers[c].pc \in {"answered", "refused"} =>
    \A j \in callers[c].before : UpFor(j) = {}

=============================================================================
