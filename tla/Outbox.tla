------------------------------- MODULE Outbox -------------------------------
(***************************************************************************)
(* The persistent SMS outbox of the add-on: the SQLite table               *)
(* (app/qtronic_gateway/storage.py), the worker coroutine that claims jobs *)
(* and sends their segments (gateway.py), cancellation, and restarts of    *)
(* the add-on.                                                             *)
(*                                                                         *)
(* Grain: a coroutine runs without interruption from one await to the      *)
(* next; a store call commits in a thread, in a step of its own.  What the *)
(* ESP answers, when calls hold the transport lock, and when the add-on    *)
(* stops is the environment's choice.                                      *)
(*                                                                         *)
(* Abstracted: texts, numbers and events; time (a back-off, a delay or a   *)
(* confirmation deadline may end at any moment); the pair recipient_index, *)
(* part_index, as one position; pruning of old terminal rows.              *)
(***************************************************************************)
EXTENDS Integers, Sequences, FiniteSets

CONSTANTS
  Jobs,         \* the SMS jobs that may ever be enqueued
  Recipients,   \* number of recipients of each job
  Parts,        \* number of segments each recipient gets
  MaxAttempts,  \* sms.retries + 1
  MaxStops,     \* bound: crashes and stops of the add-on in an instance
  StoreFails,   \* SQLite calls may raise
  All,          \* async_cancel without a job id
  NoJob

ASSUME SizeAssumption     == Recipients \in Nat \ {0} /\ Parts \in Nat \ {0}
ASSUME AttemptsAssumption == MaxAttempts \in Nat \ {0}
ASSUME StopsAssumption    == MaxStops \in Nat
ASSUME FailureAssumption  == StoreFails \in BOOLEAN
ASSUME JobAssumption      == All \notin Jobs /\ NoJob \notin Jobs

VARIABLES
  rows,      \* table outbox
  created,   \* jobs in the order of created_at, rowid
  worker,    \* the locals of _outbox_worker and its transport job
  lock,      \* _send_lock: "free", or held by the "worker" or an "other" job
  marked,    \* _canceled_job_ids
  cancel,    \* the async_cancel call in progress
  available, \* the ESPHome connection is up
  stops,     \* how often the add-on stopped
  executed,  \* history: how often each segment was handed to ESPHome
  settled,   \* history: the answer to each segment, "none" while there is none
  acked,     \* history: jobs whose cancellation was confirmed to the caller
  late       \* history: segments of a job handed over after that

memory  == <<worker, lock, marked, cancel>>
history == <<executed, settled, acked, late>>
vars    == <<rows, created, memory, available, stops, history>>

Size       == Recipients * Parts
Positions  == 0 .. (Size - 1)
Terminal   == {"sent", "failed", "unknown", "canceled"}
Status     == Terminal \cup {"absent", "accepted", "sending", "retry"}
Numbers    == 0 .. (Recipients - 1)

\* payload["checkpoint"]
Checkpoint == [ next : 0 .. Size, completed : SUBSET Numbers, unknown : SUBSET Numbers ]
FirstPart  == [ next |-> 0, completed |-> {}, unknown |-> {} ]

NoRow == [ status |-> "absent", attempts |-> 0, due |-> TRUE, checkpoint |-> FirstPart ]

\* The worker between two jobs, and without the add-on.
Free(pc) == [ pc |-> pc, job |-> NoJob, checkpoint |-> FirstPart,
              canceled |-> FALSE, final |-> "none" ]

NoCancel == [ pc |-> "none", target |-> NoJob, found |-> {} ]

Init ==
  /\ rows = [ j \in Jobs |-> NoRow ] /\ created = <<>>
  /\ worker = Free("idle") /\ lock = "free" /\ marked = {} /\ cancel = NoCancel
  /\ available = FALSE /\ stops = 0
  /\ executed = [ j \in Jobs |-> [ p \in Positions |-> 0 ] ]
  /\ settled = [ j \in Jobs |-> [ p \in Positions |-> "none" ] ]
  /\ acked = {} /\ late = [ j \in Jobs |-> 0 ]

Running == worker.pc # "off"

----------------------------------------------------------------------------
(* The table.                                                              *)

\* enqueue_outbox: async_enqueue_sms_batch persists the job before it answers.
Enqueue(j) ==
  /\ Running /\ rows[j].status = "absent"
  /\ rows' = [ rows EXCEPT ![j].status = "accepted" ]
  /\ created' = Append(created, j)
  /\ UNCHANGED <<memory, available, stops, history>>

Claimable(j) == rows[j].status \in {"accepted", "retry"} /\ rows[j].due

\* claim_next_outbox: the oldest job that is due.
Claim ==
  /\ worker.pc = "idle" /\ available
  /\ \E i \in DOMAIN created :
       LET j == created[i] IN
       /\ Claimable(j) /\ \A k \in 1 .. (i - 1) : ~Claimable(created[k])
       /\ rows' = [ rows EXCEPT ![j].status = "sending", ![j].attempts = @ + 1 ]
       /\ worker' = [ Free("claimed") EXCEPT !.job = j, !.checkpoint = rows[j].checkpoint ]
  /\ UNCHANGED <<created, lock, marked, cancel, available, stops, history>>

\* Mutants of Updated: a cancelled row can be overwritten; the worker leaves the verdict
\* "canceled" to async_cancel.
MutantUpdated(row, v, due) == [ row EXCEPT !.status = v, !.due = due ]

MutantUnstored(row, v, due) ==
  IF v = "canceled" \/ row.status = "canceled" THEN row ELSE [ row EXCEPT !.status = v, !.due = due ]

\* update_outbox: a cancelled row keeps its status.
Updated(row, v, due) ==
  IF row.status = "canceled" THEN row ELSE [ row EXCEPT !.status = v, !.due = due ]

\* Mutants of Interrupted: an interrupted job is sent once more after a restart; it
\* is left alone.
MutantInterrupted(row) ==
  IF row.status = "sending" THEN [ row EXCEPT !.status = "accepted" ] ELSE row

MutantLeft(row) == row

\* initialize: a job that was being sent may or may not have reached the network.
Interrupted(row) == IF row.status = "sending" THEN [ row EXCEPT !.status = "unknown" ] ELSE row

----------------------------------------------------------------------------
(* _async_send_sms_batch_now, from one await to the next.                  *)

RecipientOf(p) == p \div Parts

\* Mutant of Advance: the last segment decides about its recipient.
MutantAdvance(c, answer) ==
  LET r == RecipientOf(c.next) IN
  [ next |-> c.next + 1,
    unknown |-> IF answer = "unknown" THEN c.unknown \cup {r} ELSE c.unknown \ {r},
    completed |-> IF (c.next + 1) % Parts = 0 /\ answer = "sent"
                  THEN c.completed \cup {r} ELSE c.completed ]

\* The progress after an answer to the segment at c.next.
Advance(c, answer) ==
  LET r == RecipientOf(c.next)
      u == IF answer = "unknown" THEN c.unknown \cup {r} ELSE c.unknown
  IN  [ next |-> c.next + 1, unknown |-> u,
        completed |-> IF (c.next + 1) % Parts = 0 /\ r \notin u
                      THEN c.completed \cup {r} ELSE c.completed ]

\* The status of a batch all of whose segments were answered.
Outcome(c) == IF c.unknown = {} THEN "sent" ELSE "unknown"

\* The transport job is over with verdict v; the lock is released.
End(v) ==
  /\ worker' = [ worker EXCEPT !.pc = "ending", !.final = v ] /\ lock' = "free"
  /\ UNCHANGED <<executed, late>>

\* With the lock held: stop if cancelled, finish if nothing is left, or hand the
\* next segment to ESPHome, which may raise.
SendNext ==
  LET c == worker.checkpoint
      j == worker.job
  IN
  \/ worker.canceled /\ End("canceled")
  \/ ~worker.canceled /\ c.next = Size /\ End(Outcome(c))
  \/ ~worker.canceled /\ c.next < Size /\ End("failed")
  \/ /\ ~worker.canceled /\ c.next < Size
     /\ worker' = [ worker EXCEPT !.pc = "waiting" ] /\ lock' = "worker"
     /\ executed' = [ executed EXCEPT ![j][c.next] = @ + 1 ]
     /\ late' = IF j \in acked THEN [ late EXCEPT ![j] = @ + 1 ] ELSE late

\* After the claim: a cancellation seen so far wins; otherwise the transport job is
\* queued, and started at once if the lock is free.
Start ==
  /\ worker.pc = "claimed"
  /\ \/ /\ worker.job \in marked
        /\ worker' = [ worker EXCEPT !.pc = "ending", !.final = "canceled" ]
        /\ UNCHANGED <<lock, executed, late>>
     \/ /\ worker.job \notin marked /\ lock = "other"
        /\ worker' = [ worker EXCEPT !.pc = "locking" ]
        /\ UNCHANGED <<lock, executed, late>>
     \/ worker.job \notin marked /\ lock = "free" /\ SendNext
  /\ UNCHANGED <<rows, created, marked, cancel, available, stops, settled, acked>>

Acquire ==
  /\ worker.pc = "locking" /\ lock = "free" /\ SendNext
  /\ UNCHANGED <<rows, created, marked, cancel, available, stops, settled, acked>>

\* _wait_for_sms_confirmation returns, by an answer or by its deadline; a deadline
\* that fires just before the cancel event is set still counts.
Confirm(answer) ==
  LET j == worker.job
      p == worker.checkpoint.next
  IN
  /\ worker.pc = "waiting" /\ (worker.canceled => answer = "unknown")
  /\ settled' = [ settled EXCEPT ![j][p] = answer ]
  /\ IF answer = "failed"
     THEN worker' = [ worker EXCEPT !.pc = "ending", !.final = "failed" ] /\ lock' = "free"
     ELSE /\ worker' = [ worker EXCEPT !.pc = "saving",
                           !.checkpoint = Advance(worker.checkpoint, answer) ]
          /\ UNCHANGED lock
  /\ UNCHANGED <<rows, created, marked, cancel, available, stops, executed, acked, late>>

\* The cancel event is set while the answer or the delay is awaited.
Interrupt ==
  /\ worker.pc \in {"waiting", "delay"} /\ worker.canceled /\ End("canceled")
  /\ UNCHANGED <<rows, created, marked, cancel, available, stops, settled, acked>>

\* Mutant of Saved: the segment after the next one is stored as the next one.
MutantSaved(row, c) ==
  [ row EXCEPT !.checkpoint = IF c.next < Size THEN [ c EXCEPT !.next = @ + 1 ] ELSE c ]

\* update_outbox_payload leaves terminal rows alone.
Saved(row, c) == IF row.status \in Terminal THEN row ELSE [ row EXCEPT !.checkpoint = c ]

\* Mutant of Aborts: the stored row is not looked at.
MutantAborts(row) == FALSE

\* A cancellation that came too late for the cancel event is found in the table.
Aborts(row) == row.status = "canceled"

\* save_checkpoint, and the delay before the next segment.
SaveCheckpoint ==
  LET j == worker.job IN
  /\ worker.pc = "saving"
  /\ \/ /\ Aborts(rows[j])
        /\ worker' = [ worker EXCEPT !.pc = "ending", !.final = "canceled" ]
        /\ lock' = "free" /\ UNCHANGED rows
     \/ /\ ~Aborts(rows[j])
        /\ rows' = [ rows EXCEPT ![j] = Saved(@, worker.checkpoint) ]
        /\ IF worker.checkpoint.next = Size
           THEN worker' = [ worker EXCEPT !.pc = "ending", !.final = Outcome(worker.checkpoint) ]
                /\ lock' = "free"
           ELSE worker' = [ worker EXCEPT !.pc = "delay" ] /\ UNCHANGED lock
     \/ /\ StoreFails
        /\ worker' = [ worker EXCEPT !.pc = "ending", !.final = "failed" ]
        /\ lock' = "free" /\ UNCHANGED rows
  /\ UNCHANGED <<created, marked, cancel, available, stops, history>>

Delay ==
  /\ worker.pc = "delay" /\ ~worker.canceled /\ SendNext
  /\ UNCHANGED <<rows, created, marked, cancel, available, stops, settled, acked>>

\* Mutant of Retried: the limit is not looked at.
MutantRetried(row) == TRUE

Retried(row) == row.attempts < MaxAttempts

\* The end of the worker's try statement: the verdict is stored, a failed attempt
\* is retried after a back-off.  If the store fails, a delivered batch takes the
\* failure path, and the failure paths themselves end the worker.
Finish ==
  LET j == worker.job
      v == worker.final
  IN
  /\ worker.pc = "ending"
  /\ \/ /\ rows' = [ rows EXCEPT ![j] =
                       IF v = "failed" /\ Retried(@) THEN Updated(@, "retry", FALSE)
                       ELSE Updated(@, v, TRUE) ]
        /\ worker' = [ worker EXCEPT !.pc = "ended" ] /\ UNCHANGED marked
     \/ /\ StoreFails /\ v \in {"sent", "unknown"}
        /\ worker' = [ worker EXCEPT !.final = "failed" ] /\ UNCHANGED <<rows, marked>>
     \/ /\ StoreFails /\ v \notin {"sent", "unknown"}
        /\ worker' = [ worker EXCEPT !.pc = "dead" ]
        /\ marked' = marked \ {j} /\ UNCHANGED rows
  /\ UNCHANGED <<created, lock, cancel, available, stops, history>>

\* finally: forget the mark and count the queue.
Cleanup ==
  /\ worker.pc = "ended"
  /\ marked' = marked \ {worker.job}
  /\ worker' = Free("idle")
  /\ UNCHANGED <<rows, created, lock, cancel, available, stops, history>>

\* A store call outside the try statement raises: the claim, or a count of the queue.
Die ==
  /\ StoreFails
  /\ \/ worker.pc = "idle" /\ available /\ UNCHANGED marked
     \/ worker.pc = "claimed" /\ UNCHANGED marked
     \/ worker.pc = "ended" /\ marked' = marked \ {worker.job}
  /\ worker' = [ worker EXCEPT !.pc = "dead" ]
  /\ UNCHANGED <<rows, created, lock, cancel, available, stops, history>>

----------------------------------------------------------------------------
(* async_cancel, one call at a time.                                       *)

Matches(j) == cancel.target \in {All, j}

\* The cancel events of queued and active transport jobs, before the first await.
CancelSignal(target) ==
  /\ Running /\ cancel.pc = "none"
  /\ cancel' = [ pc |-> "list", target |-> target, found |-> {} ]
  /\ worker' = [ worker EXCEPT !.canceled =
                   @ \/ /\ worker.pc \in {"locking", "waiting", "saving", "delay"}
                        /\ target \in {All, worker.job} ]
  /\ UNCHANGED <<rows, created, lock, marked, available, stops, history>>

\* list_outbox
CancelList ==
  /\ cancel.pc = "list"
  /\ cancel' = [ cancel EXCEPT !.pc = "mark", !.found =
                   { j \in Jobs : Matches(j) /\ rows[j].status \notin Terminal \cup {"absent"} } ]
  /\ UNCHANGED <<rows, created, worker, lock, marked, available, stops, history>>

CancelMark ==
  /\ cancel.pc = "mark"
  /\ marked' = marked \cup cancel.found
  /\ cancel' = [ cancel EXCEPT !.pc = "store", !.found = {} ]
  /\ UNCHANGED <<rows, created, worker, lock, available, stops, history>>

\* cancel_outbox
CancelStore ==
  LET hit == { j \in Jobs : Matches(j) /\ rows[j].status \notin Terminal \cup {"absent"} } IN
  /\ cancel.pc = "store"
  /\ rows' = [ j \in Jobs |-> IF j \in hit THEN [ rows[j] EXCEPT !.status = "canceled" ]
                              ELSE rows[j] ]
  /\ cancel' = [ cancel EXCEPT !.pc = "reply", !.found = hit ]
  /\ UNCHANGED <<created, worker, lock, marked, available, stops, history>>

\* The answer to the caller.
CancelReply ==
  /\ cancel.pc = "reply"
  /\ acked' = acked \cup cancel.found /\ cancel' = NoCancel
  /\ UNCHANGED <<rows, created, worker, lock, marked, available, stops, executed, settled, late>>

\* list_outbox or cancel_outbox raises: the caller gets an error.
CancelError ==
  /\ StoreFails /\ cancel.pc \in {"list", "store"} /\ cancel' = NoCancel
  /\ UNCHANGED <<rows, created, worker, lock, marked, available, stops, history>>

----------------------------------------------------------------------------
(* Environment.                                                            *)

\* Call and USSD jobs take the lock; asyncio.Lock serves waiters in order.
OtherJob ==
  /\ Running /\ worker.pc # "locking"
  /\ \/ lock = "free" /\ lock' = "other"
     \/ lock = "other" /\ lock' = "free"
  /\ UNCHANGED <<rows, created, worker, marked, cancel, available, stops, history>>

\* The call job ahead of a waiting SMS job ends.
OtherEnds ==
  /\ worker.pc = "locking" /\ lock = "other" /\ lock' = "free"
  /\ UNCHANGED <<rows, created, worker, marked, cancel, available, stops, history>>

Connection ==
  /\ Running /\ available' = ~available
  /\ UNCHANGED <<rows, created, memory, stops, history>>

\* The back-off of a retry is over.
Due(j) ==
  /\ ~rows[j].due /\ rows' = [ rows EXCEPT ![j].due = TRUE ]
  /\ UNCHANGED <<created, memory, available, stops, history>>

\* A crash, or async_stop cancelling the worker wherever it waits: what is in
\* memory is lost and the row of the current job stays as it is.
Stop ==
  /\ Running /\ stops < MaxStops
  /\ stops' = stops + 1 /\ available' = FALSE
  /\ worker' = Free("off") /\ lock' = "free" /\ marked' = {} /\ cancel' = NoCancel
  /\ UNCHANGED <<rows, created, history>>

\* async_start
Restart ==
  /\ ~Running
  /\ rows' = [ j \in Jobs |-> Interrupted(rows[j]) ]
  /\ worker' = Free("idle")
  /\ UNCHANGED <<created, lock, marked, cancel, available, stops, history>>

----------------------------------------------------------------------------

Answers == {"sent", "unknown", "failed"}

Work ==
  \/ Claim \/ Start \/ Acquire \/ (\E a \in Answers : Confirm(a)) \/ Interrupt
  \/ SaveCheckpoint \/ Delay \/ Finish \/ Cleanup \/ Die

Cancelling == CancelList \/ CancelMark \/ CancelStore \/ CancelReply \/ CancelError

Next ==
  \/ \E j \in Jobs : Enqueue(j) \/ Due(j)
  \/ \E target \in Jobs \cup {All} : CancelSignal(target)
  \/ Work \/ Cancelling \/ OtherJob \/ OtherEnds \/ Connection \/ Stop \/ Restart

Spec == Init /\ [][Next]_vars

\* The worker task is scheduled as long as the add-on runs, and a confirmation has
\* a deadline.  Assumed of the environment: the connection comes back (ReconnectLogic)
\* and lasts for a claim now and then, the supervisor restarts the add-on, and a call
\* ends, which one under calling.retry_forever does when it is answered or cancelled.
Fairness ==
  /\ WF_vars(Work) /\ SF_vars(Claim) /\ WF_vars(OtherEnds) /\ WF_vars(Restart)
  /\ \A j \in Jobs : WF_vars(Due(j))
  /\ WF_vars(~available /\ Connection)

FairSpec == Spec /\ Fairness

----------------------------------------------------------------------------
(* Correctness.                                                            *)

Rows == [ status : Status, attempts : 0 .. MaxAttempts, due : BOOLEAN,
          checkpoint : Checkpoint ]

TypeOK ==
  /\ rows \in [ Jobs -> Rows ] /\ created \in Seq(Jobs)
  /\ worker \in [ pc : {"off", "idle", "claimed", "locking", "waiting", "saving", "delay",
                        "ending", "ended", "dead"},
                  job : Jobs \cup {NoJob}, checkpoint : Checkpoint, canceled : BOOLEAN,
                  final : Terminal \cup {"none"} ]
  /\ lock \in {"free", "worker", "other"} /\ marked \subseteq Jobs
  /\ cancel \in [ pc : {"none", "list", "mark", "store", "reply"},
                  target : Jobs \cup {All, NoJob}, found : SUBSET Jobs ]
  /\ available \in BOOLEAN /\ stops \in 0 .. MaxStops
  /\ executed \in [ Jobs -> [ Positions -> Nat ] ]
  /\ settled \in [ Jobs -> [ Positions -> Answers \cup {"none"} ] ]
  /\ acked \subseteq Jobs /\ late \in [ Jobs -> Nat ]

\* A segment that was confirmed, or whose fate is unknown, is never handed to the
\* modem again, whatever fails, restarts or is cancelled in between
\* (src/qtronic_sms_gateway/CHANGELOG.md:15; gateway.py:1191-1218, 1277-1295, storage.py:102-107).
NoResend ==
  [][ \A j \in Jobs, p \in Positions :
        executed'[j][p] > executed[j][p] => settled[j][p] \in {"none", "failed"} ]_vars

\* A segment goes out only after an answer to every segment before it.
InOrder ==
  \A j \in Jobs : \A p \in Positions : executed[j][p] > 0 =>
    \A q \in 0 .. (p - 1) : settled[j][q] \in {"sent", "unknown"}

\* The stored result is what the modem said, also when it was put together by several
\* attempts: "sent" means that every segment was confirmed, a completed recipient got
\* all of its segments, and a recipient not marked unknown has no unknown segment
\* (gateway.py:1196-1205, 1214-1216, 1257-1286, 1312-1314).
HonestResult ==
  \A j \in Jobs :
    /\ rows[j].status = "sent" => \A p \in Positions : settled[j][p] = "sent"
    /\ \A r \in rows[j].checkpoint.completed : \A p \in Positions :
         RecipientOf(p) = r => settled[j][p] = "sent"
    /\ \A p \in 0 .. (rows[j].checkpoint.next - 1) :
         settled[j][p] = "unknown" => RecipientOf(p) \in rows[j].checkpoint.unknown

\* A job that reached a verdict keeps it: a worker that finishes late does not
\* overwrite a cancellation, and a cancellation does not overwrite a result
\* (src/qtronic_sms_gateway/CHANGELOG.md:16; storage.py:496-497, 623-656).
TerminalIsFinal ==
  [][ \A j \in Jobs : rows[j].status \in Terminal => rows'[j].status = rows[j].status ]_vars

\* While the add-on runs, a row is "sending" only because the worker has that job:
\* no crash or cancellation leaves a job that is neither sent nor sendable.
OneSending ==
  \A j \in Jobs : Running /\ rows[j].status = "sending" => worker.job = j

\* Once a cancellation was confirmed to the caller, at most one more segment of the
\* job goes out: the one whose transport job the cancel event missed.
LateAtMostOne == \A j \in Jobs : late[j] <= 1

\* Every accepted job gets a verdict.
JobsEnd ==
  \A j \in Jobs : rows[j].status = "accepted" ~> rows[j].status \in Terminal
=============================================================================
