---------------------------- MODULE OutboxProofs ----------------------------
(***************************************************************************)
(* Safety of the SMS outbox for every number of jobs, recipients,          *)
(* segments, attempts and stops.  The invariants are proved one upon the   *)
(* other: types, who holds which row, how far a job got, what its result   *)
(* may claim, and what a cancellation leaves possible.                     *)
(***************************************************************************)
EXTENDS Outbox, TLAPS

ConstantFacts ==
  /\ Recipients \in Nat \ {0} /\ Parts \in Nat \ {0}
  /\ MaxAttempts \in Nat \ {0} /\ MaxStops \in Nat
  /\ StoreFails \in BOOLEAN
  /\ All \notin Jobs /\ NoJob \notin Jobs

\* Where the worker stands while a job is its own.
Sending == {"claimed", "locking", "waiting", "saving", "delay"}
Busy    == Sending \cup {"ending"}

\* A job that can still be claimed has an attempt left.
AttemptLeft ==
  \A j \in Jobs : rows[j].status \in {"absent", "accepted", "retry"} =>
                    rows[j].attempts < MaxAttempts

\* The worker's position and the rows agree: its job is being sent or was cancelled
\* meanwhile, and no other row is being sent.
Holding ==
  /\ worker.pc \in Busy \cup {"ended"} => worker.job \in Jobs
  /\ worker.pc \in Busy => rows[worker.job].status \in {"sending", "canceled"}
  /\ worker.pc = "waiting" => worker.checkpoint.next < Size
  /\ worker.pc = "ending" => worker.final \in Terminal
  /\ \A j \in Jobs : Running /\ rows[j].status = "sending" =>
       worker.job = j /\ worker.pc \notin {"idle", "ended"}

Held == TypeOK /\ AttemptLeft /\ Holding

----------------------------------------------------------------------------
(* Types.                                                                  *)

Workers == [ pc : {"off", "idle", "claimed", "locking", "waiting", "saving", "delay",
                   "ending", "ended", "dead"},
             job : Jobs \cup {NoJob}, checkpoint : Checkpoint, canceled : BOOLEAN,
             final : Terminal \cup {"none"} ]

Cancels == [ pc : {"none", "list", "mark", "store", "reply"},
             target : Jobs \cup {All, NoJob}, found : SUBSET Jobs ]

LEMMA Constants == ConstantFacts
  BY SizeAssumption, AttemptsAssumption, StopsAssumption, FailureAssumption, JobAssumption
  DEF ConstantFacts

LEMMA SizeType == Size \in Nat \ {0}
  BY Constants DEF ConstantFacts, Size

\* Progress moves by one segment and stays a checkpoint.
LEMMA AdvanceType ==
  ASSUME NEW c \in Checkpoint, c.next < Size, NEW answer
  PROVE  Advance(c, answer) \in Checkpoint /\ Advance(c, answer).next = c.next + 1
  <1> DEFINE r == RecipientOf(c.next)
             u == IF answer = "unknown" THEN c.unknown \cup {r} ELSE c.unknown
  <1>1. c.next \in 0 .. (Size - 1) /\ c.next + 1 \in 0 .. Size
    BY SizeType DEF Checkpoint
  <1>2. r \in Numbers
    <2>1. c.next \in Nat /\ Parts \in Nat /\ Parts > 0 /\ Recipients \in Nat
          /\ c.next < Recipients * Parts
      BY <1>1, Constants DEF ConstantFacts, Size
    <2>2. c.next \div Parts \in 0 .. (Recipients - 1) BY <2>1
    <2> QED BY <2>2 DEF RecipientOf, Numbers
  <1>3. u \in SUBSET Numbers BY <1>2 DEF Checkpoint
  <1>4. (IF (c.next + 1) % Parts = 0 /\ r \notin u THEN c.completed \cup {r} ELSE c.completed)
          \in SUBSET Numbers
    BY <1>2 DEF Checkpoint
  <1> QED BY <1>1, <1>3, <1>4 DEF Advance, Checkpoint

----------------------------------------------------------------------------
(* Who holds which row.                                                    *)

\* The outcome of the transport job's next step, whatever it is.
LEMMA SendNextHeld ==
  ASSUME Held, SendNext, worker.pc \in Busy
  PROVE  /\ worker' \in Workers /\ worker'.job = worker.job /\ worker'.pc \in {"ending", "waiting"}
         /\ worker'.pc = "waiting" => worker'.checkpoint.next < Size
         /\ worker'.pc = "ending" => worker'.final \in Terminal
         /\ lock' \in {"free", "worker"}
         /\ executed' \in [ Jobs -> [ Positions -> Nat ] ] /\ late' \in [ Jobs -> Nat ]
  <1> DEFINE c == worker.checkpoint
             j == worker.job
  <1>t. /\ worker \in Workers /\ j \in Jobs /\ c \in Checkpoint
        /\ executed \in [ Jobs -> [ Positions -> Nat ] ] /\ late \in [ Jobs -> Nat ]
    BY DEF Held, TypeOK, Holding, Workers
  <1>1. ASSUME NEW v \in Terminal, End(v)
        PROVE  /\ worker' = [ worker EXCEPT !.pc = "ending", !.final = v ] /\ lock' = "free"
               /\ UNCHANGED <<executed, late>>
    BY <1>1 DEF End
  <1>2. ASSUME NEW v \in Terminal, End(v)
        PROVE  /\ worker' \in Workers /\ worker'.job = j /\ worker'.pc = "ending"
               /\ worker'.final \in Terminal /\ lock' = "free" /\ UNCHANGED <<executed, late>>
    <2>1. worker' = [ worker EXCEPT !.pc = "ending", !.final = v ] BY <1>1, <1>2
    <2>2. /\ worker' \in Workers /\ worker'.job = j /\ worker'.pc = "ending"
          /\ worker'.final = v
      BY <2>1, <1>t DEF Workers
    <2> QED BY <1>1, <1>2, <2>2
  <1>3. CASE /\ c.next < Size
             /\ worker' = [ worker EXCEPT !.pc = "waiting" ] /\ lock' = "worker"
             /\ executed' = [ executed EXCEPT ![j][c.next] = @ + 1 ]
             /\ late' = IF j \in acked THEN [ late EXCEPT ![j] = @ + 1 ] ELSE late
    <2>1. c.next \in Positions BY <1>3, <1>t, SizeType DEF Checkpoint, Positions
    <2>2. executed' \in [ Jobs -> [ Positions -> Nat ] ] BY <1>3, <1>t, <2>1
    <2>3. late' \in [ Jobs -> Nat ] BY <1>3, <1>t
    <2>4. /\ worker' \in Workers /\ worker'.job = worker.job /\ worker'.pc = "waiting"
          /\ worker'.checkpoint.next < Size
      BY <1>3, <1>t DEF Workers
    <2> QED BY <1>3, <2>2, <2>3, <2>4
  <1>4. Outcome(c) \in Terminal BY DEF Outcome, Terminal
  <1>5. ASSUME NEW v \in Terminal, End(v)
        PROVE  /\ worker' \in Workers /\ worker'.job = worker.job
               /\ worker'.pc \in {"ending", "waiting"}
               /\ worker'.pc = "waiting" => worker'.checkpoint.next < Size
               /\ worker'.pc = "ending" => worker'.final \in Terminal
               /\ lock' \in {"free", "worker"}
               /\ executed' \in [ Jobs -> [ Positions -> Nat ] ] /\ late' \in [ Jobs -> Nat ]
    BY <1>2, <1>5, <1>t
  <1>6. CASE \E v \in {"canceled", "failed", Outcome(c)} : End(v)
    BY <1>4, <1>5, <1>6 DEF Terminal
  <1> QED BY <1>3, <1>6 DEF SendNext

\* Of a step only these facts about the rows and the worker matter here.
LEMMA HoldingKept ==
  ASSUME Held, UNCHANGED rows,
         worker'.job = worker.job,
         worker'.pc \in Busy => worker.pc \in Busy,
         worker'.pc = "waiting" => worker'.checkpoint.next < Size,
         worker'.pc = "ending" => worker'.final \in Terminal,
         worker'.pc # "idle", worker'.pc = "ended" => worker.pc = "ended",
         worker.pc \notin {"off", "idle"}
  PROVE  Holding' /\ AttemptLeft'
  BY DEF Held, Holding, AttemptLeft, Running, Busy, Sending

LEMMA StartHeld == ASSUME Held, Start PROVE Held'
  <1>1. worker.pc = "claimed" /\ worker.job \in Jobs /\ worker \in Workers
    BY DEF Start, Held, Holding, TypeOK, Workers, Busy, Sending
  <1>2. CASE SendNext
    <2>1. TypeOK' BY <1>1, <1>2, SendNextHeld DEF Held, TypeOK, Start, Workers, Busy, Sending
    <2>2. Holding' /\ AttemptLeft'
      BY <1>1, <1>2, SendNextHeld, HoldingKept DEF Start, Busy, Sending
    <2> QED BY <2>1, <2>2 DEF Held
  <1>3. CASE /\ worker' = [ worker EXCEPT !.pc = "ending", !.final = "canceled" ]
             /\ UNCHANGED <<lock, executed, late>>
    <2>1. TypeOK' BY <1>1, <1>3 DEF Held, TypeOK, Start, Workers, Terminal
    <2>2. Holding' /\ AttemptLeft'
      BY <1>1, <1>3, HoldingKept DEF Start, Busy, Sending, Workers, Terminal
    <2> QED BY <2>1, <2>2 DEF Held
  <1>4. CASE /\ worker' = [ worker EXCEPT !.pc = "locking" ]
             /\ UNCHANGED <<lock, executed, late>>
    <2>1. TypeOK' BY <1>1, <1>4 DEF Held, TypeOK, Start, Workers
    <2>2. Holding' /\ AttemptLeft'
      BY <1>1, <1>4, HoldingKept DEF Start, Busy, Sending, Workers
    <2> QED BY <2>1, <2>2 DEF Held
  <1> QED BY <1>2, <1>3, <1>4 DEF Start

LEMMA AcquireHeld == ASSUME Held, Acquire \/ Delay PROVE Held'
  <1>1. worker.pc \in {"locking", "delay"} /\ SendNext BY DEF Acquire, Delay
  <1>2. TypeOK' BY <1>1, SendNextHeld DEF Held, TypeOK, Acquire, Delay, Workers, Busy, Sending
  <1>3. Holding' /\ AttemptLeft'
    BY <1>1, SendNextHeld, HoldingKept DEF Acquire, Delay, Busy, Sending
  <1> QED BY <1>2, <1>3 DEF Held

LEMMA ConfirmHeld == ASSUME Held, NEW a \in Answers, Confirm(a) PROVE Held'
  <1> DEFINE c == worker.checkpoint
             j == worker.job
  <1>1. /\ worker.pc = "waiting" /\ j \in Jobs /\ worker \in Workers /\ c \in Checkpoint
        /\ c.next < Size
        /\ UNCHANGED <<rows, created, marked, cancel, available, stops, executed, acked, late>>
        /\ settled' = [ settled EXCEPT ![j][c.next] = a ]
    BY DEF Confirm, Held, Holding, TypeOK, Workers, Busy, Sending
  <1>2. settled' \in [ Jobs -> [ Positions -> Answers \cup {"none"} ] ]
    BY <1>1 DEF Held, TypeOK
  <1>3. CASE a = "failed"
    <2>1. worker' = [ worker EXCEPT !.pc = "ending", !.final = "failed" ] /\ lock' = "free"
      BY <1>3 DEF Confirm
    <2>2. TypeOK' BY <1>1, <1>2, <2>1 DEF Held, TypeOK, Workers, Terminal
    <2>3. Holding' /\ AttemptLeft'
      BY <1>1, <2>1, HoldingKept DEF Busy, Sending, Workers, Terminal
    <2> QED BY <2>2, <2>3 DEF Held
  <1>4. CASE a # "failed"
    <2>1. /\ worker' = [ worker EXCEPT !.pc = "saving", !.checkpoint = Advance(c, a) ]
          /\ UNCHANGED lock
      BY <1>4 DEF Confirm
    <2>2. Advance(c, a) \in Checkpoint BY <1>1, AdvanceType
    <2>3. TypeOK' BY <1>1, <1>2, <2>1, <2>2 DEF Held, TypeOK, Workers
    <2>4. Holding' /\ AttemptLeft'
      BY <1>1, <2>1, HoldingKept DEF Busy, Sending, Workers
    <2> QED BY <2>3, <2>4 DEF Held
  <1> QED BY <1>3, <1>4

LEMMA InterruptHeld == ASSUME Held, Interrupt PROVE Held'
  <1>1. /\ worker.pc \in {"waiting", "delay"} /\ worker \in Workers /\ lock' = "free"
        /\ worker' = [ worker EXCEPT !.pc = "ending", !.final = "canceled" ]
        /\ UNCHANGED <<rows, created, marked, cancel, available, stops, settled, acked,
                       executed, late>>
    BY DEF Interrupt, End, Held, TypeOK, Workers
  <1>2. TypeOK' BY <1>1 DEF Held, TypeOK, Workers, Terminal
  <1>3. Holding' /\ AttemptLeft'
    BY <1>1, HoldingKept DEF Busy, Sending, Workers, Terminal
  <1> QED BY <1>2, <1>3 DEF Held

LEMMA SaveHeld == ASSUME Held, SaveCheckpoint PROVE Held'
  <1> DEFINE c == worker.checkpoint
             j == worker.job
  <1>1. /\ worker.pc = "saving" /\ j \in Jobs /\ worker \in Workers /\ c \in Checkpoint
        /\ rows \in [ Jobs -> Rows ] /\ rows[j] \in Rows
        /\ UNCHANGED <<created, marked, cancel, available, stops, history>>
    BY DEF SaveCheckpoint, Held, Holding, TypeOK, Workers, Busy, Sending
  <1>2. ASSUME NEW v \in Terminal, UNCHANGED rows, lock' = "free",
               worker' = [ worker EXCEPT !.pc = "ending", !.final = v ]
        PROVE  Held'
    <2>1. TypeOK' BY <1>1, <1>2 DEF Held, TypeOK, Workers, history
    <2>2. Holding' /\ AttemptLeft'
      BY <1>1, <1>2, HoldingKept DEF Busy, Sending, Workers
    <2> QED BY <2>1, <2>2 DEF Held
  <1>3. CASE rows' = [ rows EXCEPT ![j] = Saved(@, c) ]
    <2>1. /\ Saved(rows[j], c) \in Rows /\ Saved(rows[j], c).status = rows[j].status
          /\ Saved(rows[j], c).attempts = rows[j].attempts
      BY <1>1 DEF Saved, Rows
    <2>2. /\ rows' \in [ Jobs -> Rows ]
          /\ \A k \in Jobs : /\ rows'[k].status = rows[k].status
                             /\ rows'[k].attempts = rows[k].attempts
      BY <1>1, <1>3, <2>1
    <2>3. ASSUME NEW pc \in {"ending", "delay"}, NEW v \in Terminal \cup {"none"},
                 pc = "ending" => v \in Terminal, lock' \in {"free", "worker", "other"},
                 worker' = [ worker EXCEPT !.pc = pc, !.final = v ]
          PROVE  Held'
      <3>1. TypeOK' BY <1>1, <2>2, <2>3 DEF Held, TypeOK, Workers, history
      <3>2. AttemptLeft' BY <2>2 DEF Held, AttemptLeft
      <3>3. Holding' BY <1>1, <2>2, <2>3 DEF Held, Holding, Running, Busy, Sending, Workers
      <3> QED BY <3>1, <3>2, <3>3 DEF Held
    <2>4. CASE /\ worker' = [ worker EXCEPT !.pc = "ending", !.final = Outcome(c) ]
               /\ lock' = "free"
      BY <2>3, <2>4 DEF Outcome, Terminal
    <2>5. CASE worker' = [ worker EXCEPT !.pc = "delay" ] /\ UNCHANGED lock
      <3>1. worker' = [ worker EXCEPT !.pc = "delay", !.final = worker.final ]
        BY <1>1, <2>5 DEF Workers
      <3> QED BY <1>1, <2>3, <2>5, <3>1 DEF Held, TypeOK, Workers
    <2>7. CASE /\ worker' = [ worker EXCEPT !.pc = "ending", !.final = "canceled" ]
               /\ lock' = "free" /\ UNCHANGED rows
      BY <1>2, <2>7 DEF Terminal
    <2>8. CASE /\ worker' = [ worker EXCEPT !.pc = "ending", !.final = "failed" ]
               /\ lock' = "free" /\ UNCHANGED rows
      BY <1>2, <2>8 DEF Terminal
    <2> QED BY <2>4, <2>5, <2>7, <2>8 DEF SaveCheckpoint
  <1>4. CASE /\ worker' = [ worker EXCEPT !.pc = "ending", !.final = "canceled" ]
             /\ lock' = "free" /\ UNCHANGED rows
    BY <1>2, <1>4 DEF Terminal
  <1>5. CASE /\ worker' = [ worker EXCEPT !.pc = "ending", !.final = "failed" ]
             /\ lock' = "free" /\ UNCHANGED rows
    BY <1>2, <1>5 DEF Terminal
  <1> QED BY <1>3, <1>4, <1>5 DEF SaveCheckpoint

\* What the end of a job does to its row.
LEMMA UpdatedRow ==
  ASSUME NEW row \in Rows, NEW v \in Terminal \cup {"retry"}, NEW due \in BOOLEAN
  PROVE  /\ Updated(row, v, due) \in Rows
         /\ Updated(row, v, due).attempts = row.attempts
         /\ Updated(row, v, due).checkpoint = row.checkpoint
         /\ Updated(row, v, due).status =
              IF row.status = "canceled" THEN "canceled" ELSE v
  BY DEF Updated, Rows, Status

LEMMA FinishHeld == ASSUME Held, Finish PROVE Held'
  <1> DEFINE j == worker.job
             v == worker.final
  <1>1. /\ worker.pc = "ending" /\ j \in Jobs /\ worker \in Workers /\ v \in Terminal
        /\ rows \in [ Jobs -> Rows ] /\ rows[j] \in Rows
        /\ rows[j].status \in {"sending", "canceled"}
        /\ UNCHANGED <<created, lock, cancel, available, stops, history>>
    BY DEF Finish, Held, Holding, TypeOK, Workers, Busy
  <1>2. CASE /\ rows' = [ rows EXCEPT ![j] =
                            IF v = "failed" /\ Retried(@) THEN Updated(@, "retry", FALSE)
                            ELSE Updated(@, v, TRUE) ]
             /\ worker' = [ worker EXCEPT !.pc = "ended" ] /\ UNCHANGED marked
    <2>1. /\ rows' \in [ Jobs -> Rows ]
          /\ rows'[j].status \in Terminal \cup {"retry"}
          /\ rows'[j].status = "retry" => rows'[j].attempts < MaxAttempts
          /\ \A k \in Jobs \ {j} : rows'[k] = rows[k]
      <3> DEFINE row == IF v = "failed" /\ Retried(rows[j]) THEN Updated(rows[j], "retry", FALSE)
                        ELSE Updated(rows[j], v, TRUE)
      <3>1. rows' = [ rows EXCEPT ![j] = row ] BY <1>2
      <3>2. /\ row \in Rows /\ row.status \in Terminal \cup {"retry"}
            /\ row.status = "retry" => row.attempts < MaxAttempts
        <4>1. CASE v = "failed" /\ Retried(rows[j])
          <5>1. row = Updated(rows[j], "retry", FALSE) BY <4>1
          <5>2. rows[j].attempts < MaxAttempts BY <4>1 DEF Retried
          <5> HIDE DEF row
          <5> QED BY <1>1, <5>1, <5>2, UpdatedRow DEF Terminal
        <4>2. CASE ~(v = "failed" /\ Retried(rows[j]))
          <5>1. row = Updated(rows[j], v, TRUE) BY <4>2
          <5>2. v \in Terminal \cup {"retry"} /\ rows[j] \in Rows BY <1>1
          <5> HIDE DEF row, v
          <5>3. row \in Rows /\ row.status = IF rows[j].status = "canceled" THEN "canceled" ELSE v
            BY <5>1, <5>2, UpdatedRow
          <5> QED BY <1>1, <5>3 DEF Terminal, v
        <4> QED BY <4>1, <4>2
      <3> HIDE DEF row
      <3> QED BY <1>1, <3>1, <3>2
    <2>2. TypeOK' BY <1>1, <1>2, <2>1 DEF Held, TypeOK, Workers, history
    <2>3. AttemptLeft' BY <1>1, <2>1 DEF Held, AttemptLeft, Terminal
    <2>4. Holding' BY <1>1, <1>2, <2>1 DEF Held, Holding, Running, Busy, Sending, Workers, Terminal
    <2> QED BY <2>2, <2>3, <2>4 DEF Held
  <1>3. CASE worker' = [ worker EXCEPT !.final = "failed" ] /\ UNCHANGED <<rows, marked>>
    <2>1. TypeOK' BY <1>1, <1>3 DEF Held, TypeOK, Workers, Terminal, history
    <2>2. Holding' /\ AttemptLeft'
      BY <1>1, <1>3, HoldingKept DEF Busy, Sending, Workers, Terminal
    <2> QED BY <2>1, <2>2 DEF Held
  <1>4. CASE worker' = [ worker EXCEPT !.pc = "dead" ] /\ marked' = marked \ {j} /\ UNCHANGED rows
    <2>1. TypeOK' BY <1>1, <1>4 DEF Held, TypeOK, Workers, history
    <2>2. Holding' /\ AttemptLeft'
      BY <1>1, <1>4, HoldingKept DEF Busy, Sending, Workers
    <2> QED BY <2>1, <2>2 DEF Held
  <1> QED BY <1>2, <1>3, <1>4 DEF Finish

LEMMA ClaimHeld == ASSUME Held, Claim PROVE Held'
  <1>1. PICK i \in DOMAIN created :
          LET j == created[i] IN
          /\ Claimable(j)
          /\ rows' = [ rows EXCEPT ![j].status = "sending", ![j].attempts = @ + 1 ]
          /\ worker' = [ Free("claimed") EXCEPT !.job = j, !.checkpoint = rows[j].checkpoint ]
    BY DEF Claim
  <1> DEFINE j == created[i]
  <1>2. /\ j \in Jobs /\ rows \in [ Jobs -> Rows ] /\ worker \in Workers /\ worker.pc = "idle"
        /\ UNCHANGED <<created, lock, marked, cancel, available, stops, history>>
    BY DEF Claim, Held, TypeOK, Workers
  <1>3. rows[j].status \in {"accepted", "retry"} /\ rows[j].attempts < MaxAttempts
    BY <1>1, <1>2 DEF Claimable, Held, AttemptLeft
  <1>4. /\ rows' = [ rows EXCEPT ![j] = [ rows[j] EXCEPT !.status = "sending",
                                                     !.attempts = rows[j].attempts + 1 ] ]
        /\ worker' = [ Free("claimed") EXCEPT !.job = j, !.checkpoint = rows[j].checkpoint ]
    BY <1>1, <1>2 DEF Rows
  <1>5. rows' \in [ Jobs -> Rows ]
    <2>1. rows[j] \in Rows /\ rows[j].attempts \in 0 .. MaxAttempts BY <1>2 DEF Rows
    <2>2. rows[j].attempts + 1 \in 0 .. MaxAttempts
      BY <2>1, <1>3, Constants DEF ConstantFacts
    <2>3. [ rows[j] EXCEPT !.status = "sending", !.attempts = rows[j].attempts + 1 ] \in Rows
      BY <2>1, <2>2 DEF Rows, Status
    <2> QED BY <1>2, <1>4, <2>3
  <1>6. worker' \in Workers /\ worker'.pc = "claimed" /\ worker'.job = j
    BY <1>2, <1>4 DEF Workers, Free, Rows, Terminal
  <1>7. TypeOK' BY <1>2, <1>5, <1>6 DEF Held, TypeOK, Workers, history
  <1>8. AttemptLeft' BY <1>2, <1>4, <1>5 DEF Held, AttemptLeft, Rows
  <1>9. Holding' BY <1>2, <1>4, <1>6 DEF Held, Holding, Running, Busy, Sending, Rows
  <1> QED BY <1>7, <1>8, <1>9 DEF Held

\* A step of the table that neither touches the worker nor makes a row "sending".
LEMMA TableHeld ==
  ASSUME Held, rows' \in [ Jobs -> Rows ], worker' = worker,
         \A k \in Jobs : \/ rows'[k] = rows[k]
                         \/ rows'[k].status = rows[k].status
                              /\ rows'[k].attempts = rows[k].attempts
                         \/ rows'[k].status = "canceled"
                         \/ rows[k].status = "absent" /\ rows'[k].status = "accepted"
                              /\ rows'[k].attempts = rows[k].attempts
  PROVE  Holding' /\ AttemptLeft'
  <1>1. AttemptLeft' BY DEF Held, AttemptLeft
  <1>2. \A k \in Jobs : rows'[k].status = "sending" => rows[k].status = "sending"
    OBVIOUS
  <1>3. Holding' BY <1>2 DEF Held, Holding, Running, Busy, Sending, TypeOK
  <1> QED BY <1>1, <1>3

LEMMA TablesHeld ==
  ASSUME Held, \/ \E j \in Jobs : Enqueue(j) \/ Due(j)
               \/ CancelStore
  PROVE  Held'
  <1>t. rows \in [ Jobs -> Rows ] /\ created \in Seq(Jobs) BY DEF Held, TypeOK
  <1>1. ASSUME NEW j \in Jobs, Enqueue(j) PROVE Held'
    <2>1. /\ rows' = [ rows EXCEPT ![j] = [ rows[j] EXCEPT !.status = "accepted" ] ]
          /\ created' = Append(created, j) /\ worker' = worker
          /\ rows[j].status = "absent"
          /\ UNCHANGED <<memory, available, stops, history>>
      BY <1>1, <1>t DEF Enqueue, memory, Rows
    <2>2. rows' \in [ Jobs -> Rows ] /\ created' \in Seq(Jobs)
      <3>1. [ rows[j] EXCEPT !.status = "accepted" ] \in Rows BY <1>t DEF Rows, Status
      <3>2. rows' \in [ Jobs -> Rows ] BY <1>t, <2>1, <3>1
      <3>3. created' \in Seq(Jobs) BY <1>t, <2>1
      <3> QED BY <3>2, <3>3
    <2>3. TypeOK' BY <2>1, <2>2 DEF Held, TypeOK, memory, history
    <2>4. Holding' /\ AttemptLeft' BY <1>t, <2>1, <2>2, TableHeld DEF Rows
    <2> QED BY <2>3, <2>4 DEF Held
  <1>2. ASSUME NEW j \in Jobs, Due(j) PROVE Held'
    <2>1. /\ rows' = [ rows EXCEPT ![j] = [ rows[j] EXCEPT !.due = TRUE ] ]
          /\ UNCHANGED <<created, memory, available, stops, history>> /\ worker' = worker
      BY <1>2, <1>t DEF Due, memory, Rows
    <2>2. rows' \in [ Jobs -> Rows ] BY <1>t, <2>1 DEF Rows
    <2>3. TypeOK' BY <2>1, <2>2 DEF Held, TypeOK, memory, history
    <2>4. Holding' /\ AttemptLeft' BY <1>t, <2>1, <2>2, TableHeld DEF Rows
    <2> QED BY <2>3, <2>4 DEF Held
  <1>3. CASE CancelStore
    <2> DEFINE hit == { j \in Jobs : Matches(j) /\ rows[j].status \notin Terminal \cup {"absent"} }
    <2>1. /\ rows' = [ j \in Jobs |-> IF j \in hit THEN [ rows[j] EXCEPT !.status = "canceled" ]
                                      ELSE rows[j] ]
          /\ cancel' = [ cancel EXCEPT !.pc = "reply", !.found = hit ]
          /\ UNCHANGED <<created, worker, lock, marked, available, stops, history>>
      BY <1>3 DEF CancelStore
    <2>2. rows' \in [ Jobs -> Rows ] BY <1>t, <2>1 DEF Rows, Status, Terminal
    <2>3. cancel' \in Cancels BY <2>1 DEF Held, TypeOK, Cancels
    <2>4. TypeOK' BY <2>1, <2>2, <2>3 DEF Held, TypeOK, Cancels, history
    <2>5. Holding' /\ AttemptLeft' BY <1>t, <2>1, <2>2, TableHeld DEF Rows
    <2> QED BY <2>4, <2>5 DEF Held
  <1> QED BY <1>1, <1>2, <1>3

LEMMA StopHeld == ASSUME Held, Stop \/ Restart \/ Cleanup \/ Die PROVE Held'
  <1>t. worker \in Workers /\ rows \in [ Jobs -> Rows ] BY DEF Held, TypeOK, Workers
  <1>f. \A pc \in {"off", "idle"} : Free(pc) \in Workers /\ Free(pc).pc = pc
    BY SizeType DEF Free, Workers, Checkpoint, FirstPart, Terminal
  <1>1. CASE Stop
    <2>1. /\ worker' = Free("off") /\ lock' = "free" /\ marked' = {} /\ cancel' = NoCancel
          /\ stops' = stops + 1 /\ stops < MaxStops /\ available' = FALSE
          /\ UNCHANGED <<rows, created, history>>
      BY <1>1 DEF Stop
    <2>2. TypeOK'
      <3>1. NoCancel \in Cancels BY DEF NoCancel, Cancels
      <3>2. stops' \in 0 .. MaxStops /\ available' \in BOOLEAN
        <4>1. stops \in 0 .. MaxStops /\ MaxStops \in Nat
          BY Constants DEF Held, TypeOK, ConstantFacts
        <4>2. stops' \in 0 .. MaxStops BY <4>1, <2>1
        <4>3. available' \in BOOLEAN BY <2>1
        <4> QED BY <4>2, <4>3
      <3>3. worker' \in Workers BY <2>1, <1>f
      <3> QED BY <2>1, <3>1, <3>2, <3>3 DEF Held, TypeOK, Workers, Cancels, history
    <2>3. Holding' /\ AttemptLeft'
      BY <2>1, <1>f DEF Held, Holding, AttemptLeft, Running, Busy, Sending
    <2> QED BY <2>2, <2>3 DEF Held
  <1>2. CASE Restart
    <2>1. /\ worker' = Free("idle") /\ worker.pc = "off"
          /\ rows' = [ j \in Jobs |-> Interrupted(rows[j]) ]
          /\ UNCHANGED <<created, lock, marked, cancel, available, stops, history>>
      BY <1>2 DEF Restart, Running
    <2>2. \A j \in Jobs :
            /\ Interrupted(rows[j]) \in Rows /\ Interrupted(rows[j]).status # "sending"
            /\ Interrupted(rows[j]).status \in {"absent", "accepted", "retry"} =>
                 Interrupted(rows[j]) = rows[j]
      BY <1>t DEF Interrupted, Rows, Status, Terminal
    <2>3. TypeOK' BY <2>1, <2>2, <1>f DEF Held, TypeOK, Workers, history
    <2>4. Holding' /\ AttemptLeft'
      BY <2>1, <2>2, <1>f DEF Held, Holding, AttemptLeft, Running, Busy, Sending
    <2> QED BY <2>3, <2>4 DEF Held
  <1>3. CASE Cleanup
    <2>1. /\ worker' = Free("idle") /\ worker.pc = "ended" /\ marked' = marked \ {worker.job}
          /\ UNCHANGED <<rows, created, lock, cancel, available, stops, history>>
      BY <1>3 DEF Cleanup
    <2>2. TypeOK' BY <2>1, <1>f DEF Held, TypeOK, Workers, history
    <2>3. Holding' /\ AttemptLeft'
      BY <2>1, <1>f DEF Held, Holding, AttemptLeft, Running, Busy, Sending
    <2> QED BY <2>2, <2>3 DEF Held
  <1>4. CASE Die
    <2>1. /\ worker' = [ worker EXCEPT !.pc = "dead" ] /\ worker.pc \in {"idle", "claimed", "ended"}
          /\ marked' \subseteq marked
          /\ UNCHANGED <<rows, created, lock, cancel, available, stops, history>>
      BY <1>4 DEF Die
    <2>2. TypeOK' BY <2>1, <1>t DEF Held, TypeOK, Workers, history
    <2>3. Holding' /\ AttemptLeft'
      BY <2>1, <1>t DEF Held, Holding, AttemptLeft, Running, Busy, Sending, Workers
    <2> QED BY <2>2, <2>3 DEF Held
  <1> QED BY <1>1, <1>2, <1>3, <1>4

LEMMA SignalHeld == ASSUME Held, NEW target \in Jobs \cup {All}, CancelSignal(target) PROVE Held'
  <1>1. PICK b \in BOOLEAN : worker' = [ worker EXCEPT !.canceled = b ]
    <2> DEFINE b == worker.canceled \/ /\ worker.pc \in {"locking", "waiting", "saving", "delay"}
                                       /\ target \in {All, worker.job}
    <2>1. worker' = [ worker EXCEPT !.canceled = b ] /\ b \in BOOLEAN BY Zenon DEF CancelSignal
    <2> QED BY <2>1
  <1>2. /\ cancel' = [ pc |-> "list", target |-> target, found |-> {} ] /\ worker \in Workers
        /\ UNCHANGED <<rows, created, lock, marked, available, stops, history>>
    BY DEF CancelSignal, Held, TypeOK, Workers
  <1>3. /\ worker' \in Workers /\ worker'.pc = worker.pc /\ worker'.job = worker.job
        /\ worker'.final = worker.final /\ worker'.checkpoint = worker.checkpoint
    BY <1>1, <1>2 DEF Workers
  <1>4. TypeOK' BY <1>2, <1>3 DEF Held, TypeOK, Workers, Cancels, history
  <1>5. Holding' /\ AttemptLeft' BY <1>2, <1>3 DEF Held, Holding, AttemptLeft, Running
  <1> QED BY <1>4, <1>5 DEF Held

LEMMA OthersHeld ==
  ASSUME Held, \/ CancelList \/ CancelMark \/ CancelReply \/ CancelError
               \/ OtherJob \/ OtherEnds \/ Connection
  PROVE  Held'
  <1>1. UNCHANGED <<rows, worker>>
    BY DEF CancelList, CancelMark, CancelReply, CancelError, OtherJob, OtherEnds, Connection, memory
  <1>2. Holding' /\ AttemptLeft' BY <1>1 DEF Held, Holding, AttemptLeft, Running
  <1>3. TypeOK'
    <2>t. cancel \in Cancels /\ marked \subseteq Jobs BY DEF Held, TypeOK, Cancels
    <2>1. CASE CancelList
      <3>1. cancel' \in Cancels BY <2>1, <2>t DEF CancelList, Cancels
      <3> QED BY <3>1, <2>1 DEF CancelList, Held, TypeOK, Cancels, history
    <2>2. CASE CancelMark
      <3>1. cancel' \in Cancels /\ marked' \subseteq Jobs BY <2>2, <2>t DEF CancelMark, Cancels
      <3> QED BY <3>1, <2>2 DEF CancelMark, Held, TypeOK, Cancels, history
    <2>3. CASE CancelReply
      <3>1. cancel' \in Cancels /\ acked' \subseteq Jobs
        BY <2>3, <2>t DEF CancelReply, NoCancel, Cancels, Held, TypeOK
      <3> QED BY <3>1, <2>3 DEF CancelReply, Held, TypeOK, Cancels
    <2>4. CASE CancelError
      <3>1. cancel' \in Cancels BY <2>4, <2>t DEF CancelError, NoCancel, Cancels
      <3> QED BY <3>1, <2>4 DEF CancelError, Held, TypeOK, Cancels, history
    <2>5. CASE OtherJob \/ OtherEnds
      BY <2>5 DEF OtherJob, OtherEnds, Held, TypeOK, history
    <2>6. CASE Connection
      BY <2>6, <1>1 DEF Connection, Held, TypeOK, memory, history
    <2> QED BY <2>1, <2>2, <2>3, <2>4, <2>5, <2>6
  <1> QED BY <1>2, <1>3 DEF Held

LEMMA HeldInit == Init => Held
  <1> SUFFICES ASSUME Init PROVE Held OBVIOUS
  <1>1. /\ FirstPart \in Checkpoint /\ NoRow \in Rows
        /\ NoRow.status = "absent" /\ NoRow.attempts = 0
    BY SizeType, Constants DEF FirstPart, Checkpoint, NoRow, Rows, Status, Terminal, ConstantFacts
  <1>2. Free("idle") \in Workers /\ Free("idle").pc = "idle"
    BY <1>1 DEF Free, Workers
  <1>3. TypeOK
    <2>1. NoCancel \in Cancels BY DEF NoCancel, Cancels
    <2>2. rows \in [ Jobs -> Rows ] /\ created \in Seq(Jobs) BY <1>1 DEF Init
    <2>3. /\ executed \in [ Jobs -> [ Positions -> Nat ] ] /\ late \in [ Jobs -> Nat ]
          /\ settled \in [ Jobs -> [ Positions -> Answers \cup {"none"} ] ]
      BY DEF Init
    <2>4. stops \in 0 .. MaxStops BY Constants DEF Init, ConstantFacts
    <2> QED BY <1>2, <2>1, <2>2, <2>3, <2>4 DEF Init, TypeOK, Workers, Cancels
  <1>4. AttemptLeft BY <1>1, Constants DEF Init, AttemptLeft, ConstantFacts
  <1>5. Holding BY <1>1, <1>2 DEF Init, Holding, Running, Busy, Sending
  <1> QED BY <1>3, <1>4, <1>5 DEF Held

LEMMA HeldStep == Held /\ [Next]_vars => Held'
  <1> SUFFICES ASSUME Held, [Next]_vars PROVE Held' OBVIOUS
  <1>1. CASE Next
    <2>1. CASE Work
      BY <2>1, ClaimHeld, StartHeld, AcquireHeld, ConfirmHeld, InterruptHeld, SaveHeld,
         FinishHeld, StopHeld DEF Work
    <2> QED BY <1>1, <2>1, TablesHeld, SignalHeld, OthersHeld, StopHeld DEF Next, Cancelling
  <1>2. CASE UNCHANGED vars
    BY <1>2 DEF vars, memory, history, Held, TypeOK, AttemptLeft, Holding, Running
  <1> QED BY <1>1, <1>2

\* Every variable keeps its type; in particular a job never uses more attempts than
\* it has (gateway.py:1074-1077).
THEOREM TypeCorrect == Spec => []TypeOK
  <1>1. Held => TypeOK BY DEF Held
  <1> QED BY <1>1, HeldInit, HeldStep, PTL DEF Spec

\* Who holds which row, for every number of jobs: the strengthening behind OneSending.
THEOREM RowsHeld == Spec => []Held
  BY HeldInit, HeldStep, PTL DEF Spec

\* No crash or cancellation leaves a row "sending" without a worker that has it.
THEOREM SendingIsHeld == Spec => []OneSending
  <1>1. Held => OneSending BY DEF Held, Holding, OneSending
  <1> QED BY <1>1, RowsHeld, PTL

----------------------------------------------------------------------------
(* What a step can change.                                                 *)

\* A job that can still be claimed; the worker's copy of the checkpoint is the stored one.
Open  == {"absent", "accepted", "retry"}
Fetch == {"claimed", "locking", "delay"}
Ahead == Fetch \cup {"waiting"}

Verdict(j, v) == worker.pc = "ending" /\ worker.job = j /\ worker.final = v
Delivered(c)  == c.next = Size /\ c.unknown = {}

\* The next segment is handed to ESPHome.
Handed ==
  LET j == worker.job IN
  /\ worker.pc \in Fetch /\ worker.checkpoint.next < Size
  /\ worker' = [ worker EXCEPT !.pc = "waiting" ]
  /\ executed' = [ executed EXCEPT ![j][worker.checkpoint.next] = @ + 1 ]
  /\ late' = IF j \in acked THEN [ late EXCEPT ![j] = @ + 1 ] ELSE late
  /\ UNCHANGED <<rows, cancel, settled, acked>>

\* The progress is stored.
Stored ==
  LET j == worker.job IN
  /\ worker.pc = "saving" /\ rows[j].status = "sending"
  /\ rows' = [ rows EXCEPT ![j] = [ rows[j] EXCEPT !.checkpoint = worker.checkpoint ] ]
  /\ worker'.job = j
  /\ \/ worker'.pc = "delay" /\ worker'.checkpoint = worker.checkpoint
     \/ /\ worker'.pc = "ending" /\ worker'.final = Outcome(worker.checkpoint)
        /\ worker.checkpoint.next = Size
  /\ UNCHANGED <<cancel, history>>

\* Any other step moves no checkpoint, gives no answer and hands nothing over.
QuietRows ==
  \A j \in Jobs :
    /\ rows'[j].checkpoint = rows[j].checkpoint
    /\ rows[j].status \in Terminal => rows'[j].status = rows[j].status
    /\ rows'[j].status = "sent" => rows[j].status = "sent" \/ Verdict(j, "sent")
    /\ rows'[j].status \in Open => rows[j].status \in Open \/ Verdict(j, "failed")

QuietWorker ==
  /\ worker'.pc \in Ahead =>
       \/ /\ (worker'.pc = worker.pc \/ (worker.pc = "claimed" /\ worker'.pc = "locking"))
          /\ worker'.job = worker.job /\ worker'.checkpoint = worker.checkpoint
       \/ /\ worker'.pc = "claimed" /\ rows[worker'.job].status \in {"accepted", "retry"}
          /\ worker'.checkpoint = rows[worker'.job].checkpoint
  /\ worker'.pc = "saving" =>
       worker.pc = "saving" /\ worker'.job = worker.job /\ worker'.checkpoint = worker.checkpoint
  /\ worker'.pc = "ending" =>
       /\ worker'.job = worker.job
       /\ worker'.final = "sent" =>
            \/ worker.pc = "ending" /\ worker.final = "sent"
            \/ worker.pc \in Ahead /\ Delivered(worker.checkpoint)
       /\ worker'.final = "failed" =>
            \/ worker.pc = "ending" /\ worker.final = "failed"
            \/ worker.pc \in Ahead \/ StoreFails

QuietCancel ==
  /\ \/ UNCHANGED acked
     \/ cancel.pc = "reply" /\ acked' = acked \cup cancel.found /\ UNCHANGED rows
  /\ cancel'.pc = "reply" =>
       \/ UNCHANGED cancel
       \/ \A j \in cancel'.found : j \in Jobs /\ rows'[j].status = "canceled"

Quiet == UNCHANGED <<executed, settled, late>> /\ QuietRows /\ QuietWorker /\ QuietCancel

\* A step of the worker alone.
LEMMA WorkerAlone ==
  ASSUME QuietWorker, UNCHANGED <<rows, cancel, history>>
  PROVE  Quiet
  BY DEF Quiet, QuietRows, QuietCancel, history

LEMMA EndsQuietly ==
  ASSUME worker'.pc \in {"off", "idle", "ended", "dead"}
  PROVE  QuietWorker
  BY DEF QuietWorker, Ahead, Fetch

\* The transport job goes on, or it ends.
LEMMA SendNextKind ==
  ASSUME Held, SendNext, worker.pc \in Fetch, UNCHANGED <<rows, cancel, settled, acked>>
  PROVE  Handed \/ Quiet
  <1> DEFINE c == worker.checkpoint
  <1>t. worker \in Workers BY DEF Held, TypeOK, Workers
  <1>1. ASSUME NEW v \in Terminal, End(v), v = "sent" => Delivered(c) PROVE Quiet
    <2>1. /\ worker'.pc = "ending" /\ worker'.job = worker.job /\ worker'.final = v
          /\ UNCHANGED <<executed, late>>
      BY <1>1, <1>t DEF End, Workers
    <2>2. QuietWorker BY <1>1, <2>1 DEF QuietWorker, Ahead, Fetch
    <2> QED BY <2>1, <2>2, WorkerAlone DEF history
  <1>2. CASE worker.canceled /\ End("canceled") BY <1>1, <1>2 DEF Terminal
  <1>3. CASE c.next = Size /\ End(Outcome(c))
    <2>1. Outcome(c) \in Terminal /\ (Outcome(c) = "sent" => Delivered(c))
      BY <1>3 DEF Outcome, Delivered, Terminal
    <2> QED BY <1>1, <1>3, <2>1
  <1>4. CASE End("failed") BY <1>1, <1>4 DEF Terminal
  <1>5. CASE /\ c.next < Size
             /\ worker' = [ worker EXCEPT !.pc = "waiting" ] /\ lock' = "worker"
             /\ executed' = [ executed EXCEPT ![worker.job][c.next] = @ + 1 ]
             /\ late' = IF worker.job \in acked THEN [ late EXCEPT ![worker.job] = @ + 1 ] ELSE late
    BY <1>5 DEF Handed
  <1> QED BY <1>2, <1>3, <1>4, <1>5 DEF SendNext

LEMMA SegmentKind ==
  ASSUME Held, Start \/ Acquire \/ Delay \/ Interrupt
  PROVE  Handed \/ Quiet
  <1>t. worker \in Workers BY DEF Held, TypeOK, Workers
  <1>1. CASE SendNext /\ (Start \/ Acquire \/ Delay)
    BY <1>1, SendNextKind DEF Start, Acquire, Delay, Fetch
  <1>2. CASE Start /\ ~SendNext
    <2>1. /\ UNCHANGED <<rows, cancel, history>> /\ worker.pc = "claimed"
          /\ \/ worker' = [ worker EXCEPT !.pc = "ending", !.final = "canceled" ]
             \/ worker' = [ worker EXCEPT !.pc = "locking" ]
      BY <1>2 DEF Start, history
    <2>2. QuietWorker BY <2>1, <1>t DEF QuietWorker, Workers, Ahead, Fetch
    <2> QED BY <2>1, <2>2, WorkerAlone
  <1>3. CASE Interrupt
    <2>1. /\ UNCHANGED <<rows, cancel, history>>
          /\ worker' = [ worker EXCEPT !.pc = "ending", !.final = "canceled" ]
      BY <1>3 DEF Interrupt, End, history
    <2>2. QuietWorker BY <2>1, <1>t DEF QuietWorker, Workers, Ahead, Fetch
    <2> QED BY <2>1, <2>2, WorkerAlone
  <1> QED BY <1>1, <1>2, <1>3 DEF Acquire, Delay

LEMMA SaveKind == ASSUME Held, SaveCheckpoint PROVE Stored \/ Quiet
  <1> DEFINE c == worker.checkpoint
             j == worker.job
  <1>t. /\ worker \in Workers /\ j \in Jobs /\ rows \in [ Jobs -> Rows ] /\ worker.pc = "saving"
        /\ rows[j].status \in {"sending", "canceled"} /\ UNCHANGED <<cancel, history>>
    BY DEF Held, Holding, TypeOK, Workers, SaveCheckpoint, Busy, Sending
  <1>1. CASE UNCHANGED rows /\ worker' = [ worker EXCEPT !.pc = "ending", !.final = "canceled" ]
    <2>1. QuietWorker BY <1>1, <1>t DEF QuietWorker, Workers, Ahead, Fetch
    <2> QED BY <1>1, <1>t, <2>1, WorkerAlone
  <1>2. CASE StoreFails /\ UNCHANGED rows
             /\ worker' = [ worker EXCEPT !.pc = "ending", !.final = "failed" ]
    <2>1. QuietWorker BY <1>2, <1>t DEF QuietWorker, Workers, Ahead, Fetch
    <2> QED BY <1>2, <1>t, <2>1, WorkerAlone
  <1>3. CASE /\ ~Aborts(rows[j]) /\ rows' = [ rows EXCEPT ![j] = Saved(@, c) ]
             /\ IF c.next = Size
                THEN worker' = [ worker EXCEPT !.pc = "ending", !.final = Outcome(c) ]
                ELSE worker' = [ worker EXCEPT !.pc = "delay" ]
    <2>1. rows[j].status = "sending" BY <1>3, <1>t DEF Aborts
    <2>2. Saved(rows[j], c) = [ rows[j] EXCEPT !.checkpoint = c ] BY <2>1 DEF Saved, Terminal
    <2>3. rows' = [ rows EXCEPT ![j] = [ rows[j] EXCEPT !.checkpoint = c ] ]
      BY <1>3, <1>t, <2>2
    <2>4. /\ worker'.job = j
          /\ \/ worker'.pc = "delay" /\ worker'.checkpoint = c
             \/ worker'.pc = "ending" /\ worker'.final = Outcome(c) /\ c.next = Size
      BY <1>3, <1>t DEF Workers
    <2> QED BY <1>t, <2>1, <2>3, <2>4 DEF Stored
  <1> QED BY <1>1, <1>2, <1>3 DEF SaveCheckpoint

LEMMA FinishKind == ASSUME Held, Finish PROVE Quiet
  <1> DEFINE j == worker.job
             v == worker.final
  <1>t. /\ worker \in Workers /\ j \in Jobs /\ rows \in [ Jobs -> Rows ] /\ worker.pc = "ending"
        /\ rows[j].status \in {"sending", "canceled"} /\ v \in Terminal
        /\ UNCHANGED <<cancel, history>>
    BY DEF Held, Holding, TypeOK, Workers, Finish, Busy, Sending
  <1>1. CASE /\ rows' = [ rows EXCEPT ![j] =
                            IF v = "failed" /\ Retried(@) THEN Updated(@, "retry", FALSE)
                            ELSE Updated(@, v, TRUE) ]
             /\ worker' = [ worker EXCEPT !.pc = "ended" ]
    <2>1. /\ rows'[j].checkpoint = rows[j].checkpoint
          /\ rows[j].status = "canceled" => rows'[j].status = "canceled"
          /\ rows'[j].status \in {"canceled", v} \/ (v = "failed" /\ rows'[j].status = "retry")
          /\ \A k \in Jobs \ {j} : rows'[k] = rows[k]
      <3> DEFINE row == IF v = "failed" /\ Retried(rows[j]) THEN Updated(rows[j], "retry", FALSE)
                        ELSE Updated(rows[j], v, TRUE)
      <3>1. rows' = [ rows EXCEPT ![j] = row ] BY <1>1
      <3>2. rows'[j] = row /\ \A k \in Jobs \ {j} : rows'[k] = rows[k]
        BY <1>t, <3>1
      <3>3. /\ row.checkpoint = rows[j].checkpoint
            /\ rows[j].status = "canceled" => row.status = "canceled"
            /\ row.status \in {"canceled", v} \/ (v = "failed" /\ row.status = "retry")
        <4>1. rows[j] \in Rows BY <1>t
        <4>2. CASE v = "failed" /\ Retried(rows[j])
          <5>1. row = Updated(rows[j], "retry", FALSE) BY <4>2
          <5> HIDE DEF row
          <5> QED BY <4>1, <4>2, <5>1, UpdatedRow
        <4>3. CASE ~(v = "failed" /\ Retried(rows[j]))
          <5>1. row = Updated(rows[j], v, TRUE) BY <4>3
          <5> HIDE DEF row
          <5> QED BY <1>t, <4>1, <5>1, UpdatedRow
        <4> QED BY <4>2, <4>3
      <3> QED BY <3>2, <3>3
    <2>2. QuietRows BY <2>1, <1>t DEF QuietRows, Verdict, Terminal, Open
    <2>3. QuietWorker BY <1>1, <1>t, EndsQuietly DEF Workers
    <2> QED BY <1>t, <2>2, <2>3 DEF Quiet, QuietCancel, history
  <1>2. CASE worker' = [ worker EXCEPT !.final = "failed" ] /\ UNCHANGED rows /\ StoreFails
    <2>1. QuietWorker BY <1>2, <1>t DEF QuietWorker, Workers, Ahead, Fetch
    <2> QED BY <1>2, <1>t, <2>1, WorkerAlone
  <1>3. CASE worker' = [ worker EXCEPT !.pc = "dead" ] /\ UNCHANGED rows
    <2>1. QuietWorker BY <1>3, <1>t, EndsQuietly DEF Workers
    <2> QED BY <1>3, <1>t, <2>1, WorkerAlone
  <1> QED BY <1>1, <1>2, <1>3 DEF Finish

LEMMA ClaimKind == ASSUME Held, Claim PROVE Quiet
  <1>1. PICK i \in DOMAIN created :
          LET j == created[i] IN
          /\ Claimable(j)
          /\ rows' = [ rows EXCEPT ![j].status = "sending", ![j].attempts = @ + 1 ]
          /\ worker' = [ Free("claimed") EXCEPT !.job = j, !.checkpoint = rows[j].checkpoint ]
    BY DEF Claim
  <1> DEFINE j == created[i]
  <1>2. /\ j \in Jobs /\ rows \in [ Jobs -> Rows ] /\ UNCHANGED <<cancel, history>>
        /\ rows[j].status \in {"accepted", "retry"}
    BY <1>1 DEF Claim, Held, TypeOK, Workers, Claimable
  <1>3. /\ rows'[j].checkpoint = rows[j].checkpoint /\ rows'[j].status = "sending"
        /\ \A k \in Jobs \ {j} : rows'[k] = rows[k]
    BY <1>1, <1>2 DEF Rows
  <1>4. QuietRows BY <1>2, <1>3 DEF QuietRows, Terminal, Open
  <1>5. worker'.pc = "claimed" /\ worker'.job = j /\ worker'.checkpoint = rows[j].checkpoint
    BY <1>1 DEF Free
  <1>6. QuietWorker BY <1>2, <1>5 DEF QuietWorker
  <1> QED BY <1>2, <1>4, <1>6 DEF Quiet, QuietCancel, history

LEMMA WorkerKept == ASSUME UNCHANGED worker PROVE QuietWorker
  BY DEF QuietWorker

LEMMA TablesKind ==
  ASSUME Held, \/ \E j \in Jobs : Enqueue(j) \/ Due(j)
               \/ CancelStore
  PROVE  Quiet
  <1>t. rows \in [ Jobs -> Rows ] BY DEF Held, TypeOK
  <1>1. ASSUME NEW j \in Jobs, Enqueue(j) \/ Due(j) PROVE Quiet
    <2>1. /\ \A k \in Jobs : rows'[k].checkpoint = rows[k].checkpoint
          /\ \A k \in Jobs : \/ rows'[k].status = rows[k].status
                             \/ rows[k].status = "absent" /\ rows'[k].status = "accepted"
      <3>1. CASE Enqueue(j)
        <4>1. /\ rows' = [ rows EXCEPT ![j].status = "accepted" ] /\ rows[j].status = "absent"
              /\ rows[j] \in Rows
          BY <3>1, <1>t DEF Enqueue
        <4> QED BY <4>1, <1>t DEF Rows
      <3>2. CASE Due(j)
        <4>1. rows' = [ rows EXCEPT ![j].due = TRUE ] /\ rows[j] \in Rows
          BY <3>2, <1>t DEF Due
        <4> QED BY <4>1, <1>t DEF Rows
      <3> QED BY <1>1, <3>1, <3>2
    <2>2. QuietRows BY <2>1 DEF QuietRows, Terminal, Open
    <2>3. UNCHANGED worker /\ UNCHANGED <<cancel, history>>
      BY <1>1 DEF Enqueue, Due, memory
    <2> QED BY <2>2, <2>3, WorkerKept DEF Quiet, QuietCancel, history
  <1>2. CASE CancelStore
    <2> DEFINE hit == { j \in Jobs : Matches(j) /\ rows[j].status \notin Terminal \cup {"absent"} }
    <2>1. /\ rows' = [ j \in Jobs |-> IF j \in hit THEN [ rows[j] EXCEPT !.status = "canceled" ]
                                      ELSE rows[j] ]
          /\ cancel' = [ cancel EXCEPT !.pc = "reply", !.found = hit ]
          /\ UNCHANGED <<worker, history>>
      BY <1>2 DEF CancelStore
    <2>2. /\ \A k \in Jobs : rows'[k].checkpoint = rows[k].checkpoint
          /\ \A k \in Jobs \ hit : rows'[k].status = rows[k].status
          /\ \A k \in hit : k \in Jobs /\ rows'[k].status = "canceled" /\ rows[k].status \notin Terminal
      BY <2>1, <1>t DEF Rows
    <2>3. QuietRows BY <2>2 DEF QuietRows, Terminal, Open
    <2>4. cancel'.found = hit BY <2>1 DEF Held, TypeOK
    <2> QED BY <2>1, <2>2, <2>3, <2>4, WorkerKept DEF Quiet, QuietCancel, history
  <1> QED BY <1>1, <1>2

LEMMA StopKind == ASSUME Held, Stop \/ Restart \/ Cleanup \/ Die PROVE Quiet
  <1>t. worker \in Workers /\ rows \in [ Jobs -> Rows ] BY DEF Held, TypeOK, Workers
  <1>1. worker'.pc \in {"off", "idle", "dead"} /\ UNCHANGED history
    BY <1>t DEF Stop, Restart, Cleanup, Die, Free, Workers
  <1>2. cancel'.pc = "reply" => UNCHANGED cancel
    BY DEF Stop, Restart, Cleanup, Die, NoCancel
  <1>3. QuietRows
    <2>1. CASE UNCHANGED rows BY <2>1 DEF QuietRows
    <2>2. CASE Restart
      BY <2>2, <1>t DEF Restart, Interrupted, QuietRows, Rows, Terminal, Open
    <2> QED BY <2>1, <2>2 DEF Stop, Cleanup, Die
  <1> QED BY <1>1, <1>2, <1>3, EndsQuietly DEF Quiet, QuietCancel, history

LEMMA OthersKind ==
  ASSUME Held, \/ \E target \in Jobs \cup {All} : CancelSignal(target)
               \/ CancelList \/ CancelMark \/ CancelReply \/ CancelError
               \/ OtherJob \/ OtherEnds \/ Connection
  PROVE  Quiet
  <1>t. worker \in Workers /\ cancel \in Cancels BY DEF Held, TypeOK, Workers, Cancels
  <1>1. UNCHANGED <<rows, executed, settled, late>>
    BY DEF CancelSignal, CancelList, CancelMark, CancelReply, CancelError, OtherJob, OtherEnds,
           Connection, history
  <1>2. worker'.pc = worker.pc /\ worker'.job = worker.job /\ worker'.checkpoint = worker.checkpoint
        /\ worker'.final = worker.final
    BY <1>t DEF CancelSignal, CancelList, CancelMark, CancelReply, CancelError, OtherJob,
           OtherEnds, Connection, memory, Workers
  <1>3. QuietWorker BY <1>2 DEF QuietWorker
  <1>4. QuietRows BY <1>1 DEF QuietRows
  <1>5. QuietCancel
    <2>1. CASE CancelReply BY <2>1 DEF CancelReply, NoCancel, QuietCancel
    <2>2. CASE ~CancelReply
      <3>1. UNCHANGED acked
        BY <2>2 DEF CancelSignal, CancelList, CancelMark, CancelError, OtherJob, OtherEnds,
               Connection, history
      <3>2. cancel'.pc = "reply" => UNCHANGED cancel
        <4>1. ASSUME NEW target, CancelSignal(target) PROVE cancel'.pc = "list"
          BY <4>1 DEF CancelSignal
        <4>2. CASE CancelList BY <4>2, <1>t DEF CancelList, Cancels
        <4>3. CASE CancelMark BY <4>3, <1>t DEF CancelMark, Cancels
        <4>4. CASE CancelError BY <4>4 DEF CancelError, NoCancel
        <4>5. CASE OtherJob \/ OtherEnds \/ Connection
          BY <4>5 DEF OtherJob, OtherEnds, Connection, memory
        <4> QED BY <2>2, <4>1, <4>2, <4>3, <4>4, <4>5
      <3> QED BY <3>1, <3>2 DEF QuietCancel
    <2> QED BY <2>1, <2>2
  <1> QED BY <1>1, <1>3, <1>4, <1>5 DEF Quiet

\* Every step hands a segment over, settles one, stores the progress, or does none of these.
LEMMA Kinds ==
  ASSUME Held, [Next]_vars
  PROVE  Handed \/ (\E a \in Answers : Confirm(a)) \/ Stored \/ Quiet
  <1>1. CASE Next
    <2>1. CASE Work
      BY <2>1, ClaimKind, SegmentKind, SaveKind, FinishKind, StopKind DEF Work
    <2> QED BY <1>1, <2>1, TablesKind, OthersKind, StopKind DEF Next, Cancelling
  <1>2. CASE UNCHANGED vars
    BY <1>2, WorkerKept, WorkerAlone DEF vars, memory
  <1> QED BY <1>1, <1>2

LEMMA VerdictsKept ==
  ASSUME Held, [Next]_vars
  PROVE  \A j \in Jobs : rows[j].status \in Terminal => rows'[j].status = rows[j].status
  <1>1. CASE Quiet BY <1>1 DEF Quiet, QuietRows
  <1>2. CASE Handed \/ \E a \in Answers : Confirm(a) BY <1>2 DEF Handed, Confirm
  <1>3. CASE Stored
    <2>1. rows \in [ Jobs -> Rows ] BY DEF Held, TypeOK
    <2>2. \A j \in Jobs : rows'[j].status = rows[j].status BY <1>3, <2>1 DEF Stored, Rows
    <2> QED BY <2>2
  <1> QED BY <1>1, <1>2, <1>3, Kinds

\* A verdict is final: a late worker overwrites no cancellation, a cancellation no result
\* (storage.py:496-497, 623-656).
THEOREM VerdictsAreFinal == Spec => TerminalIsFinal
  <1>1. Held /\ [Next]_vars =>
          \A j \in Jobs : rows[j].status \in Terminal => rows'[j].status = rows[j].status
    BY VerdictsKept
  <1>2. Held /\ [Next]_vars =>
          [ \A j \in Jobs : rows[j].status \in Terminal => rows'[j].status = rows[j].status ]_vars
    BY <1>1
  <1> QED BY <1>2, RowsHeld, PTL DEF Spec, TerminalIsFinal

----------------------------------------------------------------------------
(* How far a job got.                                                      *)

\* The segments before the stored position are settled, those after it untouched, and
\* the worker is at the stored position or one segment ahead of it.
SoFar ==
  /\ \A j \in Jobs : \A p \in Positions :
       /\ p < rows[j].checkpoint.next => settled[j][p] \in {"sent", "unknown"}
       /\ p > rows[j].checkpoint.next => executed[j][p] = 0 /\ settled[j][p] = "none"
  /\ worker.pc \in Ahead => worker.checkpoint = rows[worker.job].checkpoint
  /\ worker.pc = "saving" =>
       \E a \in {"sent", "unknown"} :
         /\ rows[worker.job].checkpoint.next < Size
         /\ settled[worker.job][rows[worker.job].checkpoint.next] = a
         /\ worker.checkpoint = Advance(rows[worker.job].checkpoint, a)

LEMMA HeldFacts ==
  ASSUME Held
  PROVE  /\ worker \in Workers /\ rows \in [ Jobs -> Rows ]
         /\ \A j \in Jobs : rows[j].checkpoint \in Checkpoint /\ rows[j].checkpoint.next \in 0 .. Size
         /\ executed \in [ Jobs -> [ Positions -> Nat ] ]
         /\ settled \in [ Jobs -> [ Positions -> Answers \cup {"none"} ] ]
         /\ worker.pc \in Ahead \cup {"saving", "ending"} => worker.job \in Jobs
  BY DEF Held, TypeOK, Workers, Holding, Rows, Checkpoint, Ahead, Fetch, Busy, Sending

LEMMA SoFarQuiet == ASSUME Held, Held', SoFar, Quiet PROVE SoFar'
  <1>1. /\ \A j \in Jobs : rows'[j].checkpoint = rows[j].checkpoint
        /\ UNCHANGED <<executed, settled>>
    BY DEF Quiet, QuietRows
  <1>2. ASSUME worker'.pc \in Ahead PROVE worker'.checkpoint = rows'[worker'.job].checkpoint
    <2>1. worker'.job \in Jobs BY <1>2, HeldFacts DEF Held, Holding, Ahead, Fetch, Busy, Sending
    <2> QED BY <1>1, <1>2, <2>1 DEF Quiet, QuietWorker, SoFar, Ahead, Fetch
  <1>3. ASSUME worker'.pc = "saving"
        PROVE  \E a \in {"sent", "unknown"} :
                 /\ rows'[worker'.job].checkpoint.next < Size
                 /\ settled'[worker'.job][rows'[worker'.job].checkpoint.next] = a
                 /\ worker'.checkpoint = Advance(rows'[worker'.job].checkpoint, a)
    <2>1. worker.pc = "saving" /\ worker'.job = worker.job /\ worker'.checkpoint = worker.checkpoint
      BY <1>3 DEF Quiet, QuietWorker
    <2>2. worker.job \in Jobs BY <2>1, HeldFacts
    <2> QED BY <1>1, <2>1, <2>2 DEF SoFar
  <1> QED BY <1>1, <1>2, <1>3 DEF SoFar

LEMMA SoFarHanded == ASSUME Held, SoFar, Handed PROVE SoFar'
  <1> DEFINE j == worker.job
             n == worker.checkpoint.next
  <1>1. /\ worker.pc \in Fetch /\ j \in Jobs /\ n = rows[j].checkpoint.next
        /\ worker.checkpoint = rows[j].checkpoint
    BY HeldFacts DEF Handed, SoFar, Ahead
  <1>2. worker'.pc = "waiting" /\ worker'.job = j /\ worker'.checkpoint = worker.checkpoint
    BY HeldFacts DEF Handed, Workers
  <1>3. \A k \in Jobs : \A p \in Positions :
          p > rows[k].checkpoint.next => executed'[k][p] = executed[k][p]
    <2>1. executed' = [ executed EXCEPT ![j][n] = @ + 1 ] BY DEF Handed
    <2>2. ASSUME NEW k \in Jobs, NEW p \in Positions, p > rows[k].checkpoint.next
          PROVE  executed'[k][p] = executed[k][p]
      <3>1. CASE k # j BY <2>1, <3>1, HeldFacts
      <3>2. CASE k = j
        <4>1. p # n BY <1>1, <2>2, <3>2, HeldFacts, SizeType DEF Positions
        <4> QED BY <2>1, <2>2, <4>1, HeldFacts
      <3> QED BY <3>1, <3>2
    <2> QED BY <2>2
  <1> QED BY <1>1, <1>2, <1>3 DEF SoFar, Handed

LEMMA SoFarConfirm == ASSUME Held, SoFar, NEW a \in Answers, Confirm(a) PROVE SoFar'
  <1> DEFINE j == worker.job
             n == worker.checkpoint.next
  <1>1. /\ worker.pc = "waiting" /\ j \in Jobs /\ worker.checkpoint = rows[j].checkpoint
        /\ n \in Positions /\ UNCHANGED <<rows, executed>>
        /\ settled' = [ settled EXCEPT ![j][n] = a ]
    <2>1. worker.pc = "waiting" /\ n < Size BY DEF Confirm, Held, Holding
    <2>2. j \in Jobs /\ worker.checkpoint = rows[j].checkpoint
      BY <2>1, HeldFacts DEF SoFar, Ahead
    <2>3. n \in Positions BY <2>1, <2>2, HeldFacts, SizeType DEF Positions
    <2> QED BY <2>1, <2>2, <2>3 DEF Confirm
  <1>2. \A k \in Jobs : \A p \in Positions :
          p # rows[k].checkpoint.next => settled'[k][p] = settled[k][p]
    BY <1>1, HeldFacts
  <1>3. settled'[j][n] = a BY <1>1, HeldFacts
  <1>4. \A k \in Jobs : \A p \in Positions :
          /\ p < rows[k].checkpoint.next => settled'[k][p] \in {"sent", "unknown"}
          /\ p > rows[k].checkpoint.next => executed'[k][p] = 0 /\ settled'[k][p] = "none"
    <2> SUFFICES ASSUME NEW k \in Jobs, NEW p \in Positions
                 PROVE  /\ p < rows[k].checkpoint.next => settled'[k][p] \in {"sent", "unknown"}
                        /\ p > rows[k].checkpoint.next =>
                             executed'[k][p] = 0 /\ settled'[k][p] = "none"
      OBVIOUS
    <2>1. p \in Int /\ rows[k].checkpoint.next \in Int BY HeldFacts, SizeType DEF Positions
    <2> QED BY <1>1, <1>2, <2>1 DEF SoFar
  <1>5. CASE a = "failed"
    <2>1. worker'.pc = "ending" BY <1>5, HeldFacts DEF Confirm, Workers
    <2> QED BY <1>1, <1>4, <2>1 DEF SoFar, Ahead, Fetch
  <1>6. CASE a # "failed"
    <2>1. worker'.pc = "saving" /\ worker'.job = j
          /\ worker'.checkpoint = Advance(worker.checkpoint, a)
      BY <1>6, HeldFacts DEF Confirm, Workers
    <2>2. a \in {"sent", "unknown"} /\ n < Size
      BY <1>1, <1>6, SizeType DEF Answers, Positions
    <2> QED BY <1>1, <1>3, <1>4, <2>1, <2>2 DEF SoFar, Ahead, Fetch
  <1> QED BY <1>5, <1>6

LEMMA SoFarStored == ASSUME Held, SoFar, Stored PROVE SoFar'
  <1> DEFINE j == worker.job
             c == rows[j].checkpoint
  <1>1. PICK a \in {"sent", "unknown"} :
          /\ c.next < Size /\ settled[j][c.next] = a /\ worker.checkpoint = Advance(c, a)
    BY DEF Stored, SoFar
  <1>2. /\ j \in Jobs /\ c \in Checkpoint /\ c.next \in 0 .. Size
        /\ UNCHANGED <<executed, settled>>
    BY HeldFacts DEF Stored, history
  <1>3. worker.checkpoint.next = c.next + 1 BY <1>1, <1>2, AdvanceType
  <1>4. /\ rows'[j].checkpoint = worker.checkpoint
        /\ \A k \in Jobs \ {j} : rows'[k] = rows[k]
    BY <1>2, HeldFacts DEF Stored, Rows
  <1>5. \A k \in Jobs : \A p \in Positions :
          /\ p < rows'[k].checkpoint.next => settled[k][p] \in {"sent", "unknown"}
          /\ p > rows'[k].checkpoint.next => executed[k][p] = 0 /\ settled[k][p] = "none"
    <2> SUFFICES ASSUME NEW k \in Jobs, NEW p \in Positions
                 PROVE  /\ p < rows'[k].checkpoint.next => settled[k][p] \in {"sent", "unknown"}
                        /\ p > rows'[k].checkpoint.next =>
                             executed[k][p] = 0 /\ settled[k][p] = "none"
      OBVIOUS
    <2>1. CASE k # j BY <1>4, <2>1 DEF SoFar
    <2>2. CASE k = j
      <3>1. p \in Int /\ c.next \in Int BY <1>2, SizeType DEF Positions
      <3>2. rows'[k].checkpoint.next = c.next + 1 BY <1>3, <1>4, <2>2
      <3>3. p < c.next + 1 => p < c.next \/ p = c.next BY <3>1
      <3>4. p > c.next + 1 => p > c.next BY <3>1
      <3> QED BY <1>1, <2>2, <3>2, <3>3, <3>4 DEF SoFar
    <2> QED BY <2>1, <2>2
  <1>6. worker'.job = j /\ worker'.pc \in {"delay", "ending"}
        /\ (worker'.pc = "delay" => worker'.checkpoint = worker.checkpoint)
    BY DEF Stored
  <1> QED BY <1>2, <1>4, <1>5, <1>6 DEF SoFar, Ahead, Fetch

LEMMA SoFarInit == Init => SoFar
  <1> SUFFICES ASSUME Init PROVE SoFar OBVIOUS
  <1>1. \A j \in Jobs : rows[j].checkpoint.next = 0
    BY DEF Init, NoRow, FirstPart
  <1>2. \A j \in Jobs : \A p \in Positions : executed[j][p] = 0 /\ settled[j][p] = "none" /\ ~(p < 0)
    BY SizeType DEF Init, Positions
  <1>3. worker.pc = "idle" BY DEF Init, Free
  <1> QED BY <1>1, <1>2, <1>3 DEF SoFar, Ahead, Fetch

LEMMA SoFarStep == Held /\ SoFar /\ [Next]_vars => (Held /\ SoFar)'
  BY HeldStep, Kinds, SoFarQuiet, SoFarHanded, SoFarConfirm, SoFarStored

LEMMA Progress == Spec => [](Held /\ SoFar)
  BY HeldInit, SoFarInit, SoFarStep, PTL DEF Spec

\* Segments go out in order: none before an answer to all the ones before it
\* (gateway.py:1183-1218).
THEOREM SegmentsInOrder == Spec => []InOrder
  <1>1. Held /\ SoFar => InOrder
    <2> SUFFICES ASSUME Held, SoFar, NEW j \in Jobs, NEW p \in Positions, executed[j][p] > 0,
                        NEW q \in 0 .. (p - 1)
                 PROVE  settled[j][q] \in {"sent", "unknown"}
      BY DEF InOrder
    <2>1. p \in Int /\ q \in Positions /\ q < p /\ rows[j].checkpoint.next \in Int
      BY HeldFacts, SizeType DEF Positions
    <2>2. ~(p > rows[j].checkpoint.next) BY DEF SoFar
    <2>3. q < rows[j].checkpoint.next BY <2>1, <2>2
    <2> QED BY <2>1, <2>3 DEF SoFar
  <1> QED BY <1>1, Progress, PTL

----------------------------------------------------------------------------
(* Cancellation.                                                           *)

\* A confirmed cancellation is in the table, and once a segment slipped through after
\* it the worker is past the point where it could hand over another.
Slipped ==
  /\ \A j \in acked : rows[j].status = "canceled"
  /\ cancel.pc = "reply" => \A j \in cancel.found : j \in Jobs /\ rows[j].status = "canceled"
  /\ \A j \in Jobs :
       /\ late[j] # 0 => j \in acked /\ late[j] = 1
       /\ late[j] # 0 /\ worker.job = j => worker.pc \notin Fetch

LEMMA SlippedStep == ASSUME Held, SoFar, Slipped, [Next]_vars PROVE Slipped'
  <1>t. acked \subseteq Jobs /\ late \in [ Jobs -> Nat ] /\ Held'
    BY HeldStep DEF Held, TypeOK
  <1>1. CASE Quiet
    <2>1. \A j \in Jobs : rows[j].status = "canceled" => rows'[j].status = "canceled"
      BY <1>1 DEF Quiet, QuietRows, Terminal
    <2>2. \A j \in acked' : rows'[j].status = "canceled"
      BY <1>1, <1>t, <2>1 DEF Quiet, QuietCancel, Slipped
    <2>3. cancel'.pc = "reply" => \A j \in cancel'.found : j \in Jobs /\ rows'[j].status = "canceled"
      BY <1>1, <2>1 DEF Quiet, QuietCancel, Slipped
    <2>4. ASSUME NEW j \in Jobs, late'[j] # 0
          PROVE  /\ j \in acked' /\ late'[j] = 1
                 /\ worker'.job = j => worker'.pc \notin Fetch
      <3>1. late[j] # 0 /\ late[j] = 1 /\ j \in acked /\ rows[j].status = "canceled"
        BY <1>1, <2>4 DEF Quiet, Slipped
      <3>2. acked \subseteq acked' BY <1>1 DEF Quiet, QuietCancel
      <3>3. ASSUME worker'.job = j, worker'.pc \in Fetch PROVE FALSE
        <4>1. CASE /\ (worker'.pc = worker.pc \/ (worker.pc = "claimed" /\ worker'.pc = "locking"))
                   /\ worker'.job = worker.job
          BY <3>1, <3>3, <4>1 DEF Slipped, Fetch
        <4>2. CASE rows[worker'.job].status \in {"accepted", "retry"} BY <3>1, <3>3, <4>2
        <4> QED BY <1>1, <3>3, <4>1, <4>2 DEF Quiet, QuietWorker, Ahead
      <3> QED BY <1>1, <3>1, <3>2, <3>3 DEF Quiet
    <2> QED BY <2>2, <2>3, <2>4 DEF Slipped
  <1>2. CASE Handed
    <2> DEFINE j == worker.job
    <2>1. j \in Jobs /\ worker'.pc = "waiting" BY <1>2, HeldFacts DEF Handed, Workers, Ahead
    <2>2. late[j] = 0 BY <1>2, <2>1 DEF Slipped, Handed
    <2>3. \A k \in Jobs : late'[k] # 0 => k \in acked /\ late'[k] = 1
      BY <1>2, <1>t, <2>1, <2>2 DEF Handed, Slipped
    <2> QED BY <1>2, <2>1, <2>3 DEF Handed, Slipped, Fetch
  <1>3. ASSUME NEW a \in Answers, Confirm(a) PROVE Slipped'
    <2>1. worker \in Workers BY HeldFacts
    <2>2. worker'.pc \in {"ending", "saving"} BY <1>3, <2>1 DEF Confirm, Workers
    <2>3. UNCHANGED <<rows, cancel, acked, late>> BY <1>3 DEF Confirm
    <2> QED BY <2>2, <2>3 DEF Slipped, Fetch
  <1>4. CASE Stored
    <2>1. \A k \in Jobs : rows'[k].status = rows[k].status
      BY <1>4, HeldFacts DEF Stored, Rows
    <2>2. worker.job \notin acked BY <1>4 DEF Stored, Slipped
    <2>3. UNCHANGED <<cancel, acked, late>> /\ worker'.job = worker.job BY <1>4 DEF Stored, history
    <2> QED BY <1>t, <2>1, <2>2, <2>3 DEF Slipped
  <1> QED BY <1>1, <1>2, <1>3, <1>4, Kinds

\* After a confirmed cancellation at most one more segment of the job goes out
\* (gateway.py:1556-1579).
THEOREM CancellationHolds == Spec => []LateAtMostOne
  <1>1. Init => Slipped
    BY DEF Init, Slipped, NoCancel
  <1>2. Held /\ SoFar /\ Slipped /\ [Next]_vars => Slipped' BY SlippedStep
  <1>3. Slipped => LateAtMostOne
    <2> SUFFICES ASSUME Slipped, NEW j \in Jobs PROVE late[j] <= 1 BY DEF LateAtMostOne
    <2>1. late[j] = 0 \/ late[j] = 1 BY DEF Slipped
    <2> QED BY <2>1
  <1> QED BY <1>1, <1>2, <1>3, Progress, PTL DEF Spec

----------------------------------------------------------------------------
(* Nothing is sent twice.                                                  *)

\* While a job can still be sent, the segment it is sent from has no answer that
\* forbids to send it: the stored position is never behind what was settled.
CanSend(j) ==
  \/ rows[j].status \in Open
  \/ worker.job = j /\ worker.pc \in Ahead
  \/ Verdict(j, "failed")

Fresh ==
  \A j \in Jobs : CanSend(j) =>
    \A p \in Positions : p = rows[j].checkpoint.next => settled[j][p] \in {"none", "failed"}

LEMMA FreshStep ==
  ASSUME StoreFails = FALSE, Held, SoFar, Fresh, [Next]_vars
  PROVE  Fresh'
  <1> SUFFICES ASSUME NEW j \in Jobs, CanSend(j)', NEW p \in Positions,
                      p = rows'[j].checkpoint.next
               PROVE  settled'[j][p] \in {"none", "failed"}
    BY DEF Fresh
  <1>1. CASE Quiet
    <2>1. rows'[j].checkpoint = rows[j].checkpoint /\ UNCHANGED settled
      BY <1>1 DEF Quiet, QuietRows
    <2>2. ASSUME rows'[j].status \in Open PROVE CanSend(j)
      BY <1>1, <2>2 DEF Quiet, QuietRows, CanSend
    <2>3. ASSUME worker'.job = j, worker'.pc \in Ahead PROVE CanSend(j)
      BY <1>1, <2>3 DEF Quiet, QuietWorker, CanSend, Open, Ahead, Fetch
    <2>4. ASSUME Verdict(j, "failed")' PROVE CanSend(j)
      <3>1. worker.job = j /\ (worker.pc \in Ahead \/ Verdict(j, "failed"))
        BY <1>1, <2>4 DEF Quiet, QuietWorker, Verdict
      <3> QED BY <3>1 DEF CanSend
    <2>5. CanSend(j) BY <2>2, <2>3, <2>4 DEF CanSend
    <2> QED BY <2>1, <2>5 DEF Fresh
  <1>2. CASE Handed
    <2>1. worker'.job = worker.job /\ worker'.pc = "waiting" /\ worker.pc \in Fetch
          /\ UNCHANGED <<rows, settled>>
      BY <1>2, HeldFacts DEF Handed, Workers
    <2>2. CanSend(j) BY <2>1 DEF CanSend, Verdict, Ahead
    <2> QED BY <2>1, <2>2 DEF Fresh
  <1>3. ASSUME NEW a \in Answers, Confirm(a) PROVE settled'[j][p] \in {"none", "failed"}
    <2> DEFINE n == worker.checkpoint.next
    <2>1. /\ worker.pc = "waiting" /\ worker.job \in Jobs /\ UNCHANGED rows
          /\ n = rows[worker.job].checkpoint.next
          /\ settled' = [ settled EXCEPT ![worker.job][n] = a ]
      BY <1>3, HeldFacts DEF Confirm, SoFar, Ahead
    <2>2. CASE worker.job = j /\ a = "failed"
      BY <2>1, <2>2, HeldFacts
    <2>3. CASE worker.job = j /\ a # "failed"
      <3>1. worker'.pc = "saving" BY <1>3, <2>3, HeldFacts DEF Confirm, Workers
      <3>2. rows[j].status \in {"sending", "canceled"}
        BY <2>1, <2>3 DEF Held, Holding, Busy, Sending
      <3> QED BY <2>1, <3>1, <3>2 DEF CanSend, Verdict, Open, Ahead, Fetch
    <2>4. CASE worker.job # j
      <3>1. worker'.job = worker.job BY <1>3, HeldFacts DEF Confirm, Workers
      <3>2. CanSend(j) BY <2>1, <2>4, <3>1 DEF CanSend, Verdict
      <3> QED BY <2>1, <2>4, <3>2, HeldFacts DEF Fresh
    <2> QED BY <2>2, <2>3, <2>4
  <1>4. CASE Stored
    <2> DEFINE c == rows[j].checkpoint
    <2>1. UNCHANGED settled /\ worker'.job = worker.job /\ worker.job \in Jobs
          /\ worker.pc = "saving"
      BY <1>4, HeldFacts DEF Stored, history
    <2>2. CASE worker.job = j
      <3>1. PICK a \in {"sent", "unknown"} :
              c.next < Size /\ worker.checkpoint = Advance(c, a)
        BY <1>4, <2>1, <2>2 DEF SoFar
      <3>2. rows'[j].checkpoint = worker.checkpoint
        BY <1>4, <2>2, HeldFacts DEF Stored, Rows
      <3>3. p = c.next + 1 BY <3>1, <3>2, HeldFacts, AdvanceType
      <3>4. p > c.next BY <3>3, HeldFacts
      <3> QED BY <2>1, <3>4 DEF SoFar
    <2>3. CASE worker.job # j
      <3>1. rows'[j] = rows[j] BY <1>4, <2>1, <2>3, HeldFacts DEF Stored
      <3>2. CanSend(j) BY <2>1, <2>3, <3>1 DEF CanSend, Verdict
      <3> QED BY <2>1, <3>1, <3>2 DEF Fresh
    <2> QED BY <2>2, <2>3
  <1> QED BY <1>1, <1>2, <1>3, <1>4, Kinds

\* As long as the store works, a segment that was confirmed, or whose fate is unknown,
\* is never handed over again (gateway.py:1191-1218, 1277-1295, storage.py:102-107).
THEOREM NothingIsResent ==
  ASSUME StoreFails = FALSE
  PROVE  Spec => NoResend
  <1>1. Init => Fresh BY SizeType DEF Init, Fresh, Positions
  <1>2. Held /\ SoFar /\ Fresh /\ [Next]_vars => Fresh' BY FreshStep
  <1>3. ASSUME Held, SoFar, Fresh, [Next]_vars, NEW j \in Jobs, NEW p \in Positions,
               executed'[j][p] > executed[j][p]
        PROVE  settled[j][p] \in {"none", "failed"}
    <2>1. executed[j][p] \in Nat BY <1>3, HeldFacts
    <2>2. CASE Handed
      <3>1. worker.job = j /\ p = worker.checkpoint.next /\ worker.pc \in Fetch
        BY <1>3, <2>1, <2>2, HeldFacts DEF Handed
      <3>2. worker.checkpoint = rows[j].checkpoint BY <1>3, <3>1 DEF SoFar, Ahead
      <3> QED BY <1>3, <3>1, <3>2 DEF Fresh, CanSend, Ahead
    <2>3. CASE ~Handed
      <3>1. executed' = executed BY <1>3, <2>3, Kinds DEF Confirm, Stored, Quiet, history
      <3> QED BY <1>3, <2>1, <3>1
    <2> QED BY <2>2, <2>3
  <1>4. Held /\ SoFar /\ Fresh /\ [Next]_vars =>
          [ \A j \in Jobs, p \in Positions :
              executed'[j][p] > executed[j][p] => settled[j][p] \in {"none", "failed"} ]_vars
    BY <1>3
  <1> QED BY <1>1, <1>2, <1>4, Progress, PTL DEF Spec, NoResend

----------------------------------------------------------------------------
(* What the result says.                                                   *)

\* The stored progress claims nothing that the modem did not say.
Claims(c, answers) ==
  \A p \in Positions :
    /\ p < c.next /\ answers[p] = "unknown" => RecipientOf(p) \in c.unknown
    /\ RecipientOf(p) \in c.completed => p < c.next /\ answers[p] = "sent"

Truthful ==
  /\ \A j \in Jobs : /\ Claims(rows[j].checkpoint, settled[j])
                     /\ rows[j].status = "sent" => Delivered(rows[j].checkpoint)
  /\ worker.pc = "ending" /\ worker.final = "sent" => Delivered(rows[worker.job].checkpoint)

\* A segment of the recipient that the segment at n completes is not behind n.
LEMMA LastSegment ==
  ASSUME NEW n \in Nat, NEW p \in Nat, (n + 1) % Parts = 0, RecipientOf(p) = RecipientOf(n)
  PROVE  p <= n
  <1> DEFINE q == n \div Parts
             k == (n + 1) \div Parts
  <1>p. Parts \in Nat /\ Parts > 0 BY Constants DEF ConstantFacts
  <1>1. q \in Nat /\ k \in Nat BY <1>p
  <1>2. Parts * q <= n /\ n < Parts * q + Parts BY <1>p
  <1>3. p < Parts * q + Parts
    <2>1. p \div Parts = q BY DEF RecipientOf
    <2>2. p < Parts * (p \div Parts) + Parts BY <1>p
    <2> QED BY <2>1, <2>2
  <1>4. n + 1 = Parts * k
    <2>1. n + 1 = Parts * ((n + 1) \div Parts) + ((n + 1) % Parts) BY <1>p
    <2> QED BY <2>1, <1>p, <1>1
  <1> HIDE DEF q, k
  <1>5. k > q
    <2> SUFFICES ASSUME k <= q PROVE FALSE BY <1>1
    <2>1. Parts * k <= Parts * q BY <1>p, <1>1
    <2> QED BY <2>1, <1>1, <1>2, <1>4, <1>p
  <1>6. Parts * k >= Parts * q + Parts
    <2>1. k >= q + 1 BY <1>1, <1>5
    <2>2. Parts * k >= Parts * (q + 1) BY <2>1, <1>p, <1>1
    <2>3. Parts * (q + 1) = Parts * q + Parts BY <1>p, <1>1
    <2> QED BY <2>2, <2>3, <1>p, <1>1
  <1> QED BY <1>p, <1>1, <1>3, <1>4, <1>6

\* An answer to the next segment keeps the progress truthful.
LEMMA AdvanceClaims ==
  ASSUME NEW c \in Checkpoint, c.next < Size, NEW answers, Claims(c, answers),
         \A p \in Positions : p < c.next => answers[p] \in {"sent", "unknown"},
         NEW a \in {"sent", "unknown"}, answers[c.next] = a
  PROVE  Claims(Advance(c, a), answers)
  <1> DEFINE r == RecipientOf(c.next)
             u == IF a = "unknown" THEN c.unknown \cup {r} ELSE c.unknown
             d == Advance(c, a)
  <1>1. /\ d.next = c.next + 1 /\ d.unknown = u
        /\ d.completed = IF (c.next + 1) % Parts = 0 /\ r \notin u THEN c.completed \cup {r}
                         ELSE c.completed
    BY DEF Advance
  <1>2. c.next \in Nat BY SizeType DEF Checkpoint
  <1> SUFFICES ASSUME NEW p \in Positions
               PROVE  /\ p < d.next /\ answers[p] = "unknown" => RecipientOf(p) \in d.unknown
                      /\ RecipientOf(p) \in d.completed => p < d.next /\ answers[p] = "sent"
    BY DEF Claims
  <1>3. p \in Nat BY SizeType DEF Positions
  <1> HIDE DEF d
  <1>4. p < d.next => p < c.next \/ p = c.next BY <1>1, <1>2, <1>3
  <1>5. p < d.next /\ answers[p] = "unknown" => RecipientOf(p) \in d.unknown
    BY <1>1, <1>4 DEF Claims
  <1>6. ASSUME RecipientOf(p) \in c.completed PROVE p < d.next /\ answers[p] = "sent"
    <2>1. p < c.next /\ answers[p] = "sent" BY <1>6 DEF Claims
    <2> QED BY <2>1, <1>1, <1>2, <1>3
  <1>7. ASSUME (c.next + 1) % Parts = 0, r \notin u, RecipientOf(p) = r
        PROVE  p < d.next /\ answers[p] = "sent"
    <2>1. p <= c.next BY <1>2, <1>3, <1>7, LastSegment
    <2>2. p < d.next BY <2>1, <1>1, <1>2, <1>3
    <2>3. r \notin c.unknown /\ a # "unknown" BY <1>7
    <2>4. CASE p = c.next BY <2>2, <2>3, <2>4
    <2>5. CASE p < c.next BY <2>2, <2>3, <2>5, <1>7 DEF Claims
    <2> QED BY <2>1, <2>4, <2>5, <1>2, <1>3
  <1> QED BY <1>1, <1>5, <1>6, <1>7

LEMMA TruthfulQuiet == ASSUME Held, SoFar, Truthful, Quiet, Held' PROVE Truthful'
  <1>1. /\ \A j \in Jobs : rows'[j].checkpoint = rows[j].checkpoint
        /\ UNCHANGED settled
    BY DEF Quiet, QuietRows
  <1>2. \A j \in Jobs : rows'[j].status = "sent" => Delivered(rows'[j].checkpoint)
    BY <1>1 DEF Quiet, QuietRows, Truthful, Verdict
  <1>3. ASSUME worker'.pc = "ending", worker'.final = "sent"
        PROVE  Delivered(rows'[worker'.job].checkpoint)
    <2>1. /\ worker'.job = worker.job
          /\ \/ worker.pc = "ending" /\ worker.final = "sent"
             \/ worker.pc \in Ahead /\ Delivered(worker.checkpoint)
      BY <1>3 DEF Quiet, QuietWorker
    <2>2. worker.job \in Jobs BY <2>1, HeldFacts
    <2>3. Delivered(rows[worker.job].checkpoint) BY <2>1 DEF Truthful, SoFar
    <2> QED BY <1>1, <2>1, <2>2, <2>3
  <1> QED BY <1>1, <1>2, <1>3 DEF Truthful

LEMMA TruthfulStep == ASSUME Held, SoFar, Truthful, [Next]_vars PROVE Truthful'
  <1>1. CASE Quiet BY <1>1, HeldStep, TruthfulQuiet
  <1>2. CASE Handed
    <2>1. UNCHANGED <<rows, settled>> /\ worker'.pc = "waiting"
      BY <1>2, HeldFacts DEF Handed, Workers
    <2> QED BY <2>1 DEF Truthful
  <1>3. ASSUME NEW a \in Answers, Confirm(a) PROVE Truthful'
    <2> DEFINE j == worker.job
               n == worker.checkpoint.next
    <2>1. /\ worker.pc = "waiting" /\ j \in Jobs /\ UNCHANGED rows
          /\ n = rows[j].checkpoint.next /\ n \in 0 .. Size
          /\ settled' = [ settled EXCEPT ![j][n] = a ]
      BY <1>3, HeldFacts DEF Confirm, SoFar, Ahead
    <2>2. ASSUME NEW k \in Jobs PROVE Claims(rows[k].checkpoint, settled'[k])
      <3>1. \A p \in Positions : p # rows[k].checkpoint.next => settled'[k][p] = settled[k][p]
        BY <2>1, HeldFacts
      <3>2. Claims(rows[k].checkpoint, settled[k]) BY DEF Truthful
      <3>3. \A p \in Positions : p < rows[k].checkpoint.next => p # rows[k].checkpoint.next
        BY HeldFacts, SizeType DEF Positions
      <3> QED BY <3>1, <3>2, <3>3 DEF Claims
    <2>3. rows[j].status # "sent" /\ (worker'.pc = "ending" => worker'.final = "failed")
      BY <1>3, <2>1, HeldFacts DEF Confirm, Held, Holding, Busy, Sending, Workers
    <2> QED BY <2>1, <2>2, <2>3 DEF Truthful
  <1>4. CASE Stored
    <2> DEFINE j == worker.job
               c == rows[j].checkpoint
    <2>1. PICK a \in {"sent", "unknown"} :
            /\ c.next < Size /\ settled[j][c.next] = a /\ worker.checkpoint = Advance(c, a)
      BY <1>4 DEF Stored, SoFar
    <2>2. j \in Jobs /\ c \in Checkpoint /\ UNCHANGED settled /\ rows[j].status = "sending"
      BY <1>4, HeldFacts DEF Stored, history
    <2>3. /\ rows'[j].checkpoint = worker.checkpoint /\ rows'[j].status = "sending"
          /\ \A k \in Jobs \ {j} : rows'[k] = rows[k]
      BY <1>4, <2>2, HeldFacts DEF Stored, Rows
    <2>4. Claims(worker.checkpoint, settled[j])
      BY <2>1, <2>2, AdvanceClaims DEF Truthful, SoFar
    <2>5. worker'.pc = "ending" /\ worker'.final = "sent" => Delivered(rows'[worker'.job].checkpoint)
      BY <1>4, <2>3 DEF Stored, Outcome, Delivered
    <2> QED BY <2>2, <2>3, <2>4, <2>5 DEF Truthful
  <1> QED BY <1>1, <1>2, <1>3, <1>4, Kinds

\* The stored result is what the modem said, also when several attempts put it together
\* (gateway.py:1196-1205, 1214-1216, 1257-1286, 1312-1314).
THEOREM ResultsAreHonest == Spec => []HonestResult
  <1>1. Init => Truthful
    <2> SUFFICES ASSUME Init PROVE Truthful OBVIOUS
    <2>1. \A j \in Jobs : rows[j].checkpoint = FirstPart /\ rows[j].status = "absent"
      BY DEF Init, NoRow
    <2>2. ASSUME NEW j \in Jobs PROVE Claims(FirstPart, settled[j])
      <3>1. \A p \in Positions : settled[j][p] = "none" BY DEF Init
      <3> QED BY <3>1 DEF Claims, FirstPart
    <2>3. worker.pc = "idle" BY DEF Init, Free
    <2> QED BY <2>1, <2>2, <2>3 DEF Truthful
  <1>2. Held /\ SoFar /\ Truthful /\ [Next]_vars => Truthful' BY TruthfulStep
  <1>3. Held /\ SoFar /\ Truthful => HonestResult
    <2> SUFFICES ASSUME Held, SoFar, Truthful, NEW j \in Jobs
                 PROVE  /\ rows[j].status = "sent" => \A p \in Positions : settled[j][p] = "sent"
                        /\ \A r \in rows[j].checkpoint.completed : \A p \in Positions :
                             RecipientOf(p) = r => settled[j][p] = "sent"
                        /\ \A p \in 0 .. (rows[j].checkpoint.next - 1) :
                             settled[j][p] = "unknown" =>
                               RecipientOf(p) \in rows[j].checkpoint.unknown
      BY DEF HonestResult
    <2>1. Claims(rows[j].checkpoint, settled[j]) BY DEF Truthful
    <2>2. ASSUME rows[j].status = "sent", NEW p \in Positions PROVE settled[j][p] = "sent"
      <3>1. rows[j].checkpoint.next = Size /\ rows[j].checkpoint.unknown = {}
        BY <2>2 DEF Truthful, Delivered
      <3>2. p < rows[j].checkpoint.next BY <3>1, SizeType DEF Positions
      <3>3. settled[j][p] \in {"sent", "unknown"} BY <3>2 DEF SoFar
      <3> QED BY <2>1, <3>1, <3>2, <3>3 DEF Claims
    <2>3. \A p \in 0 .. (rows[j].checkpoint.next - 1) : p \in Positions /\ p < rows[j].checkpoint.next
      BY HeldFacts, SizeType DEF Positions
    <2> QED BY <2>1, <2>2, <2>3 DEF Claims
  <1> QED BY <1>1, <1>2, <1>3, Progress, PTL DEF Spec
=============================================================================
