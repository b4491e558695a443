------------------------- MODULE CallControlProofs -------------------------
(***************************************************************************)
(* Proofs about CallControl and Reached, for any batches, recipients, retries, callers *)
(* and lost connections.  SilenceHolds and NothingLeftBehind assume that   *)
(* each batch has an id of its own: with colliding ids the former fails.   *)
(***************************************************************************)
EXTENDS Reached, TLAPS

USE DEF Calls

----------------------------------------------------------------------------
(* What the operators on the locals of a job give.                         *)

\* What may follow an attempt: a wait, the next dial, or the end; the end if cancelled.
Follows(r, s) ==
  /\ s \in JobRecord /\ ~s.canceled
  /\ s.pc \in {"delay", "pause", "dial", "done"}
  /\ r.canceled => s.pc = "done"

LEMMA DoneIs ==
  ASSUME NEW r \in JobRecord,
         NEW v \in {"success", "unknown", "failed", "canceled", "aborted"}
  PROVE  Done(r, v) \in JobRecord /\ ~Done(r, v).canceled /\ Done(r, v).pc = "done"
<1>1. 0 \in 0 .. (MaxRetries + 1) /\ "done" \in Pcs
  BY CountsAssumption DEF Pcs
<1> QED BY <1>1 DEF Done, JobRecord

LEMMA StatusIs == ASSUME NEW r PROVE StatusOf(r) \in {"success", "unknown", "failed"}
  BY DEF StatusOf

LEMMA WokenIs ==
  ASSUME NEW r \in JobRecord, NEW pc \in Pcs
  PROVE  /\ Woken(r, pc) \in JobRecord /\ ~Woken(r, pc).canceled
         /\ Woken(r, pc).pc = IF r.canceled THEN "done" ELSE pc
  BY DoneIs DEF Woken, JobRecord

LEMMA AdvanceIs ==
  ASSUME NEW r \in JobRecord PROVE Follows(r, Advance(r))
<1>1. CASE (r.failed # {} /\ StopBatch) \/ r.at = Recipients
  BY <1>1, DoneIs, StatusIs DEF Advance, Follows
<1>2. CASE ~((r.failed # {} /\ StopBatch) \/ r.at = Recipients) /\ r.canceled
  BY <1>2, DoneIs DEF Advance, Follows
<1>3. CASE ~((r.failed # {} /\ StopBatch) \/ r.at = Recipients) /\ ~r.canceled
  <2>1. r.at + 1 \in Numbers
    BY <1>3, CountsAssumption DEF JobRecord, Numbers
  <2> DEFINE pc == IF PauseWaits THEN "pause" ELSE "dial"
             s  == [ r EXCEPT !.at = @ + 1, !.tries = 0, !.outcome = "none", !.pc = pc ]
  <2>2. Advance(r) = s
    BY <1>3 DEF Advance
  <2>3. pc \in {"pause", "dial"}
    OBVIOUS
  <2> HIDE DEF pc
  <2>4. s \in JobRecord
    <3>1. 0 \in 0 .. (MaxRetries + 1) /\ pc \in Pcs
      BY <2>3, CountsAssumption DEF Pcs
    <3> QED BY <2>1, <3>1 DEF JobRecord
  <2>5. s.canceled = r.canceled /\ s.pc = pc
    BY DEF JobRecord
  <2> HIDE DEF s
  <2> QED BY <1>3, <2>2, <2>3, <2>4, <2>5 DEF Follows
<1> QED BY <1>1, <1>2, <1>3

LEMMA RetryIs ==
  ASSUME NEW r \in JobRecord PROVE Follows(r, Retry(r))
<1> DEFINE f == [ r EXCEPT !.failed = @ \cup {r.at} ]
<1>1. f \in JobRecord /\ f.canceled = r.canceled
  BY DEF JobRecord
<1>2. Follows(f, Advance(f))
  BY <1>1, AdvanceIs
<1>3. CASE RetryForever \/ r.tries <= MaxRetries
  <2>1. CASE r.canceled
    BY <1>3, <2>1, DoneIs DEF Retry, Follows
  <2>2. CASE ~r.canceled
    <3> DEFINE pc == IF RetryWaits THEN "delay" ELSE "dial"
               s  == [ r EXCEPT !.outcome = "none", !.pc = pc ]
    <3>1. Retry(r) = s
      BY <1>3, <2>2 DEF Retry
    <3>2. pc \in {"delay", "dial"} /\ pc \in Pcs
      BY DEF Pcs
    <3> HIDE DEF pc
    <3>3. s \in JobRecord /\ s.pc = pc /\ s.canceled = r.canceled
      BY <3>2 DEF JobRecord
    <3> HIDE DEF s
    <3> QED BY <2>2, <3>1, <3>2, <3>3 DEF Follows
  <2> QED BY <2>1, <2>2
<1>4. CASE ~(RetryForever \/ r.tries <= MaxRetries)
  BY <1>1, <1>2, <1>4 DEF Retry, Follows
<1> QED BY <1>3, <1>4

LEMMA SettledIs ==
  ASSUME NEW r \in JobRecord PROVE Follows(r, Settled(r))
<1> DEFINE c == [ r EXCEPT !.completed = @ \cup {r.at} ]
           u == [ r EXCEPT !.unknown = @ \cup {r.at} ]
<1>1. c \in JobRecord /\ c.canceled = r.canceled /\ u \in JobRecord /\ u.canceled = r.canceled
  BY DEF JobRecord
<1>2. Follows(c, Advance(c)) /\ Follows(u, Advance(u))
  BY <1>1, AdvanceIs
<1>3. CASE r.outcome = "connected"
  BY <1>1, <1>2, <1>3 DEF Settled, Follows
<1>4. CASE r.outcome = "unknown"
  BY <1>1, <1>2, <1>4 DEF Settled, Follows
<1>5. CASE r.outcome \notin {"connected", "unknown"}
  BY <1>5, RetryIs DEF Settled
<1> QED BY <1>3, <1>4, <1>5

----------------------------------------------------------------------------
(* Steps of the coroutine that holds the lock.                             *)

Program ==
  /\ jobs \in [ Jobs -> JobRecord ]
  /\ queued \in [ Ids -> Jobs \cup {NoJob} ] /\ waiting \in Seq(Jobs)
  /\ active \in Jobs \cup {NoJob} /\ marks \subseteq Ids
  /\ LockAgrees

World ==
  /\ online \in BOOLEAN /\ shown \in BOOLEAN
  /\ held \subseteq Calls \X Numbers /\ sent \in BOOLEAN /\ hanging \in BOOLEAN
  /\ line \subseteq Calls \X Numbers /\ answered \subseteq line /\ escaped \subseteq line \cup held
  /\ \A call, other \in held : call = other
  /\ sent => held # {} /\ ~hanging

Cast == callers \in [ Callers -> CallerRecord ]

LEMMA Parts == TypeOK <=> Program /\ World /\ Cast
  BY DEF TypeOK, Program, World, Cast

\* The holder of the lock goes on with the locals r, and does not dial if cancelled.
Runs(j, r) ==
  /\ r \in JobRecord /\ r.pc \notin {"new", "queued"}
  /\ (r.canceled <=> jobs[j].canceled /\ r.pc # "done") /\ (jobs[j].canceled => r.pc # "dial")
  /\ active = j /\ Step(j, r)
  /\ UNCHANGED <<queued, waiting, callers>>

LEMMA HolderIs ==
  ASSUME TypeOK, NEW j \in Jobs, jobs[j].pc \notin {"new", "queued", "done"}
  PROVE  active = j /\ jobs[j] \in JobRecord
  BY DEF TypeOK, LockAgrees

\* Locals that an attempt, a wait or an end leads to.
LEMMA FollowsRuns ==
  ASSUME TypeOK, NEW j \in Jobs, NEW q \in JobRecord, NEW r, Follows(q, r),
         q.canceled = jobs[j].canceled, jobs[j].pc \notin {"new", "queued", "done"},
         Step(j, r), UNCHANGED <<queued, waiting, callers>>
  PROVE  Runs(j, r)
  BY HolderIs DEF Follows, Runs

LEMMA WokenRuns ==
  ASSUME TypeOK, NEW j \in Jobs, NEW pc \in Pcs \ {"new", "queued"},
         jobs[j].pc \notin {"new", "queued", "done"},
         Step(j, Woken(jobs[j], pc)), UNCHANGED <<queued, waiting, callers>>
  PROVE  Runs(j, Woken(jobs[j], pc))
  BY HolderIs, WokenIs DEF Runs

LEMMA DoneRuns ==
  ASSUME TypeOK, NEW j \in Jobs, NEW v \in {"success", "unknown", "failed", "canceled", "aborted"},
         jobs[j].pc \notin {"new", "queued", "done"},
         Step(j, Done(jobs[j], v)), UNCHANGED <<queued, waiting, callers>>
  PROVE  Runs(j, Done(jobs[j], v))
  BY HolderIs, DoneIs DEF Runs

LEMMA HangsUpRuns ==
  ASSUME TypeOK, NEW j \in Jobs, NEW v \in {"connected", "unknown", "failed"},
         jobs[j].pc \notin {"new", "queued", "done"},
         HangsUp(j, v), UNCHANGED <<queued, waiting, callers>>
  PROVE  \E r : Runs(j, r)
<1>1. jobs[j] \in JobRecord /\ active = j
  BY HolderIs
<1>2. CASE online
  <2> DEFINE r == [ jobs[j] EXCEPT !.pc = "clearing", !.outcome = v ]
  <2>1. r \in JobRecord /\ r.pc = "clearing" /\ r.canceled = jobs[j].canceled
    BY <1>1 DEF JobRecord, Pcs, Attempt
  <2>2. Step(j, r)
    BY <1>2 DEF HangsUp
  <2> HIDE DEF r
  <2>3. Runs(j, r)
    BY <1>1, <2>1, <2>2 DEF Runs
  <2> QED BY <2>3
<1>3. CASE ~online
  <2> DEFINE q == [ jobs[j] EXCEPT !.outcome = "failed" ]
  <2>1. q \in JobRecord /\ q.canceled = jobs[j].canceled
    BY <1>1 DEF JobRecord
  <2>2. Step(j, Settled(q))
    BY <1>3 DEF HangsUp
  <2> HIDE DEF q
  <2>3. Runs(j, Settled(q))
    BY <2>1, <2>2, SettledIs, FollowsRuns
  <2> QED BY <2>3
<1> QED BY <1>2, <1>3

LEMMA DialRuns ==
  ASSUME TypeOK, NEW j \in Jobs, Dial(j)
  PROVE  \E r : Runs(j, r)
<1>1. jobs[j] \in JobRecord /\ active = j /\ jobs[j].pc = "dial"
  BY HolderIs DEF Dial
<1>2. UNCHANGED <<queued, waiting, callers>>
  BY DEF Dial
<1> DEFINE q == [ jobs[j] EXCEPT !.tries = IF @ > MaxRetries THEN @ ELSE @ + 1 ]
<1>3. q \in JobRecord /\ q.canceled = jobs[j].canceled
  BY <1>1, CountsAssumption DEF JobRecord
<1>4. \/ Step(j, [ jobs[j] EXCEPT !.pc = "requesting" ])
      \/ Step(j, Done(jobs[j], "failed"))
      \/ Step(j, [ q EXCEPT !.pc = "dialing" ])
      \/ Step(j, Settled([ q EXCEPT !.outcome = "failed" ]))
  <2> HIDE DEF q
  <2>1. CASE j \in Ussd /\ online
    BY <2>1 DEF Dial
  <2>2. CASE j \in Ussd /\ ~online
    BY <2>2 DEF Dial
  <2>3. CASE j \in Calls /\ online
    BY <2>3 DEF Dial, q
  <2>4. CASE j \in Calls /\ ~online
    BY <2>4 DEF Dial, q
  <2> QED BY <2>1, <2>2, <2>3, <2>4
<1> HIDE DEF q
<1>5. CASE Step(j, [ jobs[j] EXCEPT !.pc = "requesting" ])
  <2>1. [ jobs[j] EXCEPT !.pc = "requesting" ] \in JobRecord
        /\ [ jobs[j] EXCEPT !.pc = "requesting" ].pc = "requesting"
        /\ [ jobs[j] EXCEPT !.pc = "requesting" ].canceled = jobs[j].canceled
    BY <1>1 DEF JobRecord, Pcs
  <2>2. Runs(j, [ jobs[j] EXCEPT !.pc = "requesting" ])
    BY <1>1, <1>2, <1>5, <2>1 DEF Runs
  <2> QED BY <2>2
<1>6. CASE Step(j, Done(jobs[j], "failed"))
  BY <1>1, <1>2, <1>6, DoneRuns
<1>7. CASE Step(j, [ q EXCEPT !.pc = "dialing" ])
  <2>1. [ q EXCEPT !.pc = "dialing" ] \in JobRecord
        /\ [ q EXCEPT !.pc = "dialing" ].pc = "dialing"
        /\ [ q EXCEPT !.pc = "dialing" ].canceled = jobs[j].canceled
    BY <1>3 DEF JobRecord, Pcs, Attempt
  <2>2. Runs(j, [ q EXCEPT !.pc = "dialing" ])
    BY <1>1, <1>2, <1>7, <2>1 DEF Runs
  <2> QED BY <2>2
<1>8. CASE Step(j, Settled([ q EXCEPT !.outcome = "failed" ]))
  <2> DEFINE f == [ q EXCEPT !.outcome = "failed" ]
  <2>1. f \in JobRecord /\ f.canceled = jobs[j].canceled
    BY <1>3 DEF JobRecord
  <2> HIDE DEF f
  <2>2. Runs(j, Settled(f))
    BY <1>1, <1>2, <1>8, <2>1, SettledIs, FollowsRuns DEF f
  <2> QED BY <2>2
<1> QED BY <1>4, <1>5, <1>6, <1>7, <1>8

LEMMA JobStepRuns ==
  ASSUME TypeOK, NEW j \in Jobs, JobStep(j)
  PROVE  \E r : Runs(j, r)
<1>1. CASE Requested(j)
  BY <1>1, DoneRuns DEF Requested
<1>2. CASE Dialed(j)
  <2> DEFINE Pc(tracked) == CASE ~tracked -> "blind" [] tracked /\ shown -> "talking" [] OTHER -> "ringing"
  <2>0. PICK tracked \in Tracking : Step(j, Woken(jobs[j], Pc(tracked)))
    BY <1>2 DEF Dialed
  <2> DEFINE pc == Pc(tracked)
  <2>1. pc \in {"blind", "talking", "ringing"}
    OBVIOUS
  <2>2. pc \in Pcs \ {"new", "queued"}
    BY <2>1 DEF Pcs, Attempt
  <2>3. Step(j, Woken(jobs[j], pc)) /\ UNCHANGED <<queued, waiting, callers>> /\ jobs[j].pc = "dialing"
    BY <1>2, <2>0 DEF Dialed
  <2> HIDE DEF pc, Pc
  <2> QED BY <2>2, <2>3, WokenRuns
<1>3. CASE Rung(j)
  <2>1. CASE jobs[j].canceled \/ shown
    <3>1. "talking" \in Pcs \ {"new", "queued"}
      BY DEF Pcs, Attempt
    <3> QED BY <1>3, <2>1, <3>1, WokenRuns DEF Rung
  <2>2. CASE ~(jobs[j].canceled \/ shown)
    BY <1>3, <2>2, HangsUpRuns DEF Rung, Missed
  <2> QED BY <2>1, <2>2
<1>4. CASE Talked(j)
  <2>1. CASE jobs[j].canceled
    BY <1>4, <2>1, DoneRuns DEF Talked
  <2>2. CASE ~jobs[j].canceled
    <3> DEFINE v == IF jobs[j].pc = "blind" THEN "unknown" ELSE "connected"
    <3>1. v \in {"connected", "unknown", "failed"} /\ HangsUp(j, v)
      BY <1>4, <2>2 DEF Talked
    <3> HIDE DEF v
    <3> QED BY <1>4, <3>1, HangsUpRuns DEF Talked
  <2> QED BY <2>1, <2>2
<1>5. CASE Cleared(j)
  <2>1. jobs[j].pc = "clearing" /\ Step(j, Settled(jobs[j])) /\ UNCHANGED <<queued, waiting, callers>>
    BY <1>5 DEF Cleared
  <2> QED BY <2>1, HolderIs, SettledIs, FollowsRuns
<1>6. CASE Slept(j)
  <2>1. jobs[j].pc \in {"delay", "pause"} /\ Step(j, Woken(jobs[j], "dial"))
        /\ UNCHANGED <<queued, waiting, callers>>
    BY <1>6 DEF Slept
  <2>2. "dial" \in Pcs \ {"new", "queued"}
    BY DEF Pcs
  <2>3. jobs[j] \in JobRecord /\ active = j
    BY <2>1, HolderIs
  <2>4. Runs(j, Woken(jobs[j], "dial"))
    BY <2>1, <2>2, <2>3, WokenIs DEF Runs
  <2> QED BY <2>4
<1>7. CASE Cleaned(j)
  BY <1>7, DoneRuns DEF Cleaned
<1> QED BY <1>1, <1>2, <1>3, <1>4, <1>5, <1>6, <1>7 DEF JobStep

LEMMA AbortRuns ==
  ASSUME TypeOK, NEW j \in Jobs, Abort(j), jobs[j].pc # "queued"
  PROVE  \E r : Runs(j, r)
<1>1. jobs[j].pc \notin {"new", "queued", "done"} /\ UNCHANGED <<queued, waiting, callers>>
  BY DEF Abort, Attempt
<1>2. jobs[j] \in JobRecord /\ active = j
  BY <1>1, HolderIs
<1>3. CASE Owes(j) /\ online
  <2> DEFINE r == [ jobs[j] EXCEPT !.pc = "cleaning" ]
  <2>1. r \in JobRecord /\ r.pc = "cleaning" /\ r.canceled = jobs[j].canceled
    BY <1>2 DEF JobRecord, Pcs
  <2>2. Step(j, r)
    BY <1>3 DEF Abort
  <2> HIDE DEF r
  <2>3. Runs(j, r)
    BY <1>1, <1>2, <2>1, <2>2 DEF Runs
  <2> QED BY <2>3
<1>4. CASE ~(Owes(j) /\ online)
  BY <1>1, <1>4, DoneRuns DEF Abort
<1> QED BY <1>3, <1>4

----------------------------------------------------------------------------
(* The lock and its queue.                                                 *)

LEMMA RunKeeps ==
  ASSUME TypeOK, NEW j \in Jobs, NEW r, Runs(j, r)
  PROVE  Program' /\ Cast'
<1>1. /\ jobs' = [ jobs EXCEPT ![j] = r ] /\ r \in JobRecord
      /\ active = j /\ r.pc \notin {"new", "queued"} /\ jobs \in [ Jobs -> JobRecord ]
      /\ UNCHANGED <<queued, waiting, callers>>
      /\ IF r.pc = "done" THEN active' = NoJob /\ marks' = marks \ {IdOf[j]}
                          ELSE UNCHANGED <<active, marks>>
  BY DEF Runs, Step, TypeOK
<1>2. jobs' \in [ Jobs -> JobRecord ] /\ jobs'[j] = r /\ \A k \in Jobs \ {j} : jobs'[k] = jobs[k]
  BY <1>1
<1>3. active' \in Jobs \cup {NoJob} /\ marks' \subseteq Ids
  BY <1>1 DEF TypeOK
<1>4. LockAgrees'
  <2>1. ASSUME NEW k \in Jobs PROVE active' = k <=> jobs'[k].pc \notin {"new", "queued", "done"}
    <3>1. CASE k = j
      BY <1>1, <1>2, <3>1, JobsAssumption
    <3>2. CASE k # j
      <4>1. jobs[k].pc \in {"new", "queued", "done"}
        BY <1>1, <3>2 DEF TypeOK, LockAgrees
      <4> QED BY <1>1, <1>2, <3>2, <4>1, JobsAssumption
    <3> QED BY <3>1, <3>2
  <2>2. ASSUME NEW k \in Jobs
        PROVE  jobs'[k].pc = "queued" <=> \E i \in DOMAIN waiting' : waiting'[i] = k
    <3>1. jobs[k].pc = "queued" <=> \E i \in DOMAIN waiting : waiting[i] = k
      BY DEF TypeOK, LockAgrees
    <3>2. jobs'[k].pc = "queued" <=> jobs[k].pc = "queued"
      BY <1>1, <1>2 DEF TypeOK, LockAgrees
    <3> QED BY <1>1, <3>1, <3>2
  <2>3. \A i, k \in DOMAIN waiting' : waiting'[i] = waiting'[k] => i = k
    BY <1>1 DEF TypeOK, LockAgrees
  <2> QED BY <2>1, <2>2, <2>3 DEF LockAgrees
<1>5. Cast'
  BY <1>1 DEF TypeOK, Cast
<1> QED BY <1>1, <1>2, <1>3, <1>4, <1>5 DEF Program, TypeOK

LEMMA IdsOf == ASSUME NEW j \in Jobs PROVE IdOf[j] \in Ids
  BY DEF Ids

LEMMA RequestKeeps ==
  ASSUME TypeOK, NEW j \in Jobs, Request(j)
  PROVE  Program'
<1>1. /\ jobs[j].pc = "new" /\ jobs' = [ jobs EXCEPT ![j].pc = "queued" ]
      /\ queued' = [ queued EXCEPT ![IdOf[j]] = j ] /\ waiting' = Append(waiting, j)
      /\ active' = active /\ marks' = marks
      /\ jobs \in [ Jobs -> JobRecord ] /\ waiting \in Seq(Jobs)
  BY DEF Request, TypeOK
<1>2. /\ jobs'[j].pc = "queued" /\ \A k \in Jobs \ {j} : jobs'[k] = jobs[k]
      /\ jobs'[j] \in JobRecord
  <2>1. jobs[j] \in JobRecord /\ jobs'[j] = [ jobs[j] EXCEPT !.pc = "queued" ]
        /\ \A k \in Jobs \ {j} : jobs'[k] = jobs[k]
    BY <1>1
  <2>2. [ jobs[j] EXCEPT !.pc = "queued" ] \in JobRecord
        /\ [ jobs[j] EXCEPT !.pc = "queued" ].pc = "queued"
    BY <2>1 DEF JobRecord, Pcs
  <2> QED BY <2>1, <2>2
<1>3. jobs' \in [ Jobs -> JobRecord ]
  BY <1>1, <1>2
<1>4. waiting' \in Seq(Jobs) /\ Len(waiting') = Len(waiting) + 1 /\ waiting'[Len(waiting) + 1] = j
      /\ \A i \in 1 .. Len(waiting) : waiting'[i] = waiting[i]
  BY <1>1
<1>5. queued' \in [ Ids -> Jobs \cup {NoJob} ]
  BY <1>1, IdsOf DEF TypeOK
<1>6. ASSUME NEW i \in DOMAIN waiting PROVE waiting[i] # j
  <2>1. ~ \E k \in DOMAIN waiting : waiting[k] = j
    BY <1>1 DEF TypeOK, LockAgrees
  <2> QED BY <2>1
<1>7. LockAgrees'
  <2>1. ASSUME NEW k \in Jobs PROVE active' = k <=> jobs'[k].pc \notin {"new", "queued", "done"}
    BY <1>1, <1>2 DEF TypeOK, LockAgrees
  <2>2. ASSUME NEW k \in Jobs
        PROVE  jobs'[k].pc = "queued" <=> \E i \in DOMAIN waiting' : waiting'[i] = k
    <3>1. jobs[k].pc = "queued" <=> \E i \in 1 .. Len(waiting) : waiting[i] = k
      BY <1>1 DEF TypeOK, LockAgrees
    <3>2. DOMAIN waiting' = 1 .. (Len(waiting) + 1)
      BY <1>4
    <3>3. CASE k = j
      BY <1>1, <1>2, <1>4, <3>2, <3>3
    <3>4. CASE k # j
      BY <1>1, <1>2, <1>4, <3>1, <3>2, <3>4
    <3> QED BY <3>3, <3>4
  <2>3. ASSUME NEW i \in DOMAIN waiting', NEW k \in DOMAIN waiting', waiting'[i] = waiting'[k]
        PROVE  i = k
    <3>1. i \in 1 .. (Len(waiting) + 1) /\ k \in 1 .. (Len(waiting) + 1) /\ Len(waiting) \in Nat
      BY <1>1, <1>4
    <3>2. \A m, n \in 1 .. Len(waiting) : waiting[m] = waiting[n] => m = n
      BY <1>1 DEF TypeOK, LockAgrees
    <3>3. \A m \in 1 .. Len(waiting) : waiting[m] # j
      BY <1>1, <1>6
    <3> QED BY <1>4, <2>3, <3>1, <3>2, <3>3
  <2> QED BY <2>1, <2>2, <2>3 DEF LockAgrees
<1> QED BY <1>1, <1>3, <1>4, <1>5, <1>7 DEF Program, TypeOK

LEMMA GrantKeeps ==
  ASSUME TypeOK, Grant
  PROVE  Program'
<1> DEFINE j == Head(waiting)
<1>1. /\ active = NoJob /\ waiting # <<>> /\ waiting \in Seq(Jobs) /\ jobs \in [ Jobs -> JobRecord ]
      /\ queued' = [ queued EXCEPT ![IdOf[j]] = NoJob ] /\ waiting' = Tail(waiting)
      /\ jobs' = [ jobs EXCEPT ![j] = Woken(jobs[j], "dial") ]
      /\ IF jobs[j].canceled THEN active' = NoJob /\ marks' = marks \ {IdOf[j]}
                             ELSE active' = j /\ UNCHANGED marks
  BY DEF Grant, TypeOK
<1>2. /\ Len(waiting) \in Nat \ {0} /\ j \in Jobs /\ j = waiting[1] /\ waiting' \in Seq(Jobs)
      /\ DOMAIN waiting = 1 .. Len(waiting) /\ DOMAIN waiting' = 1 .. (Len(waiting) - 1)
      /\ \A i \in 1 .. (Len(waiting) - 1) : waiting'[i] = waiting[i + 1]
  BY <1>1
<1> HIDE DEF j
<1>3. jobs[j].pc = "queued"
  BY <1>2 DEF TypeOK, LockAgrees
<1>4. Woken(jobs[j], "dial") \in JobRecord
      /\ Woken(jobs[j], "dial").pc = IF jobs[j].canceled THEN "done" ELSE "dial"
  BY <1>1, <1>2, WokenIs DEF Pcs
<1>5. /\ jobs' \in [ Jobs -> JobRecord ] /\ \A k \in Jobs \ {j} : jobs'[k] = jobs[k]
      /\ jobs'[j].pc = IF jobs[j].canceled THEN "done" ELSE "dial"
  BY <1>1, <1>2, <1>4
<1>6. queued' \in [ Ids -> Jobs \cup {NoJob} ] /\ active' \in Jobs \cup {NoJob} /\ marks' \subseteq Ids
  BY <1>1, <1>2 DEF TypeOK
<1>7. LockAgrees'
  <2>1. ASSUME NEW k \in Jobs PROVE active' = k <=> jobs'[k].pc \notin {"new", "queued", "done"}
    <3>1. jobs[k].pc \in {"new", "queued", "done"}
      BY <1>1, JobsAssumption DEF TypeOK, LockAgrees
    <3> QED BY <1>1, <1>2, <1>5, <3>1, JobsAssumption
  <2>2. ASSUME NEW k \in Jobs
        PROVE  jobs'[k].pc = "queued" <=> \E i \in DOMAIN waiting' : waiting'[i] = k
    <3>1. jobs[k].pc = "queued" <=> \E i \in 1 .. Len(waiting) : waiting[i] = k
      BY <1>2 DEF TypeOK, LockAgrees
    <3>2. \A m, n \in 1 .. Len(waiting) : waiting[m] = waiting[n] => m = n
      BY <1>2 DEF TypeOK, LockAgrees
    <3>3. CASE k = j
      <4>1. jobs'[k].pc # "queued"
        BY <1>5, <3>3
      <4>2. ASSUME NEW i \in 1 .. (Len(waiting) - 1), waiting'[i] = k PROVE FALSE
        BY <1>2, <3>2, <3>3, <4>2
      <4> QED BY <1>2, <4>1, <4>2
    <3>4. CASE k # j
      <4>1. jobs'[k].pc = "queued" <=> jobs[k].pc = "queued"
        BY <1>5, <3>4
      <4>2. ASSUME NEW i \in 1 .. Len(waiting), waiting[i] = k
            PROVE  \E m \in 1 .. (Len(waiting) - 1) : waiting'[m] = k
        <5>1. i # 1 /\ i - 1 \in 1 .. (Len(waiting) - 1) /\ (i - 1) + 1 = i
          BY <1>2, <3>4, <4>2
        <5> QED BY <1>2, <4>2, <5>1
      <4>3. ASSUME NEW m \in 1 .. (Len(waiting) - 1), waiting'[m] = k
            PROVE  \E i \in 1 .. Len(waiting) : waiting[i] = k
        <5>1. m + 1 \in 1 .. Len(waiting) /\ waiting[m + 1] = k
          BY <1>2, <4>3
        <5> QED BY <5>1
      <4> QED BY <1>2, <3>1, <4>1, <4>2, <4>3
    <3> QED BY <3>3, <3>4
  <2>3. ASSUME NEW i \in DOMAIN waiting', NEW k \in DOMAIN waiting', waiting'[i] = waiting'[k]
        PROVE  i = k
    <3>1. \A m, n \in 1 .. Len(waiting) : waiting[m] = waiting[n] => m = n
      BY <1>2 DEF TypeOK, LockAgrees
    <3>2. i + 1 \in 1 .. Len(waiting) /\ k + 1 \in 1 .. Len(waiting) /\ i \in Int /\ k \in Int
      BY <1>2
    <3>3. waiting[i + 1] = waiting[k + 1]
      BY <1>2, <2>3
    <3> QED BY <3>1, <3>2, <3>3
  <2> QED BY <2>1, <2>2, <2>3 DEF LockAgrees
<1> QED BY <1>2, <1>5, <1>6, <1>7 DEF Program

LEMMA LeaveKeeps ==
  ASSUME TypeOK, NEW j \in Jobs, Abort(j), jobs[j].pc = "queued"
  PROVE  Program' /\ jobs' = [ jobs EXCEPT ![j] = Done(jobs[j], "aborted") ]
<1>1. /\ jobs' = [ jobs EXCEPT ![j] = Done(jobs[j], "aborted") ] /\ jobs \in [ Jobs -> JobRecord ]
      /\ queued' = [ queued EXCEPT ![IdOf[j]] = NoJob ] /\ waiting \in Seq(Jobs)
      /\ marks' = marks \ {IdOf[j]} /\ active' = active
  BY DEF Abort, TypeOK
<1>2. PICK i \in DOMAIN waiting :
        /\ waiting[i] = j
        /\ waiting' = [ k \in 1 .. (Len(waiting) - 1) |-> IF k < i THEN waiting[k] ELSE waiting[k + 1] ]
  BY DEF Abort
<1>3. /\ Len(waiting) \in Nat \ {0} /\ i \in 1 .. Len(waiting) /\ DOMAIN waiting = 1 .. Len(waiting)
      /\ DOMAIN waiting' = 1 .. (Len(waiting) - 1)
  BY <1>1, <1>2
<1>4. ASSUME NEW k \in 1 .. (Len(waiting) - 1)
      PROVE  waiting'[k] = waiting[IF k < i THEN k ELSE k + 1]
             /\ (IF k < i THEN k ELSE k + 1) \in (1 .. Len(waiting)) \ {i}
  BY <1>2, <1>3
<1>5. waiting' \in Seq(Jobs)
  <2>1. \A k \in 1 .. (Len(waiting) - 1) : waiting'[k] \in Jobs
    BY <1>1, <1>3, <1>4
  <2>2. waiting' \in [ 1 .. (Len(waiting) - 1) -> Jobs ] /\ Len(waiting) - 1 \in Nat
    BY <1>2, <1>3, <2>1
  <2> QED BY <2>2
<1>6. /\ jobs' \in [ Jobs -> JobRecord ] /\ \A k \in Jobs \ {j} : jobs'[k] = jobs[k]
      /\ jobs'[j].pc = "done"
  BY <1>1, DoneIs
<1>7. queued' \in [ Ids -> Jobs \cup {NoJob} ] /\ marks' \subseteq Ids
  BY <1>1 DEF TypeOK
<1>8. LockAgrees'
  <2>0. \A m, n \in 1 .. Len(waiting) : waiting[m] = waiting[n] => m = n
    BY <1>3 DEF TypeOK, LockAgrees
  <2>1. ASSUME NEW k \in Jobs PROVE active' = k <=> jobs'[k].pc \notin {"new", "queued", "done"}
    BY <1>1, <1>6 DEF TypeOK, LockAgrees
  <2>2. ASSUME NEW k \in Jobs
        PROVE  jobs'[k].pc = "queued" <=> \E m \in DOMAIN waiting' : waiting'[m] = k
    <3>1. jobs[k].pc = "queued" <=> \E m \in 1 .. Len(waiting) : waiting[m] = k
      BY <1>3 DEF TypeOK, LockAgrees
    <3>2. ASSUME NEW m \in 1 .. (Len(waiting) - 1), waiting'[m] = k
          PROVE  k # j /\ jobs[k].pc = "queued"
      BY <1>2, <1>3, <1>4, <2>0, <3>1, <3>2
    <3>3. ASSUME NEW n \in 1 .. Len(waiting), waiting[n] = k, k # j
          PROVE  \E m \in 1 .. (Len(waiting) - 1) : waiting'[m] = k
      <4>1. n # i
        BY <1>2, <3>3
      <4>2. CASE n < i
        <5>1. n \in 1 .. (Len(waiting) - 1) /\ waiting'[n] = waiting[n]
          BY <1>3, <1>4, <4>2
        <5> QED BY <3>3, <5>1
      <4>3. CASE n > i
        <5>1. n - 1 \in 1 .. (Len(waiting) - 1) /\ ~(n - 1 < i) /\ (n - 1) + 1 = n
          BY <1>3, <4>3
        <5>2. waiting'[n - 1] = waiting[n]
          BY <1>4, <5>1
        <5> QED BY <3>3, <5>1, <5>2
      <4> QED BY <1>3, <4>1, <4>2, <4>3
    <3> QED BY <1>3, <1>6, <3>1, <3>2, <3>3
  <2>3. ASSUME NEW m \in DOMAIN waiting', NEW n \in DOMAIN waiting', waiting'[m] = waiting'[n]
        PROVE  m = n
    <3>1. (IF m < i THEN m ELSE m + 1) = (IF n < i THEN n ELSE n + 1)
      BY <1>3, <1>4, <2>0, <2>3
    <3> QED BY <1>3, <3>1
  <2> QED BY <2>1, <2>2, <2>3 DEF LockAgrees
<1> QED BY <1>1, <1>5, <1>6, <1>7, <1>8 DEF Program, TypeOK

LEMMA SignalKeeps ==
  ASSUME TypeOK, NEW c \in Callers, NEW pc \in {"table", "marking", "refused"}, Signal(c, pc),
         UNCHANGED lock
  PROVE  Program' /\ Cast'
<1> DEFINE found == Registered \cap Meant(callers[c].target)
           hit == { IdOf[j] : j \in found \cap Calls }
           before == { j \in Calls \cap Meant(callers[c].target) : jobs[j].pc \notin {"new", "done"} }
<1>1. /\ jobs' = [ j \in Jobs |-> IF j \in found THEN [ jobs[j] EXCEPT !.canceled = TRUE ] ELSE jobs[j] ]
      /\ callers' = [ callers EXCEPT ![c].pc = pc, ![c].hit = hit, ![c].before = before ]
      /\ jobs \in [ Jobs -> JobRecord ] /\ callers \in [ Callers -> CallerRecord ]
      /\ queued' = queued /\ waiting' = waiting /\ active' = active /\ marks' = marks
  BY DEF Signal, TypeOK, lock
<1>2. hit \subseteq Ids /\ before \subseteq Calls
  BY IdsOf
<1> HIDE DEF found, hit, before
<1>3. jobs' \in [ Jobs -> JobRecord ] /\ \A k \in Jobs : jobs'[k].pc = jobs[k].pc
  <2>1. ASSUME NEW k \in Jobs
        PROVE  [ jobs[k] EXCEPT !.canceled = TRUE ] \in JobRecord
               /\ [ jobs[k] EXCEPT !.canceled = TRUE ].pc = jobs[k].pc
    <3>1. jobs[k] \in JobRecord
      BY <1>1
    <3> QED BY <3>1 DEF JobRecord
  <2> QED BY <1>1, <2>1
<1>4. Cast'
  <2>1. callers[c] \in CallerRecord
    BY <1>1
  <2>2. [ callers[c] EXCEPT !.pc = pc, !.hit = hit, !.before = before ] \in CallerRecord
    BY <1>2, <2>1 DEF CallerRecord
  <2>3. callers' = [ callers EXCEPT ![c] = [ callers[c] EXCEPT !.pc = pc, !.hit = hit, !.before = before ] ]
    BY <1>1
  <2> QED BY <1>1, <2>2, <2>3 DEF Cast
<1>5. LockAgrees'
  BY <1>1, <1>3 DEF TypeOK, LockAgrees
<1> QED BY <1>1, <1>3, <1>4, <1>5 DEF Program, TypeOK

LEMMA ReplyKeeps ==
  ASSUME TypeOK, NEW c \in Callers, NEW pc \in {"marking", "answered", "refused"}, Reply(c, pc)
  PROVE  Cast' /\ callers'[c].pc = pc /\ callers'[c].before = callers[c].before
         /\ callers'[c].hit = callers[c].hit /\ \A d \in Callers \ {c} : callers'[d] = callers[d]
  BY DEF TypeOK, Cast, Reply, CallerRecord

----------------------------------------------------------------------------
(* The driver and the modem, and the callers.                              *)

LEMMA StandingIs == ASSUME TypeOK PROVE Standing \subseteq Calls \X Numbers
  BY DEF TypeOK, Standing

\* After a disconnect no call is up or will be dialled, but those exempted.
LEMMA DisconnectLine ==
  ASSUME TypeOK, Disconnect, UNCHANGED <<online, shown>>
  PROVE  World' /\ Standing' = {}
  BY DEF TypeOK, World, Disconnect, Standing, Ending

\* Only a dial adds a call.
LineOf(j) == j \in Calls /\ Dial(j) /\ Standing' \subseteq Standing \cup {<<j, jobs[j].at>>}

LEMMA TakeLine ==
  ASSUME TypeOK, NEW call \in Calls \X Numbers, Take(call), UNCHANGED <<online, shown>>
  PROVE  World' /\ Standing' \subseteq Standing \cup {call}
<1>1. CASE held = {}
  <2>1. held' = {call} /\ escaped' = escaped \ {call} /\ UNCHANGED <<sent, hanging, line, answered>> /\ ~sent
    BY <1>1 DEF Take, TypeOK
  <2>2. World'
    <3>1. held' \subseteq Calls \X Numbers /\ (\A a, b \in held' : a = b)
      BY <2>1
    <3>2. escaped' \subseteq line' \cup held'
      BY <1>1, <2>1 DEF TypeOK
    <3> QED BY <2>1, <3>1, <3>2 DEF TypeOK, World
  <2>3. ASSUME NEW other \in Standing', other # call PROVE other \in Standing
    BY <1>1, <2>1, <2>3 DEF Standing, Ending
  <2> QED BY <2>2, <2>3
<1>2. CASE held # {}
  <2>1. UNCHANGED sim
    BY <1>2 DEF Take, sim
  <2> QED BY <2>1 DEF sim, TypeOK, World, Standing, Ending
<1> QED BY <1>1, <1>2

LEMMA SameLine ==
  ASSUME TypeOK, UNCHANGED <<online, sim, shown>>
  PROVE  World' /\ Standing' = Standing
  BY DEF TypeOK, World, Standing, Ending, sim

LEMMA HangsUpLine ==
  ASSUME TypeOK, NEW j \in Jobs, NEW v, HangsUp(j, v), UNCHANGED <<online, shown>>
  PROVE  World' /\ Standing' \subseteq Standing
<1>1. CASE online
  BY <1>1, DisconnectLine DEF HangsUp
<1>2. CASE ~online
  BY <1>2, SameLine DEF HangsUp
<1> QED BY <1>1, <1>2

LEMMA DialLine ==
  ASSUME TypeOK, NEW j \in Jobs, Dial(j)
  PROVE  World' /\ (Standing' \subseteq Standing \/ LineOf(j))
<1>1. UNCHANGED <<online, shown>>
  BY DEF Dial
<1>2. jobs[j] \in JobRecord /\ jobs[j].at \in Numbers
  BY DEF TypeOK, JobRecord
<1>3. [ jobs[j] EXCEPT !.tries = IF @ > MaxRetries THEN @ ELSE @ + 1 ].at = jobs[j].at
  BY <1>2 DEF JobRecord
<1>4. UNCHANGED sim \/ (j \in Calls /\ Take(<<j, jobs[j].at>>))
  <2>1. CASE j \in Ussd /\ online
    BY <2>1 DEF Dial
  <2>2. CASE j \in Ussd /\ ~online
    BY <2>2 DEF Dial
  <2>3. CASE j \in Calls /\ online
    BY <1>3, <2>3 DEF Dial
  <2>4. CASE j \in Calls /\ ~online
    BY <2>4 DEF Dial
  <2> QED BY <2>1, <2>2, <2>3, <2>4
<1>5. CASE UNCHANGED sim
  BY <1>1, <1>5, SameLine
<1>6. CASE j \in Calls /\ Take(<<j, jobs[j].at>>)
  <2>1. <<j, jobs[j].at>> \in Calls \X Numbers
    BY <1>2, <1>6
  <2> QED BY <1>1, <1>6, <2>1, TakeLine DEF LineOf
<1> QED BY <1>4, <1>5, <1>6

LEMMA JobStepLine ==
  ASSUME TypeOK, NEW j \in Jobs, JobStep(j)
  PROVE  World' /\ Standing' \subseteq Standing
<1>1. UNCHANGED <<online, shown>>
  BY DEF JobStep, Requested, Dialed, Rung, Talked, Cleared, Slept, Cleaned
<1>2. UNCHANGED sim \/ \E v : HangsUp(j, v)
  BY DEF JobStep, Requested, Dialed, Rung, Talked, Cleared, Slept, Cleaned
<1> QED BY <1>1, <1>2, SameLine, HangsUpLine

LEMMA AbortLine ==
  ASSUME TypeOK, NEW j \in Jobs, Abort(j)
  PROVE  World' /\ Standing' \subseteq Standing
<1>1. UNCHANGED <<online, shown>> /\ (UNCHANGED sim \/ Disconnect)
  BY DEF Abort
<1> QED BY <1>1, SameLine, DisconnectLine

LEMMA CallerLine ==
  ASSUME TypeOK, NEW c \in Callers, CallerStep(c)
  PROVE  World' /\ Standing' \subseteq Standing
<1>1. UNCHANGED <<online, shown>> /\ (UNCHANGED sim \/ Disconnect)
  BY DEF CallerStep, Hangup, Cancel, Tabled, Mark
<1> QED BY <1>1, SameLine, DisconnectLine

\* Steps of the driver, the modem, the sensor and the connection.
Outside ==
  \/ SendDial \/ DialAnswered \/ Recover \/ HungUp
  \/ Answer \/ FarHangup \/ Publish \/ Connection

LEMMA OthersLine ==
  ASSUME TypeOK, Outside
  PROVE  World' /\ Standing' \subseteq Standing /\ UNCHANGED <<jobs, lock, callers>>
<1>1. CASE SendDial
  BY <1>1 DEF SendDial, TypeOK, World, Standing, Ending
<1>2. CASE DialAnswered
  BY <1>2 DEF DialAnswered, TypeOK, World, Standing, Ending
<1>3. CASE Recover
  BY <1>3 DEF Recover, TypeOK, World, Standing, Ending
<1>4. CASE HungUp
  BY <1>4 DEF HungUp, TypeOK, World, Standing, Ending
<1>5. CASE Answer
  BY <1>5 DEF Answer, TypeOK, World, Standing, Ending
<1>6. CASE FarHangup
  <2>1. PICK call \in line :
          /\ line' = line \ {call} /\ answered' = answered \ {call}
          /\ escaped' = escaped \cap (line' \cup held)
          /\ UNCHANGED <<jobs, lock, callers, online, held, sent, hanging, shown>>
    BY <1>6 DEF FarHangup
  <2>2. World'
    BY <2>1 DEF TypeOK, World
  <2>3. Standing' \subseteq Standing
    BY <2>1 DEF Standing, Ending
  <2> QED BY <2>1, <2>2, <2>3
<1>7. CASE Publish
  BY <1>7 DEF Publish, sim, TypeOK, World, Standing, Ending
<1>8. CASE Connection
  BY <1>8 DEF Connection, sim, TypeOK, World, Standing, Ending
<1> QED BY <1>1, <1>2, <1>3, <1>4, <1>5, <1>6, <1>7, <1>8 DEF Outside

LEMMA AskKeeps ==
  ASSUME TypeOK, NEW c \in Callers, NEW target \in Ids \cup {HangUp, All}, Ask(c, target)
  PROVE  Cast' /\ World' /\ Standing' = Standing /\ UNCHANGED <<jobs, lock>>
         /\ callers'[c].pc = "asked" /\ \A d \in Callers \ {c} : callers'[d] = callers[d]
<1>1. callers[c] \in CallerRecord /\ callers \in [ Callers -> CallerRecord ]
  BY DEF TypeOK
<1>2. [ callers[c] EXCEPT !.pc = "asked", !.target = target ] \in CallerRecord
      /\ [ callers[c] EXCEPT !.pc = "asked", !.target = target ].pc = "asked"
  BY <1>1 DEF CallerRecord
<1>3. callers' = [ callers EXCEPT ![c] = [ callers[c] EXCEPT !.pc = "asked", !.target = target ] ]
  BY <1>1 DEF Ask
<1>4. Cast' /\ callers'[c].pc = "asked" /\ \A d \in Callers \ {c} : callers'[d] = callers[d]
  BY <1>1, <1>2, <1>3 DEF Cast
<1>5. World' /\ Standing' = Standing /\ UNCHANGED <<jobs, lock>>
  BY SameLine DEF Ask
<1> QED BY <1>4, <1>5

LEMMA SameKeeps ==
  ASSUME TypeOK, UNCHANGED <<jobs, lock>> PROVE Program'
  BY DEF TypeOK, Program, LockAgrees, lock

LEMMA MarkKeeps ==
  ASSUME TypeOK, NEW c \in Callers, Mark(c)
  PROVE  Program' /\ Cast'
<1>1. callers[c].hit \subseteq Ids
  BY DEF TypeOK, CallerRecord
<1>2. marks' \subseteq Ids
  BY <1>1 DEF Mark, TypeOK
<1>3. Program'
  BY <1>2 DEF Mark, Program, TypeOK, LockAgrees
<1> QED BY <1>3, ReplyKeeps DEF Mark

LEMMA CallerKeeps ==
  ASSUME TypeOK, NEW c \in Callers, CallerStep(c)
  PROVE  Program' /\ Cast'
<1>1. CASE Hangup(c)
  <2>1. CASE online
    BY <1>1, <2>1, SignalKeeps DEF Hangup
  <2>2. CASE ~online
    BY <1>1, <2>2, SignalKeeps DEF Hangup
  <2> QED BY <2>1, <2>2
<1>2. CASE Cancel(c)
  BY <1>2, SignalKeeps DEF Cancel
<1>3. CASE Tabled(c)
  BY <1>3, ReplyKeeps, SameKeeps DEF Tabled
<1>4. CASE Mark(c)
  BY <1>4, MarkKeeps
<1> QED BY <1>1, <1>2, <1>3, <1>4 DEF CallerStep

LEMMA RequestRest ==
  ASSUME TypeOK, NEW j \in Jobs, Request(j) PROVE World' /\ Cast' /\ Standing' = Standing /\ callers' = callers
  BY SameLine DEF Request, TypeOK, Cast

LEMMA GrantRest ==
  ASSUME TypeOK, Grant PROVE World' /\ Cast' /\ Standing' = Standing /\ callers' = callers
  BY SameLine DEF Grant, TypeOK, Cast

----------------------------------------------------------------------------
(* Types.                                                                  *)

LEMMA InitTypes == Init => TypeOK
<1> SUFFICES ASSUME Init PROVE TypeOK
  OBVIOUS
<1>1. New \in JobRecord /\ New.pc = "new" /\ NoCall \in CallerRecord
  BY CountsAssumption DEF New, NoCall, JobRecord, CallerRecord, Pcs, Numbers
<1>2. Program
  BY <1>1, JobsAssumption DEF Init, Program, LockAgrees
<1>3. World /\ Cast
  BY <1>1 DEF Init, World, Cast
<1> QED BY <1>2, <1>3, Parts

LEMMA StepTypes == TypeOK /\ [Next]_vars => TypeOK'
<1> SUFFICES ASSUME TypeOK, [Next]_vars PROVE TypeOK'
  OBVIOUS
<1>0. (Program' /\ World' /\ Cast') => TypeOK'
  BY DEF TypeOK, Program, World, Cast
<1>1. ASSUME NEW j \in Jobs, Dial(j) PROVE TypeOK'
  BY <1>0, <1>1, DialRuns, RunKeeps, DialLine
<1>2. ASSUME NEW j \in Jobs, Request(j) PROVE TypeOK'
  BY <1>0, <1>2, RequestKeeps, RequestRest
<1>3. ASSUME NEW j \in Jobs, JobStep(j) PROVE TypeOK'
  BY <1>0, <1>3, JobStepRuns, RunKeeps, JobStepLine
<1>4. ASSUME NEW j \in Jobs, Abort(j) PROVE TypeOK'
  <2>1. CASE jobs[j].pc = "queued"
    <3>1. Cast'
      BY <1>4 DEF Abort, TypeOK, Cast
    <3> QED BY <1>0, <1>4, <2>1, <3>1, LeaveKeeps, AbortLine
  <2>2. CASE jobs[j].pc # "queued"
    BY <1>0, <1>4, <2>2, AbortRuns, RunKeeps, AbortLine
  <2> QED BY <2>1, <2>2
<1>5. CASE Grant
  BY <1>0, <1>5, GrantKeeps, GrantRest
<1>6. ASSUME NEW c \in Callers, NEW target \in Ids \cup {HangUp, All}, Ask(c, target) PROVE TypeOK'
  BY <1>0, <1>6, AskKeeps, SameKeeps
<1>7. ASSUME NEW c \in Callers, CallerStep(c) PROVE TypeOK'
  BY <1>0, <1>7, CallerKeeps, CallerLine
<1>8. CASE Outside
  <2>1. Program' /\ World'
    BY <1>8, OthersLine, SameKeeps
  <2>2. Cast'
    BY <1>8, OthersLine DEF TypeOK, Cast
  <2> QED BY <1>0, <2>1, <2>2
<1>9. CASE UNCHANGED vars
  BY <1>9 DEF vars, lock, sim, TypeOK, LockAgrees
<1> QED BY <1>1, <1>2, <1>3, <1>4, <1>5, <1>6, <1>7, <1>8, <1>9 DEF Next, Outside, Idle

\* Types hold, and the lock agrees with the coroutines: _transport_job gives it to one job
\* at a time, and its queue holds exactly the jobs that wait, through aborts and cancellations.
THEOREM TypeCorrect == Spec => []TypeOK
<1> QED BY InitTypes, StepTypes, PTL DEF Spec

----------------------------------------------------------------------------
(* Silence after a hang-up.                                                *)

UniqueIds == \A i, j \in Jobs : IdOf[i] = IdOf[j] => i = j

\* A cancelled job has noticed before it dials.
Heeded == \A j \in Jobs : jobs[j].canceled => jobs[j].pc \notin {"new", "dial"}

\* Each job in the queue is found by its id.
Found == \A j \in Jobs : queued[IdOf[j]] = j <=> jobs[j].pc = "queued"

\* What a caller signalled is cancelled or over, and listed among its hits.
Told ==
  \A c \in Callers : callers[c].pc \notin {"idle", "asked"} =>
    \A j \in callers[c].before :
      (jobs[j].pc = "done" \/ jobs[j].canceled) /\ IdOf[j] \in callers[c].hit

\* Once a caller has disconnected, none of the calls it was about stands.
Silent ==
  \A c \in Callers : callers[c].pc \in {"marking", "answered"} =>
    \A j \in callers[c].before : UpFor(j) = {}

Rest == Heeded /\ Found /\ Told /\ Silent

LEMMA FewerCalls ==
  ASSUME NEW j, UpFor(j) = {}, Standing' \subseteq Standing PROVE UpFor(j)' = {}
  BY DEF UpFor

LEMMA RunRest ==
  ASSUME TypeOK, Rest, NEW j \in Jobs, NEW r, Runs(j, r), Standing' \subseteq Standing \/ LineOf(j)
  PROVE  Rest'
<1>1. /\ jobs' = [ jobs EXCEPT ![j] = r ] /\ jobs \in [ Jobs -> JobRecord ]
      /\ r.pc \notin {"new", "queued"} /\ (r.canceled <=> jobs[j].canceled /\ r.pc # "done") /\ (jobs[j].canceled => r.pc # "dial")
      /\ active = j /\ UNCHANGED <<queued, waiting, callers>>
  BY DEF Runs, Step, TypeOK
<1>2. jobs'[j] = r /\ \A k \in Jobs \ {j} : jobs'[k] = jobs[k]
  BY <1>1
<1>3. jobs[j].pc \notin {"new", "queued", "done"}
  BY <1>1 DEF TypeOK, LockAgrees
<1>4. Heeded'
  BY <1>1, <1>2 DEF Rest, Heeded
<1>5. Found'
  BY <1>1, <1>2, <1>3 DEF Rest, Found
<1>6. ASSUME NEW c \in Callers, callers[c].pc \notin {"idle", "asked"}, NEW k \in callers[c].before
      PROVE  (jobs'[k].pc = "done" \/ jobs'[k].canceled) /\ IdOf[k] \in callers[c].hit
  <2>1. k \in Jobs
    BY DEF TypeOK, CallerRecord
  <2>2. (jobs[k].pc = "done" \/ jobs[k].canceled) /\ IdOf[k] \in callers[c].hit
    BY <1>6 DEF Rest, Told
  <2> QED BY <1>1, <1>2, <1>3, <2>1, <2>2
<1>7. Told'
  BY <1>1, <1>6 DEF Told
<1>8. ASSUME NEW c \in Callers, callers[c].pc \in {"marking", "answered"}, NEW k \in callers[c].before
      PROVE  UpFor(k)' = {}
  <2>1. UpFor(k) = {}
    BY <1>8 DEF Rest, Silent
  <2>2. CASE Standing' \subseteq Standing
    BY <2>1, <2>2, FewerCalls
  <2>3. CASE LineOf(j)
    <3>1. ~jobs[j].canceled
      BY <2>3 DEF LineOf, Dial, Rest, Heeded
    <3>2. j # k
      BY <1>3, <1>8, <3>1 DEF Rest, Told
    <3>3. Standing' \subseteq Standing \cup {<<j, jobs[j].at>>}
      BY <2>3 DEF LineOf
    <3> QED BY <2>1, <3>2, <3>3 DEF UpFor
  <2> QED BY <2>2, <2>3
<1>9. Silent'
  BY <1>1, <1>8 DEF Silent
<1> QED BY <1>4, <1>5, <1>7, <1>9 DEF Rest

\* Jobs that come, wait and leave the queue, while the callers stand still.
LEMMA QueueRest ==
  ASSUME TypeOK, Rest, Standing' \subseteq Standing, callers' = callers, Heeded', Found',
         \A k \in Jobs : jobs[k].canceled \/ jobs[k].pc = "done" => jobs'[k].canceled \/ jobs'[k].pc = "done"
  PROVE  Rest'
<1>1. ASSUME NEW c \in Callers, callers[c].pc \notin {"idle", "asked"}, NEW k \in callers[c].before
      PROVE  (jobs'[k].pc = "done" \/ jobs'[k].canceled) /\ IdOf[k] \in callers[c].hit
  <2>1. k \in Jobs
    BY DEF TypeOK, CallerRecord
  <2> QED BY <1>1, <2>1 DEF Rest, Told
<1>2. Told'
  BY <1>1 DEF Told
<1>3. ASSUME NEW c \in Callers, callers[c].pc \in {"marking", "answered"}, NEW k \in callers[c].before
      PROVE  UpFor(k)' = {}
  BY <1>3, FewerCalls DEF Rest, Silent
<1>4. Silent'
  BY <1>3 DEF Silent
<1> QED BY <1>2, <1>4 DEF Rest

LEMMA RequestRestHolds ==
  ASSUME UniqueIds, TypeOK, Rest, NEW j \in Jobs, Request(j) PROVE Rest'
<1>1. /\ jobs[j].pc = "new" /\ jobs' = [ jobs EXCEPT ![j].pc = "queued" ]
      /\ queued' = [ queued EXCEPT ![IdOf[j]] = j ] /\ queued \in [ Ids -> Jobs \cup {NoJob} ]
      /\ jobs \in [ Jobs -> JobRecord ]
  BY DEF Request, TypeOK
<1>2. /\ jobs'[j].pc = "queued" /\ jobs'[j].canceled = jobs[j].canceled
      /\ \A k \in Jobs \ {j} : jobs'[k] = jobs[k]
  BY <1>1 DEF JobRecord
<1>3. ~jobs[j].canceled
  BY <1>1 DEF Rest, Heeded
<1>4. Heeded'
  BY <1>2, <1>3 DEF Rest, Heeded
<1>5. Found'
  <2>1. queued'[IdOf[j]] = j /\ \A k \in Jobs \ {j} : queued'[IdOf[k]] = queued[IdOf[k]]
    BY <1>1, IdsOf DEF UniqueIds
  <2> QED BY <1>2, <2>1 DEF Rest, Found
<1>6. \A k \in Jobs : jobs[k].canceled \/ jobs[k].pc = "done" => jobs'[k].canceled \/ jobs'[k].pc = "done"
  BY <1>1, <1>2
<1> QED BY <1>4, <1>5, <1>6, RequestRest, QueueRest

LEMMA GrantRestHolds ==
  ASSUME UniqueIds, TypeOK, Rest, Grant PROVE Rest'
<1> DEFINE j == Head(waiting)
<1>1. /\ waiting # <<>> /\ waiting \in Seq(Jobs) /\ jobs \in [ Jobs -> JobRecord ]
      /\ queued' = [ queued EXCEPT ![IdOf[j]] = NoJob ] /\ queued \in [ Ids -> Jobs \cup {NoJob} ]
      /\ jobs' = [ jobs EXCEPT ![j] = Woken(jobs[j], "dial") ]
  BY DEF Grant, TypeOK
<1>2. j \in Jobs /\ 1 \in DOMAIN waiting /\ waiting[1] = j
  BY <1>1
<1> HIDE DEF j
<1>3. jobs[j].pc = "queued"
  BY <1>2 DEF TypeOK, LockAgrees
<1>4. /\ jobs'[j].pc = (IF jobs[j].canceled THEN "done" ELSE "dial")
      /\ ~jobs'[j].canceled
      /\ \A k \in Jobs \ {j} : jobs'[k] = jobs[k]
  BY <1>1, <1>2, WokenIs DEF Pcs
<1>5. Heeded'
  BY <1>4 DEF Rest, Heeded
<1>6. Found'
  <2>1. queued'[IdOf[j]] = NoJob /\ \A k \in Jobs \ {j} : queued'[IdOf[k]] = queued[IdOf[k]]
    BY <1>1, <1>2, IdsOf DEF UniqueIds
  <2> QED BY <1>2, <1>4, <2>1, JobsAssumption DEF Rest, Found
<1>7. \A k \in Jobs : jobs[k].canceled \/ jobs[k].pc = "done" => jobs'[k].canceled \/ jobs'[k].pc = "done"
  BY <1>3, <1>4
<1> QED BY <1>5, <1>6, <1>7, GrantRest, QueueRest

LEMMA LeaveRestHolds ==
  ASSUME UniqueIds, TypeOK, Rest, NEW j \in Jobs, Abort(j), jobs[j].pc = "queued" PROVE Rest'
<1>1. /\ jobs' = [ jobs EXCEPT ![j] = Done(jobs[j], "aborted") ] /\ jobs \in [ Jobs -> JobRecord ]
      /\ queued' = [ queued EXCEPT ![IdOf[j]] = NoJob ] /\ queued \in [ Ids -> Jobs \cup {NoJob} ]
      /\ callers' = callers
  BY DEF Abort, TypeOK
<1>2. /\ jobs'[j].pc = "done" /\ ~jobs'[j].canceled
      /\ \A k \in Jobs \ {j} : jobs'[k] = jobs[k]
  BY <1>1, DoneIs
<1>3. Heeded'
  BY <1>2 DEF Rest, Heeded
<1>4. Found'
  <2>1. queued'[IdOf[j]] = NoJob /\ \A k \in Jobs \ {j} : queued'[IdOf[k]] = queued[IdOf[k]]
    BY <1>1, IdsOf DEF UniqueIds
  <2> QED BY <1>2, <2>1, JobsAssumption DEF Rest, Found
<1>5. \A k \in Jobs : jobs[k].canceled \/ jobs[k].pc = "done" => jobs'[k].canceled \/ jobs'[k].pc = "done"
  BY <1>2
<1> QED BY <1>1, <1>3, <1>4, <1>5, AbortLine, QueueRest

\* Everything a caller means, and that was accepted before, is found.
LEMMA SignalRest ==
  ASSUME UniqueIds, TypeOK, Rest, Yielded, NEW c \in Callers, NEW pc \in {"table", "marking", "refused"},
         Signal(c, pc), UNCHANGED lock, Standing' \subseteq Standing, pc = "marking" => Standing' = {}
  PROVE  Rest'
<1> DEFINE meant == Meant(callers[c].target)
           found == Registered \cap meant
           hit == { IdOf[j] : j \in found \cap Calls }
           before == { j \in Calls \cap meant : jobs[j].pc \notin {"new", "done"} }
<1>1. /\ jobs' = [ j \in Jobs |-> IF j \in found THEN [ jobs[j] EXCEPT !.canceled = TRUE ] ELSE jobs[j] ]
      /\ callers' = [ callers EXCEPT ![c].pc = pc, ![c].hit = hit, ![c].before = before ]
      /\ jobs \in [ Jobs -> JobRecord ] /\ callers \in [ Callers -> CallerRecord ]
      /\ queued' = queued
  BY DEF Signal, TypeOK, lock
<1>2. callers'[c].pc = pc /\ callers'[c].hit = hit /\ callers'[c].before = before
      /\ \A d \in Callers \ {c} : callers'[d] = callers[d]
  BY <1>1 DEF CallerRecord
<1>3. ASSUME NEW k \in Jobs
      PROVE  jobs'[k].pc = jobs[k].pc /\ (jobs[k].canceled => jobs'[k].canceled)
             /\ (k \in found => jobs'[k].canceled) /\ (k \notin found => jobs'[k] = jobs[k])
  <2>1. jobs[k] \in JobRecord
    BY <1>1
  <2> QED BY <1>1, <2>1 DEF JobRecord
<1>4. ASSUME NEW k \in Jobs, k \in Registered PROVE jobs[k].pc \notin {"new", "dial"}
  BY <1>4 DEF Registered, Rest, Found, TypeOK, LockAgrees, Yielded
<1>5. Heeded'
  BY <1>3, <1>4 DEF Rest, Heeded
<1>6. Found'
  <2>1. \A k \in Jobs : jobs'[k].pc = jobs[k].pc
    BY <1>3
  <2>2. queued' = queued
    BY <1>1
  <2> QED BY <2>1, <2>2 DEF Rest, Found
<1>7. ASSUME NEW k \in before PROVE k \in found /\ IdOf[k] \in hit /\ k \in Jobs
  <2>1. k \in Registered
    BY <1>7 DEF Registered, Rest, Found, TypeOK, LockAgrees
  <2> QED BY <1>7, <2>1
<1>8. Told'
  <2>1. ASSUME NEW d \in Callers, callers'[d].pc \notin {"idle", "asked"}, NEW k \in callers'[d].before
        PROVE  (jobs'[k].pc = "done" \/ jobs'[k].canceled) /\ IdOf[k] \in callers'[d].hit
    <3>1. CASE d = c
      BY <1>2, <1>3, <1>7, <2>1, <3>1
    <3>2. CASE d # c
      <4>1. k \in callers[d].before /\ callers[d].pc \notin {"idle", "asked"} /\ k \in Jobs
        BY <1>1, <1>2, <2>1, <3>2 DEF CallerRecord
      <4>2. (jobs[k].pc = "done" \/ jobs[k].canceled) /\ IdOf[k] \in callers[d].hit
        BY <4>1 DEF Rest, Told
      <4> QED BY <1>2, <1>3, <3>2, <4>1, <4>2
    <3> QED BY <3>1, <3>2
  <2> QED BY <2>1 DEF Told
<1>9. Silent'
  <2>1. ASSUME NEW d \in Callers, callers'[d].pc \in {"marking", "answered"}, NEW k \in callers'[d].before
        PROVE  UpFor(k)' = {}
    <3>1. CASE d = c
      BY <1>2, <2>1, <3>1 DEF UpFor
    <3>2. CASE d # c
      BY <1>2, <2>1, <3>2, FewerCalls DEF Rest, Silent
    <3> QED BY <3>1, <3>2
  <2> QED BY <2>1 DEF Silent
<1> QED BY <1>5, <1>6, <1>8, <1>9 DEF Rest

LEMMA ReplyRest ==
  ASSUME TypeOK, Rest, NEW c \in Callers, NEW pc \in {"marking", "answered", "refused"}, Reply(c, pc),
         callers[c].pc \in {"table", "marking"}, jobs' = jobs, queued' = queued, Standing' \subseteq Standing,
         \/ pc = "refused"
         \/ Standing' = {}
         \/ callers[c].pc = "marking"
         \/ callers[c].hit = {}
  PROVE  Rest'
<1>1. Heeded' /\ Found'
  BY DEF Rest, Heeded, Found
<1>2. Told'
  <2>1. ASSUME NEW d \in Callers, callers'[d].pc \notin {"idle", "asked"}, NEW k \in callers'[d].before
        PROVE  (jobs'[k].pc = "done" \/ jobs'[k].canceled) /\ IdOf[k] \in callers'[d].hit
    <3>1. callers[d].pc \notin {"idle", "asked"} /\ callers'[d].before = callers[d].before
          /\ callers'[d].hit = callers[d].hit
      BY <2>1, ReplyKeeps
    <3> QED BY <2>1, <3>1 DEF Rest, Told
  <2> QED BY <2>1 DEF Told
<1>3. ASSUME NEW d \in Callers, callers'[d].pc \in {"marking", "answered"}, NEW k \in callers'[d].before
      PROVE  UpFor(k)' = {}
  <2>1. CASE d # c
    <3>1. callers'[d] = callers[d]
      BY <2>1, ReplyKeeps
    <3> QED BY <1>3, <3>1, FewerCalls DEF Rest, Silent
  <2>2. CASE d = c /\ Standing' = {}
    BY <2>2 DEF UpFor
  <2>3. CASE d = c /\ callers[c].pc = "marking"
    <3>1. k \in callers[c].before
      BY <1>3, <2>3, ReplyKeeps
    <3> QED BY <2>3, <3>1, FewerCalls DEF Rest, Silent
  <2>4. CASE d = c /\ callers[c].hit = {}
    <3>1. k \in callers[c].before
      BY <1>3, <2>4, ReplyKeeps
    <3> QED BY <2>4, <3>1 DEF Rest, Told
  <2>5. CASE d = c /\ pc = "refused"
    BY <1>3, <2>5, ReplyKeeps
  <2> QED BY <2>1, <2>2, <2>3, <2>4, <2>5
<1>4. Silent'
  BY <1>3 DEF Silent
<1> QED BY <1>1, <1>2, <1>4 DEF Rest

LEMMA CallerRest ==
  ASSUME UniqueIds, TypeOK, Rest, Yielded, NEW c \in Callers, CallerStep(c) PROVE Rest'
<1>0. Standing' \subseteq Standing
  BY CallerLine
<1>1. CASE Hangup(c)
  <2>1. CASE online
    <3>1. Signal(c, "marking") /\ UNCHANGED lock /\ Standing' = {}
      BY <1>1, <2>1, DisconnectLine DEF Hangup
    <3> QED BY <1>0, <3>1, SignalRest
  <2>2. CASE ~online
    <3>1. Signal(c, "refused") /\ UNCHANGED lock
      BY <1>1, <2>2 DEF Hangup
    <3> QED BY <1>0, <3>1, SignalRest
  <2> QED BY <2>1, <2>2
<1>2. CASE Cancel(c)
  <2>1. Signal(c, "table") /\ UNCHANGED lock
    BY <1>2 DEF Cancel
  <2> QED BY <1>0, <2>1, SignalRest
<1>3. CASE Tabled(c)
  <2>1. callers[c].pc = "table" /\ jobs' = jobs /\ queued' = queued
    BY <1>3 DEF Tabled, lock
  <2>2. \/ Reply(c, "refused")
        \/ Reply(c, "answered") /\ callers[c].hit = {}
        \/ Reply(c, "marking") /\ Standing' = {}
    BY <1>3, DisconnectLine DEF Tabled
  <2> QED BY <1>0, <2>1, <2>2, ReplyRest
<1>4. CASE Mark(c)
  BY <1>0, <1>4, ReplyRest DEF Mark
<1> QED BY <1>1, <1>2, <1>3, <1>4 DEF CallerStep

LEMMA AskRest ==
  ASSUME TypeOK, Rest, NEW c \in Callers, NEW target \in Ids \cup {HangUp, All}, Ask(c, target)
  PROVE  Rest'
<1>1. jobs' = jobs /\ queued' = queued /\ Standing' = Standing /\ callers'[c].pc = "asked"
      /\ \A d \in Callers \ {c} : callers'[d] = callers[d]
  BY AskKeeps DEF lock
<1>2. Heeded' /\ Found'
  BY <1>1 DEF Rest, Heeded, Found
<1>3. Told'
  BY <1>1 DEF Rest, Told
<1>4. Silent'
  BY <1>1 DEF Rest, Silent, UpFor
<1> QED BY <1>2, <1>3, <1>4 DEF Rest

LEMMA StillRest ==
  ASSUME TypeOK, Rest, UNCHANGED <<jobs, lock, callers>>, Standing' \subseteq Standing PROVE Rest'
<1>1. Heeded' /\ Found'
  BY DEF Rest, Heeded, Found, lock
<1>2. \A k \in Jobs : jobs[k].canceled \/ jobs[k].pc = "done" => jobs'[k].canceled \/ jobs'[k].pc = "done"
  OBVIOUS
<1> QED BY <1>1, <1>2, QueueRest

LEMMA InitRest == Init => Rest
<1> SUFFICES ASSUME Init PROVE Rest
  OBVIOUS
<1>1. \A j \in Jobs : jobs[j] = New /\ queued[IdOf[j]] = NoJob
  BY IdsOf DEF Init
<1>2. \A c \in Callers : callers[c].pc = "idle"
  BY DEF Init, NoCall
<1> QED BY <1>1, <1>2, JobsAssumption DEF Rest, Heeded, Found, Told, Silent, New

LEMMA StepRest ==
  ASSUME UniqueIds, TypeOK, Rest, [Next]_vars PROVE Rest'
<1>1. ASSUME NEW j \in Jobs, Dial(j) PROVE Rest'
  BY <1>1, DialRuns, DialLine, RunRest
<1>2. ASSUME NEW j \in Jobs, Request(j) PROVE Rest'
  BY <1>2, RequestRestHolds
<1>3. ASSUME NEW j \in Jobs, JobStep(j) PROVE Rest'
  BY <1>3, JobStepRuns, JobStepLine, RunRest
<1>4. ASSUME NEW j \in Jobs, Abort(j) PROVE Rest'
  <2>1. CASE jobs[j].pc = "queued"
    BY <1>4, <2>1, LeaveRestHolds
  <2>2. CASE jobs[j].pc # "queued"
    BY <1>4, <2>2, AbortRuns, AbortLine, RunRest
  <2> QED BY <2>1, <2>2
<1>5. CASE Grant
  BY <1>5, GrantRestHolds
<1>6. ASSUME NEW c \in Callers, NEW target \in Ids \cup {HangUp, All}, Ask(c, target) PROVE Rest'
  BY <1>6, AskRest
<1>7. ASSUME Yielded, NEW c \in Callers, CallerStep(c) PROVE Rest'
  BY <1>7, CallerRest
<1>8. CASE Outside
  BY <1>8, OthersLine, StillRest
<1>9. CASE UNCHANGED vars
  <2>1. UNCHANGED <<jobs, lock, callers>> /\ Standing' \subseteq Standing
    BY <1>9, SameLine DEF vars
  <2> QED BY <2>1, StillRest
<1> QED BY <1>1, <1>2, <1>3, <1>4, <1>5, <1>6, <1>7, <1>8, <1>9 DEF Next, Outside, Idle

\* Where each batch has an id of its own, an answered hang-up or cancellation is final for
\* what it was about, for any number of batches, retries, callers and lost connections:
\* async_hangup and async_cancel against the retry loop of async_call_batch.
THEOREM SilenceHolds == ASSUME UniqueIds PROVE Spec => []SilenceAfter
<1>1. Init => TypeOK /\ Rest
  BY InitTypes, InitRest
<1>2. TypeOK /\ Rest /\ [Next]_vars => (TypeOK /\ Rest)'
  BY StepTypes, StepRest
<1>3. TypeOK /\ Rest => SilenceAfter
  BY DEF Rest, Silent, SilenceAfter
<1> QED BY <1>1, <1>2, <1>3, PTL DEF Spec

----------------------------------------------------------------------------
(* The result of a batch.                                                  *)

\* The recipients a batch has a verdict on: those up to n, each in one of the lists.
Judged(r, n) ==
  /\ r.completed \cap r.failed = {} /\ r.completed \cap r.unknown = {} /\ r.failed \cap r.unknown = {}
  /\ r.completed \cup r.failed \cup r.unknown = 1 .. n

Complete(r) ==
  /\ Judged(r, r.at)
  /\ r.at # Recipients => StopBatch /\ r.failed = {r.at}
  /\ r.status = "success" => r.completed = Numbers

\* A batch that goes on has a verdict on the recipients before the present one, and no
\* failure if that stops it; one that ended by itself has a complete result.
Tidy(r) ==
  /\ r.pc # "done" => /\ Judged(r, r.at - 1) /\ (StopBatch => r.failed = {})
                      /\ r.status = "in_progress" /\ r.pc # "requesting"
  /\ r.status \in {"success", "unknown", "failed"} => Complete(r)

AllTidy == \A j \in Calls : Tidy(jobs[j])

\* The locals that Tidy looks at stay.
LEMMA SameTidy ==
  ASSUME NEW r, NEW s, Tidy(r), r.pc # "done", s.pc # "requesting",
         s.at = r.at, s.completed = r.completed, s.failed = r.failed, s.unknown = r.unknown,
         s.status = r.status
  PROVE  Tidy(s)
  BY DEF Tidy, Judged

LEMMA DoneTidy ==
  ASSUME NEW r \in JobRecord, NEW v \in {"canceled", "aborted"}
  PROVE  Tidy(Done(r, v))
  BY DEF Done, JobRecord, Tidy

LEMMA WokenTidy ==
  ASSUME NEW r \in JobRecord, Tidy(r), r.pc # "done", NEW pc \in Pcs \ {"done", "requesting"}
  PROVE  Tidy(Woken(r, pc))
<1>1. CASE r.canceled
  BY <1>1, DoneTidy DEF Woken
<1>2. CASE ~r.canceled
  <2> DEFINE s == [ r EXCEPT !.pc = pc ]
  <2>1. /\ s.pc = pc /\ s.at = r.at /\ s.completed = r.completed /\ s.failed = r.failed
        /\ s.unknown = r.unknown /\ s.status = r.status
    BY DEF JobRecord
  <2> HIDE DEF s
  <2>2. Tidy(s)
    BY <2>1, SameTidy
  <2> QED BY <1>2, <2>2 DEF Woken, s
<1> QED BY <1>1, <1>2

\* After the verdict on the present recipient.
LEMMA AdvanceTidy ==
  ASSUME NEW r \in JobRecord, Judged(r, r.at), StopBatch => r.failed \subseteq {r.at},
         r.status = "in_progress"
  PROVE  Tidy(Advance(r))
<1>0. r.at \in Numbers /\ r.at \in Nat /\ Recipients \in Nat
  BY CountsAssumption DEF JobRecord, Numbers
<1>1. CASE (r.failed # {} /\ StopBatch) \/ r.at = Recipients
  <2> DEFINE v == StatusOf(r)
             s == Done(r, v)
  <2>1. Advance(r) = s
    BY <1>1 DEF Advance
  <2>2. /\ s.pc = "done" /\ s.at = r.at /\ s.completed = r.completed /\ s.failed = r.failed
        /\ s.unknown = r.unknown /\ s.status = v
    BY DEF Done, JobRecord
  <2>3. v = "success" => r.failed = {} /\ r.unknown = {}
    BY DEF StatusOf
  <2> HIDE DEF s, v
  <2>4. Judged(s, s.at)
    BY <2>2 DEF Judged
  <2>5. s.at # Recipients => StopBatch /\ s.failed = {s.at}
    BY <1>1, <2>2
  <2>6. s.status = "success" => s.completed = Numbers
    BY <1>1, <2>2, <2>3 DEF Judged, Numbers
  <2> QED BY <2>1, <2>2, <2>4, <2>5, <2>6 DEF Tidy, Complete
<1>2. CASE ~((r.failed # {} /\ StopBatch) \/ r.at = Recipients) /\ r.canceled
  BY <1>2, DoneTidy DEF Advance
<1>3. CASE ~((r.failed # {} /\ StopBatch) \/ r.at = Recipients) /\ ~r.canceled
  <2> DEFINE pc == IF PauseWaits THEN "pause" ELSE "dial"
             s  == [ r EXCEPT !.at = @ + 1, !.tries = 0, !.outcome = "none", !.pc = pc ]
  <2>1. Advance(r) = s
    BY <1>3 DEF Advance
  <2>2. pc \notin {"done", "requesting"}
    OBVIOUS
  <2> HIDE DEF pc
  <2>3. /\ s.pc = pc /\ s.at = r.at + 1 /\ s.completed = r.completed /\ s.failed = r.failed
        /\ s.unknown = r.unknown /\ s.status = r.status
    BY DEF JobRecord
  <2> HIDE DEF s
  <2>4. s.at - 1 = r.at
    BY <1>0, <2>3
  <2>5. Judged(s, s.at - 1)
    BY <2>3, <2>4 DEF Judged
  <2> QED BY <1>3, <2>1, <2>2, <2>3, <2>5 DEF Tidy
<1> QED BY <1>1, <1>2, <1>3

LEMMA SettledTidy ==
  ASSUME NEW r \in JobRecord, Tidy(r), r.pc # "done"
  PROVE  Tidy(Settled(r))
<1> DEFINE c == [ r EXCEPT !.completed = @ \cup {r.at} ]
           u == [ r EXCEPT !.unknown = @ \cup {r.at} ]
           f == [ r EXCEPT !.failed = @ \cup {r.at} ]
<1>1. /\ r.at \in Nat \ {0} /\ Judged(r, r.at - 1) /\ r.status = "in_progress"
      /\ StopBatch => r.failed = {}
  BY DEF JobRecord, Numbers, Tidy
<1>2. /\ c \in JobRecord /\ c.at = r.at /\ c.status = r.status
      /\ c.completed = r.completed \cup {r.at} /\ c.failed = r.failed /\ c.unknown = r.unknown
  BY DEF JobRecord
<1>3. /\ u \in JobRecord /\ u.at = r.at /\ u.status = r.status
      /\ u.completed = r.completed /\ u.failed = r.failed /\ u.unknown = r.unknown \cup {r.at}
  BY DEF JobRecord
<1>4. /\ f \in JobRecord /\ f.at = r.at /\ f.status = r.status
      /\ f.completed = r.completed /\ f.failed = r.failed \cup {r.at} /\ f.unknown = r.unknown
  BY DEF JobRecord
<1> HIDE DEF c, u, f
<1>a. /\ r.completed \cup r.failed \cup r.unknown = 1 .. (r.at - 1)
      /\ r.completed \cap r.failed = {} /\ r.completed \cap r.unknown = {}
      /\ r.failed \cap r.unknown = {}
  BY <1>1 DEF Judged
<1>b. r.at \notin 1 .. (r.at - 1) /\ 1 .. r.at = (1 .. (r.at - 1)) \cup {r.at}
  BY <1>1
<1>c. r.at \notin r.completed /\ r.at \notin r.failed /\ r.at \notin r.unknown
  BY <1>a, <1>b
<1>5. Judged(c, c.at)
  <2>1. c.completed \cup c.failed \cup c.unknown = 1 .. c.at
    BY <1>2, <1>a, <1>b
  <2> QED BY <1>2, <1>a, <1>c, <2>1 DEF Judged
<1>6. Judged(u, u.at)
  <2>1. u.completed \cup u.failed \cup u.unknown = 1 .. u.at
    BY <1>3, <1>a, <1>b
  <2> QED BY <1>3, <1>a, <1>c, <2>1 DEF Judged
<1>7. Judged(f, f.at)
  <2>1. f.completed \cup f.failed \cup f.unknown = 1 .. f.at
    BY <1>4, <1>a, <1>b
  <2> QED BY <1>4, <1>a, <1>c, <2>1 DEF Judged
<1>8. Tidy(Advance(c)) /\ Tidy(Advance(u)) /\ Tidy(Advance(f))
  BY <1>1, <1>2, <1>3, <1>4, <1>5, <1>6, <1>7, AdvanceTidy
<1>9. Tidy(Retry(r))
  <2>1. CASE (RetryForever \/ r.tries <= MaxRetries) /\ ~r.canceled
    <3> DEFINE pc == IF RetryWaits THEN "delay" ELSE "dial"
               s  == [ r EXCEPT !.outcome = "none", !.pc = pc ]
    <3>1. Retry(r) = s
      BY <2>1 DEF Retry
    <3>2. pc # "requesting"
      OBVIOUS
    <3> HIDE DEF pc
    <3>3. /\ s.pc = pc /\ s.at = r.at /\ s.completed = r.completed /\ s.failed = r.failed
          /\ s.unknown = r.unknown /\ s.status = r.status
      BY DEF JobRecord
    <3> HIDE DEF s
    <3> QED BY <3>1, <3>2, <3>3, SameTidy
  <2>2. CASE (RetryForever \/ r.tries <= MaxRetries) /\ r.canceled
    BY <2>2, DoneTidy DEF Retry
  <2>3. CASE ~(RetryForever \/ r.tries <= MaxRetries)
    BY <1>8, <2>3 DEF Retry, f
  <2> QED BY <2>1, <2>2, <2>3
<1>10. CASE r.outcome = "connected"
  BY <1>8, <1>10 DEF Settled, c
<1>11. CASE r.outcome = "unknown"
  BY <1>8, <1>11 DEF Settled, u
<1>12. CASE r.outcome \notin {"connected", "unknown"}
  BY <1>9, <1>12 DEF Settled
<1> QED BY <1>10, <1>11, <1>12

----------------------------------------------------------------------------
(* Its steps.                                                              *)

\* A step of one job: what it leaves a call batch with is tidy.
Leaves(j) == \E r : jobs' = [ jobs EXCEPT ![j] = r ] /\ (j \in Calls => Tidy(r))

LEMMA LeavesTidy ==
  ASSUME TypeOK, AllTidy, NEW j \in Jobs, Leaves(j) PROVE AllTidy'
<1>1. PICK r : jobs' = [ jobs EXCEPT ![j] = r ] /\ (j \in Calls => Tidy(r))
  BY DEF Leaves
<1>2. jobs'[j] = r /\ \A k \in Jobs \ {j} : jobs'[k] = jobs[k]
  BY <1>1 DEF TypeOK
<1> QED BY <1>1, <1>2 DEF AllTidy

\* What holds of the locals before a step.
LEMMA BeforeTidy ==
  ASSUME TypeOK, AllTidy, NEW j \in Jobs
  PROVE  jobs[j] \in JobRecord /\ (j \in Calls => Tidy(jobs[j]))
  BY DEF TypeOK, AllTidy

LEMMA MovesTidy ==
  ASSUME TypeOK, AllTidy, NEW j \in Jobs, NEW r, jobs' = [ jobs EXCEPT ![j] = r ],
         jobs[j].pc # "done", r.pc # "requesting",
         r.at = jobs[j].at, r.completed = jobs[j].completed, r.failed = jobs[j].failed,
         r.unknown = jobs[j].unknown, r.status = jobs[j].status
  PROVE  Leaves(j)
  BY BeforeTidy, SameTidy DEF Leaves

LEMMA HangsUpTidy ==
  ASSUME TypeOK, AllTidy, NEW j \in Jobs, NEW v \in {"connected", "unknown", "failed"},
         jobs[j].pc # "done", HangsUp(j, v)
  PROVE  Leaves(j)
<1>1. jobs[j] \in JobRecord /\ (j \in Calls => Tidy(jobs[j]))
  BY BeforeTidy
<1>2. CASE online
  <2> DEFINE r == [ jobs[j] EXCEPT !.pc = "clearing", !.outcome = v ]
  <2>1. jobs' = [ jobs EXCEPT ![j] = r ]
    BY <1>2 DEF HangsUp, Step
  <2>2. /\ r.pc = "clearing" /\ r.at = jobs[j].at /\ r.completed = jobs[j].completed
        /\ r.failed = jobs[j].failed /\ r.unknown = jobs[j].unknown /\ r.status = jobs[j].status
    BY <1>1 DEF JobRecord
  <2> HIDE DEF r
  <2> QED BY <2>1, <2>2, MovesTidy
<1>3. CASE ~online
  <2> DEFINE q == [ jobs[j] EXCEPT !.outcome = "failed" ]
  <2>1. jobs' = [ jobs EXCEPT ![j] = Settled(q) ]
    BY <1>3 DEF HangsUp, Step
  <2>2. /\ q \in JobRecord /\ q.pc = jobs[j].pc /\ q.at = jobs[j].at /\ q.completed = jobs[j].completed
        /\ q.failed = jobs[j].failed /\ q.unknown = jobs[j].unknown /\ q.status = jobs[j].status
    BY <1>1 DEF JobRecord
  <2> HIDE DEF q
  <2>3. j \in Calls => q.pc # "requesting"
    BY <1>1, <2>2 DEF Tidy
  <2>4. j \in Calls => Tidy(Settled(q))
    BY <1>1, <2>2, <2>3, SameTidy, SettledTidy
  <2> QED BY <2>1, <2>4 DEF Leaves
<1> QED BY <1>2, <1>3

LEMMA DialTidy ==
  ASSUME TypeOK, AllTidy, NEW j \in Jobs, Dial(j) PROVE Leaves(j)
<1> DEFINE q == [ jobs[j] EXCEPT !.tries = IF @ > MaxRetries THEN @ ELSE @ + 1 ]
<1>1. jobs[j] \in JobRecord /\ jobs[j].pc = "dial" /\ (j \in Calls => Tidy(jobs[j]))
  BY BeforeTidy DEF Dial
<1>2. /\ q \in JobRecord /\ q.pc = "dial" /\ q.at = jobs[j].at /\ q.completed = jobs[j].completed
      /\ q.failed = jobs[j].failed /\ q.unknown = jobs[j].unknown /\ q.status = jobs[j].status
  BY <1>1, CountsAssumption DEF JobRecord
<1>3. CASE j \in Ussd
  <2>1. CASE online
    BY <1>3, <2>1 DEF Dial, Step, Leaves
  <2>2. CASE ~online
    BY <1>3, <2>2 DEF Dial, Step, Leaves
  <2> QED BY <2>1, <2>2
<1>4. CASE j \in Calls /\ online
  <2> DEFINE r == [ q EXCEPT !.pc = "dialing" ]
  <2>1. jobs' = [ jobs EXCEPT ![j] = r ]
    BY <1>4 DEF Dial, Step
  <2> HIDE DEF q
  <2>2. /\ r.pc = "dialing" /\ r.at = q.at /\ r.completed = q.completed
        /\ r.failed = q.failed /\ r.unknown = q.unknown /\ r.status = q.status
    BY <1>2 DEF JobRecord
  <2> HIDE DEF r
  <2> QED BY <1>1, <1>2, <2>1, <2>2, MovesTidy
<1>5. CASE j \in Calls /\ ~online
  <2> DEFINE r == [ q EXCEPT !.outcome = "failed" ]
  <2>1. jobs' = [ jobs EXCEPT ![j] = Settled(r) ]
    BY <1>5 DEF Dial, Step
  <2> HIDE DEF q
  <2>2. /\ r \in JobRecord /\ r.pc = "dial" /\ r.at = q.at /\ r.completed = q.completed
        /\ r.failed = q.failed /\ r.unknown = q.unknown /\ r.status = q.status
    BY <1>2 DEF JobRecord
  <2> HIDE DEF r
  <2>3. Tidy(r)
    BY <1>1, <1>2, <1>5, <2>2, SameTidy
  <2> QED BY <2>1, <2>2, <2>3, SettledTidy DEF Leaves
<1> QED BY <1>3, <1>4, <1>5

LEMMA WakesTidy ==
  ASSUME TypeOK, AllTidy, NEW j \in Jobs, NEW pc \in Pcs \ {"done", "requesting"},
         jobs[j].pc # "done", jobs' = [ jobs EXCEPT ![j] = Woken(jobs[j], pc) ]
  PROVE  Leaves(j)
  BY BeforeTidy, WokenTidy DEF Leaves

LEMMA JobStepTidy ==
  ASSUME TypeOK, AllTidy, NEW j \in Jobs, JobStep(j) PROVE Leaves(j)
<1>0. jobs[j] \in JobRecord /\ (j \in Calls => Tidy(jobs[j]))
  BY BeforeTidy
<1>1. CASE Requested(j)
  <2>1. j \notin Calls
    BY <1>0, <1>1 DEF Requested, Tidy
  <2> QED BY <1>1, <2>1 DEF Requested, Step, Leaves
<1>2. CASE Dialed(j)
  <2> DEFINE Pc(tracked) == CASE ~tracked -> "blind" [] tracked /\ shown -> "talking" [] OTHER -> "ringing"
  <2>1. PICK tracked \in Tracking : jobs' = [ jobs EXCEPT ![j] = Woken(jobs[j], Pc(tracked)) ]
    BY <1>2 DEF Dialed, Step
  <2> DEFINE pc == Pc(tracked)
  <2>2. pc \in {"blind", "talking", "ringing"}
    OBVIOUS
  <2>3. jobs' = [ jobs EXCEPT ![j] = Woken(jobs[j], pc) ]
    BY <2>1
  <2> HIDE DEF pc, Pc
  <2>4. pc \in Pcs \ {"done", "requesting"} /\ jobs[j].pc # "done"
    BY <1>2, <2>2 DEF Pcs, Attempt, Dialed
  <2> QED BY <2>3, <2>4, WakesTidy
<1>3. CASE Rung(j)
  <2>1. CASE jobs[j].canceled \/ shown
    <3>1. "talking" \in Pcs \ {"done", "requesting"} /\ jobs[j].pc # "done"
          /\ jobs' = [ jobs EXCEPT ![j] = Woken(jobs[j], "talking") ]
      BY <1>3, <2>1 DEF Pcs, Attempt, Rung, Step
    <3> QED BY <3>1, WakesTidy
  <2>2. CASE ~(jobs[j].canceled \/ shown)
    BY <1>3, <2>2, HangsUpTidy DEF Rung, Missed
  <2> QED BY <2>1, <2>2
<1>4. CASE Talked(j)
  <2>1. CASE jobs[j].canceled
    BY <1>0, <1>4, <2>1, DoneTidy DEF Talked, Step, Leaves
  <2>2. CASE ~jobs[j].canceled
    <3> DEFINE v == IF jobs[j].pc = "blind" THEN "unknown" ELSE "connected"
    <3>1. v \in {"connected", "unknown", "failed"} /\ HangsUp(j, v)
      BY <1>4, <2>2 DEF Talked
    <3> HIDE DEF v
    <3> QED BY <1>4, <3>1, HangsUpTidy DEF Talked
  <2> QED BY <2>1, <2>2
<1>5. CASE Cleared(j)
  BY <1>0, <1>5, SettledTidy DEF Cleared, Step, Leaves
<1>6. CASE Slept(j)
  <2>1. "dial" \in Pcs \ {"done", "requesting"} /\ jobs[j].pc # "done"
        /\ jobs' = [ jobs EXCEPT ![j] = Woken(jobs[j], "dial") ]
    BY <1>6 DEF Pcs, Slept, Step
  <2> QED BY <2>1, WakesTidy
<1>7. CASE Cleaned(j)
  BY <1>0, <1>7, DoneTidy DEF Cleaned, Step, Leaves
<1> QED BY <1>1, <1>2, <1>3, <1>4, <1>5, <1>6, <1>7 DEF JobStep

LEMMA AbortTidy ==
  ASSUME TypeOK, AllTidy, NEW j \in Jobs, Abort(j) PROVE Leaves(j)
<1>0. jobs[j] \in JobRecord /\ jobs[j].pc # "done"
  BY BeforeTidy DEF Abort, Attempt
<1>1. CASE jobs' = [ jobs EXCEPT ![j] = Done(jobs[j], "aborted") ]
  BY <1>0, <1>1, DoneTidy DEF Leaves
<1>2. CASE jobs' = [ jobs EXCEPT ![j] = [ jobs[j] EXCEPT !.pc = "cleaning" ] ]
  <2> DEFINE r == [ jobs[j] EXCEPT !.pc = "cleaning" ]
  <2>1. /\ r.pc = "cleaning" /\ r.at = jobs[j].at /\ r.completed = jobs[j].completed
        /\ r.failed = jobs[j].failed /\ r.unknown = jobs[j].unknown /\ r.status = jobs[j].status
    BY <1>0 DEF JobRecord
  <2>2. jobs' = [ jobs EXCEPT ![j] = r ]
    BY <1>2
  <2> HIDE DEF r
  <2> QED BY <1>0, <2>1, <2>2, MovesTidy
<1>3. \/ jobs' = [ jobs EXCEPT ![j] = Done(jobs[j], "aborted") ]
      \/ jobs' = [ jobs EXCEPT ![j] = [ jobs[j] EXCEPT !.pc = "cleaning" ] ]
  BY DEF Abort, Step
<1> QED BY <1>1, <1>2, <1>3

LEMMA RequestTidy ==
  ASSUME TypeOK, AllTidy, NEW j \in Jobs, Request(j) PROVE Leaves(j)
<1> DEFINE r == [ jobs[j] EXCEPT !.pc = "queued" ]
<1>0. jobs[j] \in JobRecord /\ jobs[j].pc = "new"
  BY BeforeTidy DEF Request
<1>1. /\ r.pc = "queued" /\ r.at = jobs[j].at /\ r.completed = jobs[j].completed
      /\ r.failed = jobs[j].failed /\ r.unknown = jobs[j].unknown /\ r.status = jobs[j].status
  BY <1>0 DEF JobRecord
<1>2. jobs' = [ jobs EXCEPT ![j] = r ]
  BY DEF Request
<1> HIDE DEF r
<1> QED BY <1>0, <1>1, <1>2, MovesTidy

LEMMA GrantTidy ==
  ASSUME TypeOK, AllTidy, Grant PROVE AllTidy'
<1> DEFINE j == Head(waiting)
<1>1. /\ waiting # <<>> /\ waiting \in Seq(Jobs)
      /\ jobs' = [ jobs EXCEPT ![j] = Woken(jobs[j], "dial") ]
  BY DEF Grant, TypeOK
<1>2. j \in Jobs /\ 1 \in DOMAIN waiting /\ waiting[1] = j
  BY <1>1
<1> HIDE DEF j
<1>3. jobs[j].pc = "queued"
  BY <1>2 DEF TypeOK, LockAgrees
<1>4. "dial" \in Pcs \ {"done", "requesting"}
  BY DEF Pcs
<1> QED BY <1>1, <1>2, <1>3, <1>4, WakesTidy, LeavesTidy

\* A cancel event changes nothing of the result.
LEMMA SignalTidy ==
  ASSUME TypeOK, AllTidy, NEW c \in Callers, NEW pc, Signal(c, pc) PROVE AllTidy'
<1>1. ASSUME NEW j \in Calls PROVE Tidy(jobs'[j])
  <2>1. jobs[j] \in JobRecord /\ Tidy(jobs[j])
    BY BeforeTidy
  <2>2. jobs'[j] = jobs[j] \/ jobs'[j] = [ jobs[j] EXCEPT !.canceled = TRUE ]
    BY DEF Signal
  <2>3. LET r == jobs'[j] IN
        /\ r.pc = jobs[j].pc /\ r.at = jobs[j].at /\ r.completed = jobs[j].completed
        /\ r.failed = jobs[j].failed /\ r.unknown = jobs[j].unknown /\ r.status = jobs[j].status
    BY <2>1, <2>2 DEF JobRecord
  <2> QED BY <2>1, <2>3 DEF Tidy, Complete, Judged
<1> QED BY <1>1 DEF AllTidy

LEMMA InitTidy == Init => AllTidy
<1> SUFFICES ASSUME Init, NEW j \in Calls PROVE Tidy(jobs[j])
  BY DEF AllTidy
<1>1. jobs[j] = New
  BY DEF Init
<1>2. New.at - 1 = 0 /\ 1 .. 0 = {}
  BY DEF New
<1> QED BY <1>1, <1>2 DEF New, Tidy, Judged

LEMMA StepTidy == ASSUME TypeOK, AllTidy, [Next]_vars PROVE AllTidy'
<1>1. ASSUME NEW j \in Jobs, Dial(j) \/ Request(j) \/ JobStep(j) \/ Abort(j) PROVE AllTidy'
  BY <1>1, DialTidy, RequestTidy, JobStepTidy, AbortTidy, LeavesTidy
<1>2. CASE Grant
  BY <1>2, GrantTidy
<1>3. ASSUME NEW c \in Callers, CallerStep(c) PROVE AllTidy'
  <2>1. CASE jobs' = jobs
    BY <2>1 DEF AllTidy
  <2>2. CASE \E pc : Signal(c, pc)
    BY <2>2, SignalTidy
  <2> QED BY <1>3, <2>1, <2>2 DEF CallerStep, Hangup, Cancel, Tabled, Mark
<1>4. CASE \/ \E c \in Callers : \E target \in Ids \cup {HangUp, All} : Ask(c, target)
           \/ Outside \/ UNCHANGED vars
  <2>1. jobs' = jobs
    BY <1>4, OthersLine DEF Ask, vars
  <2> QED BY <2>1 DEF AllTidy
<1> QED BY <1>1, <1>2, <1>3, <1>4 DEF Next, Outside, Idle

\* The result of a batch that was not cancelled names each recipient it came to in exactly
\* one list, and it came to all of them unless failure_action stopped it at its first
\* failure; "success" means that all were reached, for any number of recipients and
\* retries (async_call_batch).
THEOREM BatchesCovered == Spec => []Covers
<1>1. Init => TypeOK /\ AllTidy
  BY InitTypes, InitTidy
<1>2. TypeOK /\ AllTidy /\ [Next]_vars => (TypeOK /\ AllTidy)'
  BY StepTypes, StepTidy
<1>3. TypeOK /\ AllTidy => Covers
  BY DEF AllTidy, Tidy, Complete, Judged, Covers
<1> QED BY <1>1, <1>2, <1>3, PTL DEF Spec

----------------------------------------------------------------------------
(* No call is left behind.                                                 *)

\* A call of the attempt that asked for it, which nobody has cancelled.
Owned(call) ==
  LET r == jobs[call[1]] IN r.pc \in Attempt \ {"clearing"} /\ r.at = call[2] /\ ~r.canceled

\* A call that a canceller still has to disconnect.
Doomed(call) == \E c \in Callers : callers[c].pc = "table" /\ IdOf[call[1]] \in callers[c].hit

\* Only cancelled batches are marked, or about to be.
Noted ==
  \A j \in Calls :
    \/ IdOf[j] \in marks
    \/ \E c \in Callers : callers[c].pc \in {"table", "marking"} /\ IdOf[j] \in callers[c].hit
    => (jobs[j].canceled \/ jobs[j].pc = "done")

Neat == online /\ (\A call \in Standing : Owned(call) \/ Doomed(call)) /\ Noted

\* A step of the lock's holder: its call is gone, was somebody else's to disconnect, or
\* is still of its attempt.
LEMMA RunNeat ==
  ASSUME TypeOK, Neat, NEW j \in Jobs, NEW r, Runs(j, r), Standing' \subseteq Standing, online' = online,
         \/ Standing' = {}
         \/ jobs[j].pc \notin Attempt \ {"clearing"}
         \/ jobs[j].canceled
         \/ r.pc \in Attempt \ {"clearing"} /\ r.at = jobs[j].at
  PROVE  Neat'
<1>1. /\ jobs' = [ jobs EXCEPT ![j] = r ] /\ jobs \in [ Jobs -> JobRecord ]
      /\ (r.canceled <=> jobs[j].canceled /\ r.pc # "done") /\ jobs[j].pc # "done"
      /\ callers' = callers /\ marks' \subseteq marks
  BY DEF Runs, Step, TypeOK, LockAgrees
<1>2. jobs'[j] = r /\ \A k \in Jobs \ {j} : jobs'[k] = jobs[k]
  BY <1>1
<1>3. Noted'
  BY <1>1, <1>2 DEF Neat, Noted
<1>4. ASSUME NEW call \in Standing' PROVE Owned(call)' \/ Doomed(call)'
  <2>1. call \in Standing /\ call[1] \in Jobs
    BY StandingIs
  <2>2. CASE Doomed(call)
    BY <1>1, <2>2 DEF Doomed
  <2>3. CASE Owned(call)
    BY <1>1, <1>2, <2>1, <2>3 DEF Owned
  <2> QED BY <2>1, <2>2, <2>3 DEF Neat
<1> QED BY <1>3, <1>4 DEF Neat

LEMMA DialNeat ==
  ASSUME TypeOK, Rest, Neat, NEW j \in Jobs, Dial(j) PROVE Neat'
<1>1. PICK r : Runs(j, r)
  BY DialRuns
<1>2. jobs[j].pc = "dial" /\ jobs[j] \in JobRecord /\ online /\ online' = online
  BY DEF Dial, Neat, TypeOK
<1>3. CASE j \in Ussd
  <2>1. Standing' \subseteq Standing /\ jobs[j].pc \notin Attempt
    BY <1>2, <1>3, DialLine DEF LineOf, Attempt
  <2> QED BY <1>1, <1>2, <2>1, RunNeat
<1>4. CASE j \in Calls
  <2> DEFINE q == [ jobs[j] EXCEPT !.tries = IF @ > MaxRetries THEN @ ELSE @ + 1 ]
             s == [ q EXCEPT !.pc = "dialing" ]
  <2>1. q \in JobRecord /\ q.at = jobs[j].at /\ q.canceled = jobs[j].canceled
    BY <1>2, CountsAssumption DEF JobRecord
  <2>2. jobs' = [ jobs EXCEPT ![j] = s ] /\ Standing' \subseteq Standing \cup {<<j, q.at>>}
        /\ callers' = callers /\ marks' \subseteq marks
    <3>1. Step(j, s) /\ callers' = callers
      BY <1>2, <1>4 DEF Dial
    <3>2. Standing' \subseteq Standing \cup {<<j, q.at>>}
      BY <2>1, DialLine DEF LineOf
    <3> HIDE DEF s
    <3> QED BY <3>1, <3>2 DEF Step
  <2> HIDE DEF q
  <2>3. s.pc = "dialing" /\ s.at = q.at /\ s.canceled = q.canceled
    BY <2>1 DEF JobRecord
  <2> HIDE DEF s
  <2>4. jobs'[j] = s /\ \A k \in Jobs \ {j} : jobs'[k] = jobs[k]
    BY <2>2 DEF TypeOK
  <2>5. ~jobs[j].canceled
    BY <1>2 DEF Rest, Heeded
  <2>6. Noted'
    BY <1>2, <2>1, <2>2, <2>3, <2>4 DEF Neat, Noted
  <2>7. ASSUME NEW call \in Standing' PROVE Owned(call)' \/ Doomed(call)'
    <3>1. CASE call = <<j, q.at>>
      BY <2>1, <2>3, <2>4, <2>5, <3>1 DEF Owned, Attempt
    <3>2. CASE call # <<j, q.at>>
      <4>1. call \in Standing /\ call[1] \in Jobs
        BY <2>2, <3>2, StandingIs
      <4>2. CASE Doomed(call)
        BY <2>2, <4>2 DEF Doomed
      <4>3. CASE Owned(call)
        BY <1>2, <2>4, <4>1, <4>3 DEF Owned, Attempt
      <4> QED BY <4>1, <4>2, <4>3 DEF Neat
    <3> QED BY <3>1, <3>2
  <2> QED BY <1>2, <2>6, <2>7 DEF Neat
<1> QED BY <1>3, <1>4

\* A job that does not look like cancelled stays in its attempt.
LEMMA StaysNeat ==
  ASSUME TypeOK, Neat, NEW j \in Jobs, NEW pc \in Attempt \ {"clearing"},
         jobs[j].pc \notin {"new", "queued", "done"}, Step(j, Woken(jobs[j], pc)),
         UNCHANGED <<queued, waiting, callers, online, shown, sim>>
  PROVE  Neat'
<1>1. Runs(j, Woken(jobs[j], pc))
  BY WokenRuns DEF Pcs, Attempt
<1>0. Standing' \subseteq Standing
  BY SameLine
<1>2. CASE jobs[j].canceled
  BY <1>0, <1>1, <1>2, RunNeat
<1>3. CASE ~jobs[j].canceled
  <2>1. jobs[j] \in JobRecord
    BY DEF TypeOK
  <2>2. Woken(jobs[j], pc) = [ jobs[j] EXCEPT !.pc = pc ]
    BY <1>3 DEF Woken
  <2>3. Woken(jobs[j], pc).pc = pc /\ Woken(jobs[j], pc).at = jobs[j].at
    BY <2>1, <2>2 DEF JobRecord
  <2> QED BY <1>0, <1>1, <2>3, RunNeat
<1> QED BY <1>2, <1>3

LEMMA JobStepNeat ==
  ASSUME TypeOK, Neat, NEW j \in Jobs, JobStep(j) PROVE Neat'
<1>1. PICK r : Runs(j, r)
  BY JobStepRuns
<1>2. Standing' \subseteq Standing
  BY JobStepLine
<1>3. CASE Requested(j) \/ Cleared(j) \/ Slept(j) \/ Cleaned(j)
  <2>1. online' = online /\ jobs[j].pc \notin Attempt \ {"clearing"}
    BY <1>3 DEF Requested, Cleared, Slept, Cleaned, Attempt
  <2> QED BY <1>1, <1>2, <2>1, RunNeat
<1>4. CASE Dialed(j)
  <2> DEFINE Pc(tracked) == CASE ~tracked -> "blind" [] tracked /\ shown -> "talking" [] OTHER -> "ringing"
  <2>1. PICK tracked \in Tracking : Step(j, Woken(jobs[j], Pc(tracked)))
    BY <1>4 DEF Dialed
  <2> DEFINE pc == Pc(tracked)
  <2>2. pc \in Attempt \ {"clearing"}
    BY DEF Attempt
  <2>3. Step(j, Woken(jobs[j], pc)) /\ jobs[j].pc = "dialing"
        /\ UNCHANGED <<queued, waiting, callers, online, shown, sim>>
    BY <1>4, <2>1 DEF Dialed, sim
  <2> HIDE DEF pc, Pc
  <2> QED BY <2>2, <2>3, StaysNeat
<1>5. CASE Rung(j)
  <2>1. CASE jobs[j].canceled \/ shown
    <3>1. Step(j, Woken(jobs[j], "talking")) /\ jobs[j].pc = "ringing" /\ "talking" \in Attempt \ {"clearing"}
          /\ UNCHANGED <<queued, waiting, callers, online, shown, sim>>
      BY <1>5, <2>1 DEF Rung, sim, Attempt
    <3> QED BY <3>1, StaysNeat
  <2>2. CASE ~(jobs[j].canceled \/ shown)
    <3>1. Standing' = {} /\ online' = online
      BY <1>5, <2>2, DisconnectLine DEF Rung, HangsUp, Neat
    <3> QED BY <1>1, <1>2, <3>1, RunNeat
  <2> QED BY <2>1, <2>2
<1>6. CASE Talked(j)
  <2>1. jobs[j].canceled \/ Standing' = {}
    BY <1>6, DisconnectLine DEF Talked, HangsUp, Neat
  <2>2. online' = online
    BY <1>6 DEF Talked
  <2> QED BY <1>1, <1>2, <2>1, <2>2, RunNeat
<1> QED BY <1>3, <1>4, <1>5, <1>6 DEF JobStep

\* A cancelled task disconnects, or a mark says that its batch was cancelled before.
LEMMA AbortNeat ==
  ASSUME TypeOK, Neat, NEW j \in Jobs, Abort(j), jobs[j].pc # "queued" PROVE Neat'
<1>1. PICK r : Runs(j, r)
  BY AbortRuns
<1>2. Standing' \subseteq Standing /\ online' = online
  BY AbortLine DEF Abort
<1>3. CASE Owes(j)
  <2>1. Standing' = {}
    BY <1>3, DisconnectLine DEF Abort, Neat
  <2> QED BY <1>1, <1>2, <2>1, RunNeat
<1>4. CASE ~Owes(j) /\ j \in Calls
  <2>1. jobs[j].pc \notin Attempt \ {"clearing"} \/ jobs[j].canceled
    BY <1>4 DEF Owes, Attempt, Neat, Noted
  <2> QED BY <1>1, <1>2, <2>1, RunNeat
<1>5. CASE ~Owes(j) /\ j \in Ussd
  <2>1. ASSUME NEW call \in Standing' PROVE Owned(call)' \/ Doomed(call)'
    <3>1. call \in Standing /\ call[1] \in Jobs /\ call[1] # j
      BY <1>2, <1>5, StandingIs
    <3>2. jobs'[call[1]] = jobs[call[1]] /\ callers' = callers
      BY <1>1, <3>1 DEF Runs, Step, TypeOK
    <3> QED BY <3>1, <3>2 DEF Neat, Owned, Doomed
  <2>2. Noted'
    <3>1. marks' \subseteq marks /\ callers' = callers /\ \A k \in Calls : jobs'[k] = jobs[k]
      BY <1>1, <1>5 DEF Runs, Step, TypeOK
    <3> QED BY <3>1 DEF Neat, Noted
  <2> QED BY <1>2, <2>1, <2>2 DEF Neat
<1> QED BY <1>3, <1>4, <1>5

\* Jobs that come, wait and leave the queue have no call, and keep their cancel event.
LEMMA QueueNeat ==
  ASSUME TypeOK, Neat, callers' = callers, Standing' \subseteq Standing, online' = online, marks' \subseteq marks,
         \A k \in Jobs : /\ jobs[k].canceled \/ jobs[k].pc = "done" => jobs'[k].canceled \/ jobs'[k].pc = "done"
                         /\ jobs[k].pc \in Attempt => jobs'[k] = jobs[k]
  PROVE  Neat'
<1>1. Noted'
  BY DEF Neat, Noted
<1>2. ASSUME NEW call \in Standing' PROVE Owned(call)' \/ Doomed(call)'
  <2>1. call \in Standing /\ call[1] \in Jobs
    BY StandingIs
  <2> QED BY <2>1 DEF Neat, Owned, Doomed
<1> QED BY <1>1, <1>2 DEF Neat

LEMMA RequestNeat ==
  ASSUME TypeOK, Neat, NEW j \in Jobs, Request(j) PROVE Neat'
<1>1. /\ jobs[j].pc = "new" /\ jobs' = [ jobs EXCEPT ![j].pc = "queued" ]
      /\ jobs \in [ Jobs -> JobRecord ]
  BY DEF Request, TypeOK
<1>2. jobs'[j].canceled = jobs[j].canceled /\ \A k \in Jobs \ {j} : jobs'[k] = jobs[k]
  BY <1>1 DEF JobRecord
<1>3. \A k \in Jobs : /\ jobs[k].canceled \/ jobs[k].pc = "done" => jobs'[k].canceled \/ jobs'[k].pc = "done"
                      /\ jobs[k].pc \in Attempt => jobs'[k] = jobs[k]
  BY <1>1, <1>2 DEF Attempt
<1>4. callers' = callers /\ Standing' \subseteq Standing /\ online' = online /\ marks' \subseteq marks
  BY SameLine DEF Request
<1> QED BY <1>3, <1>4, QueueNeat

LEMMA GrantNeat ==
  ASSUME TypeOK, Neat, Grant PROVE Neat'
<1> DEFINE j == Head(waiting)
<1>1. /\ waiting # <<>> /\ waiting \in Seq(Jobs) /\ jobs \in [ Jobs -> JobRecord ]
      /\ jobs' = [ jobs EXCEPT ![j] = Woken(jobs[j], "dial") ]
  BY DEF Grant, TypeOK
<1>2. j \in Jobs /\ 1 \in DOMAIN waiting /\ waiting[1] = j
  BY <1>1
<1> HIDE DEF j
<1>3. jobs[j].pc = "queued"
  BY <1>2 DEF TypeOK, LockAgrees
<1>4. (jobs[j].canceled => jobs'[j].pc = "done") /\ \A k \in Jobs \ {j} : jobs'[k] = jobs[k]
  BY <1>1, <1>2, WokenIs DEF Pcs
<1>5. \A k \in Jobs : /\ jobs[k].canceled \/ jobs[k].pc = "done" => jobs'[k].canceled \/ jobs'[k].pc = "done"
                      /\ jobs[k].pc \in Attempt => jobs'[k] = jobs[k]
  BY <1>3, <1>4 DEF Attempt
<1>6. callers' = callers /\ Standing' \subseteq Standing /\ online' = online /\ marks' \subseteq marks
  BY SameLine DEF Grant
<1> QED BY <1>5, <1>6, QueueNeat

LEMMA LeaveNeat ==
  ASSUME TypeOK, Neat, NEW j \in Jobs, Abort(j), jobs[j].pc = "queued" PROVE Neat'
<1>1. /\ jobs' = [ jobs EXCEPT ![j] = Done(jobs[j], "aborted") ] /\ jobs \in [ Jobs -> JobRecord ]
  BY DEF Abort, TypeOK
<1>2. jobs'[j].pc = "done" /\ \A k \in Jobs \ {j} : jobs'[k] = jobs[k]
  BY <1>1, DoneIs
<1>3. \A k \in Jobs : /\ jobs[k].canceled \/ jobs[k].pc = "done" => jobs'[k].canceled \/ jobs'[k].pc = "done"
                      /\ jobs[k].pc \in Attempt => jobs'[k] = jobs[k]
  BY <1>2 DEF Attempt
<1>4. callers' = callers /\ Standing' \subseteq Standing /\ online' = online /\ marks' \subseteq marks
  BY SameLine DEF Abort
<1> QED BY <1>3, <1>4, QueueNeat

\* What a hang-up or a cancellation signals, it has disconnected or will disconnect.
LEMMA SignalNeat ==
  ASSUME UniqueIds, TypeOK, Neat, NEW c \in Callers, NEW pc \in {"table", "marking"},
         Signal(c, pc), callers[c].pc = "asked", UNCHANGED <<lock, online>>, Standing' \subseteq Standing,
         pc = "marking" => Standing' = {}
  PROVE  Neat'
<1> DEFINE found == Registered \cap Meant(callers[c].target)
           hit == { IdOf[j] : j \in found \cap Calls }
           before == { j \in Calls \cap Meant(callers[c].target) : jobs[j].pc \notin {"new", "done"} }
<1>1. /\ jobs' = [ j \in Jobs |-> IF j \in found THEN [ jobs[j] EXCEPT !.canceled = TRUE ] ELSE jobs[j] ]
      /\ callers' = [ callers EXCEPT ![c].pc = pc, ![c].hit = hit, ![c].before = before ]
      /\ jobs \in [ Jobs -> JobRecord ] /\ callers \in [ Callers -> CallerRecord ]
      /\ marks' = marks
  BY DEF Signal, TypeOK, lock
<1>2. callers'[c].pc = pc /\ callers'[c].hit = hit /\ \A d \in Callers \ {c} : callers'[d] = callers[d]
  BY <1>1 DEF CallerRecord
<1>3. ASSUME NEW k \in Jobs
      PROVE  /\ jobs'[k].pc = jobs[k].pc /\ jobs'[k].at = jobs[k].at
             /\ jobs[k].canceled => jobs'[k].canceled
             /\ k \in found => jobs'[k].canceled
             /\ k \notin found => jobs'[k] = jobs[k]
  <2>1. jobs[k] \in JobRecord
    BY <1>1
  <2> QED BY <1>1, <2>1 DEF JobRecord
<1>4. ASSUME NEW k \in Calls, IdOf[k] \in hit PROVE k \in found
  BY <1>4 DEF UniqueIds
<1>5. ASSUME NEW k \in Calls, k \in found PROVE IdOf[k] \in hit
  BY <1>5
<1> HIDE DEF found, hit, before
<1>6. Noted'
  <2>1. ASSUME NEW k \in Calls, IdOf[k] \in marks' PROVE jobs'[k].canceled \/ jobs'[k].pc = "done"
    BY <1>1, <1>3, <2>1 DEF Neat, Noted
  <2>2. ASSUME NEW k \in Calls, NEW d \in Callers, callers'[d].pc \in {"table", "marking"},
               IdOf[k] \in callers'[d].hit
        PROVE  jobs'[k].canceled \/ jobs'[k].pc = "done"
    <3>1. CASE d = c
      BY <1>2, <1>3, <1>4, <2>2, <3>1
    <3>2. CASE d # c
      BY <1>2, <1>3, <2>2, <3>2 DEF Neat, Noted
    <3> QED BY <3>1, <3>2
  <2> QED BY <2>1, <2>2 DEF Noted
<1>7. ASSUME NEW call \in Standing' PROVE Owned(call)' \/ Doomed(call)'
  <2>1. call \in Standing /\ call[1] \in Calls /\ pc = "table"
    BY <1>7, StandingIs
  <2>2. CASE Doomed(call)
    <3>1. PICK d \in Callers : callers[d].pc = "table" /\ IdOf[call[1]] \in callers[d].hit
      BY <2>2 DEF Doomed
    <3> QED BY <1>2, <3>1 DEF Doomed
  <2>3. CASE Owned(call)
    <3>1. CASE call[1] \in found
      BY <1>2, <1>5, <2>1, <3>1 DEF Doomed
    <3>2. CASE call[1] \notin found
      BY <1>3, <2>1, <2>3, <3>2 DEF Owned
    <3> QED BY <3>1, <3>2
  <2> QED BY <2>1, <2>2, <2>3 DEF Neat
<1> QED BY <1>6, <1>7 DEF Neat

\* An answer to a caller, after the disconnect if it had a call to end.
LEMMA ReplyNeat ==
  ASSUME TypeOK, Neat, NEW c \in Callers, NEW pc \in {"marking", "answered", "refused"}, Reply(c, pc),
         callers[c].pc \in {"table", "marking"}, jobs' = jobs, online' = online, Standing' \subseteq Standing,
         \A i \in marks' \ marks : callers[c].pc = "marking" /\ i \in callers[c].hit,
         Standing' = {} \/ callers[c].pc = "marking" \/ callers[c].hit = {}
  PROVE  Neat'
<1>1. /\ callers'[c].pc = pc /\ callers'[c].hit = callers[c].hit
      /\ \A d \in Callers \ {c} : callers'[d] = callers[d]
  BY ReplyKeeps
<1>2. Noted'
  <2>1. ASSUME NEW k \in Calls, IdOf[k] \in marks' PROVE jobs'[k].canceled \/ jobs'[k].pc = "done"
    BY <2>1 DEF Neat, Noted
  <2>2. ASSUME NEW k \in Calls, NEW d \in Callers, callers'[d].pc \in {"table", "marking"},
               IdOf[k] \in callers'[d].hit
        PROVE  jobs'[k].canceled \/ jobs'[k].pc = "done"
    <3>1. callers[d].pc \in {"table", "marking"} /\ IdOf[k] \in callers[d].hit
      BY <1>1, <2>2
    <3> QED BY <3>1 DEF Neat, Noted
  <2> QED BY <2>1, <2>2 DEF Noted
<1>3. ASSUME NEW call \in Standing' PROVE Owned(call)' \/ Doomed(call)'
  <2>1. CASE Doomed(call)
    <3>1. PICK d \in Callers : callers[d].pc = "table" /\ IdOf[call[1]] \in callers[d].hit
      BY <2>1 DEF Doomed
    <3>2. d # c
      BY <1>3, <3>1
    <3> QED BY <1>1, <3>1, <3>2 DEF Doomed
  <2>2. CASE Owned(call)
    BY <2>2 DEF Owned
  <2> QED BY <1>3, <2>1, <2>2 DEF Neat
<1> QED BY <1>2, <1>3 DEF Neat

LEMMA CallerNeat ==
  ASSUME UniqueIds, ~StoreFails, TypeOK, Neat, NEW c \in Callers, CallerStep(c) PROVE Neat'
<1>0. Standing' \subseteq Standing
  BY CallerLine
<1>1. CASE Hangup(c)
  <2>1. Signal(c, "marking") /\ UNCHANGED <<lock, online>> /\ Standing' = {} /\ callers[c].pc = "asked"
    BY <1>1, DisconnectLine DEF Hangup, Neat
  <2> QED BY <1>0, <2>1, SignalNeat
<1>2. CASE Cancel(c)
  <2>1. Signal(c, "table") /\ UNCHANGED <<lock, online>> /\ callers[c].pc = "asked"
    BY <1>2 DEF Cancel
  <2> QED BY <1>0, <2>1, SignalNeat
<1>3. CASE Tabled(c)
  <2>1. callers[c].pc = "table" /\ jobs' = jobs /\ online' = online /\ marks' = marks
    BY <1>3 DEF Tabled, lock
  <2>2. \/ Reply(c, "refused") /\ callers[c].hit = {}
        \/ Reply(c, "answered") /\ callers[c].hit = {}
        \/ Reply(c, "marking") /\ Standing' = {}
    BY <1>3, DisconnectLine DEF Tabled, Neat
  <2> QED BY <1>0, <2>1, <2>2, ReplyNeat
<1>4. CASE Mark(c)
  <2>1. Reply(c, "answered") /\ callers[c].pc = "marking" /\ jobs' = jobs /\ online' = online
        /\ marks' \ marks \subseteq callers[c].hit
    BY <1>4 DEF Mark
  <2> QED BY <1>0, <2>1, ReplyNeat
<1> QED BY <1>1, <1>2, <1>3, <1>4 DEF CallerStep

LEMMA OthersNeat ==
  ASSUME ~Outages, TypeOK, Neat, Outside \/ UNCHANGED vars PROVE Neat'
<1>1. UNCHANGED <<jobs, lock, callers>> /\ Standing' \subseteq Standing
  BY OthersLine, SameLine DEF vars
<1>2. online' = online
  BY DEF Outside, SendDial, DialAnswered, Recover, HungUp, Answer, FarHangup, Publish, Connection, vars
<1>3. marks' = marks
  BY <1>1 DEF lock
<1> QED BY <1>1, <1>2, <1>3, QueueNeat

LEMMA AskNeat ==
  ASSUME TypeOK, Neat, NEW c \in Callers, NEW target \in Ids \cup {HangUp, All}, Ask(c, target)
  PROVE  Neat'
<1>1. /\ jobs' = jobs /\ marks' = marks /\ Standing' = Standing /\ online' = online /\ callers[c].pc = "idle"
      /\ callers'[c].pc = "asked" /\ \A d \in Callers \ {c} : callers'[d] = callers[d]
  BY AskKeeps DEF lock, Ask
<1>2. Noted'
  BY <1>1 DEF Neat, Noted
<1>3. ASSUME NEW call \in Standing' PROVE Owned(call)' \/ Doomed(call)'
  <2>1. CASE Doomed(call)
    <3>1. PICK d \in Callers : callers[d].pc = "table" /\ IdOf[call[1]] \in callers[d].hit
      BY <2>1 DEF Doomed
    <3> QED BY <1>1, <3>1 DEF Doomed
  <2>2. CASE Owned(call)
    BY <1>1, <2>2 DEF Owned
  <2> QED BY <1>1, <2>1, <2>2 DEF Neat
<1> QED BY <1>1, <1>2, <1>3 DEF Neat

LEMMA StepNeat ==
  ASSUME UniqueIds, ~Outages, ~StoreFails, TypeOK, Rest, Neat, [Next]_vars PROVE Neat'
<1>1. ASSUME NEW j \in Jobs, Abort(j) PROVE Neat'
  BY <1>1, AbortNeat, LeaveNeat
<1> QED BY <1>1, DialNeat, RequestNeat, JobStepNeat, GrantNeat, AskNeat, CallerNeat, OthersNeat
        DEF Next, Outside, Idle

\* While the connection and the store work and each batch has an id of its own, whichever
\* way an attempt ends it leaves no call behind, for any number of batches, retries and
\* callers: every way out of _perform_single_call_attempt and of async_call_batch, and the
\* mark by which a hang-up spares a cancelled task its disconnect.
THEOREM NothingLeftBehind ==
  ASSUME UniqueIds, ~Outages, ~StoreFails PROVE Spec => []CleanedUp
<1>1. Init => TypeOK /\ Rest /\ Neat
  <2>1. ASSUME Init PROVE Neat
    <3>1. Standing = {}
      BY <2>1 DEF Init, Standing
    <3>2. Noted /\ online
      BY <2>1 DEF Init, Noted, NoCall
    <3> QED BY <3>1, <3>2 DEF Neat
  <2> QED BY <2>1, InitTypes, InitRest
<1>2. TypeOK /\ Rest /\ Neat /\ [Next]_vars => (TypeOK /\ Rest /\ Neat)'
  BY StepTypes, StepRest, StepNeat
<1>3. Neat => CleanedUp
  BY DEF Neat, Owned, Doomed, CleanedUp
<1> QED BY <1>1, <1>2, <1>3, PTL DEF Spec

----------------------------------------------------------------------------
(* Who counts as reached.                                                  *)

\* What the batch believes of a recipient is true: before a dial nothing is taken, shown or
\* being hung up, and until a connection is seen no other call is taken.
Sincere(j) ==
  LET r    == jobs[j]
      took == <<j, r.at>> \in met
  IN
  /\ \A n \in r.completed : <<j, n>> \in met
  /\ r.pc = "clearing" /\ r.outcome = "connected" => took
  /\ r.pc = "talking" /\ ~r.canceled => took
  /\ r.pc = "dial" => answered = {} /\ ~shown
  /\ r.pc \in {"dialing", "ringing"} => answered \subseteq {<<j, r.at>>} /\ (shown => took)

Candid == ~astray => answered \subseteq met /\ \A j \in Calls : Sincere(j)

\* A verdict adds to the reached recipients only the present one, if it was connected.
LEMMA SettledReached ==
  ASSUME NEW r \in JobRecord
  PROVE  \A n \in Settled(r).completed : n \in r.completed \/ (r.outcome = "connected" /\ n = r.at)
<1> DEFINE c == [ r EXCEPT !.completed = @ \cup {r.at} ]
           u == [ r EXCEPT !.unknown = @ \cup {r.at} ]
           f == [ r EXCEPT !.failed = @ \cup {r.at} ]
<1>1. \A q \in JobRecord : Advance(q).completed = q.completed
  BY DEF Advance, Done, JobRecord
<1>2. /\ c \in JobRecord /\ u \in JobRecord /\ f \in JobRecord
      /\ c.completed = r.completed \cup {r.at} /\ u.completed = r.completed /\ f.completed = r.completed
  BY DEF JobRecord
<1> HIDE DEF c, u, f
<1>3. Retry(r).completed = r.completed
  <2>1. CASE RetryForever \/ r.tries <= MaxRetries
    BY <2>1 DEF Retry, Done, JobRecord
  <2>2. CASE ~(RetryForever \/ r.tries <= MaxRetries)
    BY <1>1, <1>2, <2>2 DEF Retry, f
  <2> QED BY <2>1, <2>2
<1>4. CASE r.outcome = "connected"
  <2>1. Settled(r) = Advance(c)
    BY <1>4 DEF Settled, c
  <2> QED BY <1>1, <1>2, <1>4, <2>1
<1>5. CASE r.outcome = "unknown"
  <2>1. Settled(r) = Advance(u)
    BY <1>5 DEF Settled, u
  <2> QED BY <1>1, <1>2, <2>1
<1>6. CASE r.outcome \notin {"connected", "unknown"}
  BY <1>3, <1>6 DEF Settled
<1> QED BY <1>4, <1>5, <1>6

\* While nothing went astray, what was taken is remembered.
LEMMA Remembered ==
  ASSUME Candid, Record, ~astray'
  PROVE  /\ ~astray /\ ~Misleads /\ met \subseteq met' /\ answered' \subseteq met'
         /\ answered \subseteq met /\ \A j \in Calls : Sincere(j)
  BY DEF Candid, Record

\* A batch that stays where it is, while at most calls end or it is cancelled.
LEMMA CalmSincere ==
  ASSUME NEW j \in Jobs, Sincere(j), met \subseteq met', answered' \subseteq answered, shown' = shown,
         jobs[j].canceled => jobs'[j].canceled,
         jobs'[j].pc = jobs[j].pc, jobs'[j].at = jobs[j].at,
         jobs'[j].completed = jobs[j].completed, jobs'[j].outcome = jobs[j].outcome
  PROVE  Sincere(j)'
  BY DEF Sincere

\* The batch makes a step.
LEMMA MoveSincere ==
  ASSUME TypeOK, NEW j \in Jobs, Sincere(j), met \subseteq met', NEW r, jobs' = [ jobs EXCEPT ![j] = r ],
         \A n \in r.completed : n \in jobs[j].completed \/ <<j, n>> \in met,
         r.pc = "clearing" /\ r.outcome = "connected" => <<j, r.at>> \in met,
         r.pc = "talking" /\ ~r.canceled => <<j, r.at>> \in met,
         r.pc = "dial" => answered' = {} /\ ~shown',
         r.pc \in {"dialing", "ringing"} =>
           answered' \subseteq {<<j, r.at>>} /\ (shown' => <<j, r.at>> \in met)
  PROVE  Sincere(j)'
<1>1. jobs'[j] = r
  BY DEF TypeOK
<1> QED BY <1>1 DEF Sincere

\* A job that comes to its dial finds nothing taken or shown.
LEMMA DialIsClear ==
  ASSUME ~Misleads, NEW j \in Jobs, jobs[j].pc # "dial", jobs'[j].pc = "dial"
  PROVE  answered = {} /\ ~shown
  BY DEF Misleads

LEMMA EndSincere ==
  ASSUME TypeOK, NEW j \in Jobs, Sincere(j), met \subseteq met', NEW v,
         \/ jobs' = [ jobs EXCEPT ![j] = Done(jobs[j], v) ]
         \/ jobs' = [ jobs EXCEPT ![j] = [ jobs[j] EXCEPT !.pc = "cleaning" ] ]
         \/ jobs' = [ jobs EXCEPT ![j] = [ jobs[j] EXCEPT !.pc = "queued" ] ]
  PROVE  Sincere(j)'
<1>1. jobs[j] \in JobRecord
  BY DEF TypeOK
<1>2. \E r : jobs' = [ jobs EXCEPT ![j] = r ] /\ r.pc \in {"done", "cleaning", "queued"}
             /\ r.completed = jobs[j].completed
  <2>1. Done(jobs[j], v).pc = "done" /\ Done(jobs[j], v).completed = jobs[j].completed
    BY <1>1 DEF Done, JobRecord
  <2>2. \A pc : [ jobs[j] EXCEPT !.pc = pc ].pc = pc
                /\ [ jobs[j] EXCEPT !.pc = pc ].completed = jobs[j].completed
    BY <1>1 DEF JobRecord
  <2>3. CASE jobs' = [ jobs EXCEPT ![j] = Done(jobs[j], v) ]
    BY <2>1, <2>3
  <2>4. CASE jobs' = [ jobs EXCEPT ![j] = [ jobs[j] EXCEPT !.pc = "cleaning" ] ]
    BY <2>2, <2>4
  <2>5. CASE jobs' = [ jobs EXCEPT ![j] = [ jobs[j] EXCEPT !.pc = "queued" ] ]
    BY <2>2, <2>5
  <2> QED BY <2>3, <2>4, <2>5
<1> QED BY <1>2, MoveSincere

\* A wait ends.
LEMMA WokenSincere ==
  ASSUME TypeOK, NEW j \in Jobs, Sincere(j), met \subseteq met', ~Misleads,
         NEW pc \in {"dial", "blind", "talking", "ringing"}, jobs[j].pc # "dial",
         jobs' = [ jobs EXCEPT ![j] = Woken(jobs[j], pc) ], UNCHANGED <<shown, answered>>,
         ~jobs[j].canceled =>
           /\ pc = "talking" => <<j, jobs[j].at>> \in met
           /\ pc = "ringing" => answered \subseteq {<<j, jobs[j].at>>} /\ (shown => <<j, jobs[j].at>> \in met)
  PROVE  Sincere(j)'
<1>1. CASE jobs[j].canceled
  BY <1>1, EndSincere DEF Woken
<1>2. CASE ~jobs[j].canceled
  <2> DEFINE r == [ jobs[j] EXCEPT !.pc = pc ]
  <2>1. jobs' = [ jobs EXCEPT ![j] = r ]
    BY <1>2 DEF Woken
  <2>2. /\ r.pc = pc /\ r.at = jobs[j].at /\ r.completed = jobs[j].completed
        /\ r.canceled = jobs[j].canceled
    BY DEF TypeOK, JobRecord
  <2>3. jobs'[j] = r
    BY <2>1 DEF TypeOK
  <2> HIDE DEF r
  <2>4. r.pc = "dial" => answered' = {} /\ ~shown'
    BY <2>2, <2>3, DialIsClear
  <2> QED BY <1>2, <2>1, <2>2, <2>4, MoveSincere
<1> QED BY <1>1, <1>2

\* The verdict on an attempt: the call is credited if it was taken.
LEMMA SettledSincere ==
  ASSUME TypeOK, NEW j \in Jobs, Sincere(j), met \subseteq met', ~Misleads,
         NEW q \in JobRecord, jobs' = [ jobs EXCEPT ![j] = Settled(q) ], UNCHANGED <<shown, answered>>,
         q.at = jobs[j].at, q.completed = jobs[j].completed,
         q.outcome = "connected" => <<j, q.at>> \in met
  PROVE  Sincere(j)'
<1> DEFINE r == Settled(q)
<1>1. r.pc \in {"delay", "pause", "dial", "done"}
  BY SettledIs DEF Follows
<1>2. \A n \in r.completed : n \in jobs[j].completed \/ <<j, n>> \in met
  BY SettledReached
<1>3. jobs'[j] = r /\ jobs' = [ jobs EXCEPT ![j] = r ]
  BY DEF TypeOK
<1> HIDE DEF r
<1>4. r.pc = "dial" => answered' = {} /\ ~shown'
  <2>1. CASE jobs[j].pc = "dial"
    BY <2>1 DEF Sincere
  <2>2. CASE jobs[j].pc # "dial"
    BY <1>3, <2>2, DialIsClear
  <2> QED BY <2>1, <2>2
<1> QED BY <1>1, <1>2, <1>3, <1>4, MoveSincere

\* The attempt ends with a disconnect, or with the error it raises.
LEMMA HangsUpSincere ==
  ASSUME TypeOK, NEW j \in Jobs, Sincere(j), met \subseteq met', ~Misleads, NEW v, HangsUp(j, v),
         UNCHANGED shown, v = "connected" => <<j, jobs[j].at>> \in met
  PROVE  Sincere(j)'
<1>1. jobs[j] \in JobRecord
  BY DEF TypeOK
<1>2. CASE online
  <2> DEFINE r == [ jobs[j] EXCEPT !.pc = "clearing", !.outcome = v ]
  <2>1. jobs' = [ jobs EXCEPT ![j] = r ]
    BY <1>2 DEF HangsUp, Step
  <2>2. r.pc = "clearing" /\ r.outcome = v /\ r.at = jobs[j].at /\ r.completed = jobs[j].completed
    BY <1>1 DEF JobRecord
  <2> HIDE DEF r
  <2> QED BY <2>1, <2>2, MoveSincere
<1>3. CASE ~online
  <2> DEFINE q == [ jobs[j] EXCEPT !.outcome = "failed" ]
  <2>1. jobs' = [ jobs EXCEPT ![j] = Settled(q) ] /\ UNCHANGED <<shown, answered>>
    BY <1>3 DEF HangsUp, Step, sim
  <2>2. q \in JobRecord /\ q.at = jobs[j].at /\ q.completed = jobs[j].completed /\ q.outcome = "failed"
    BY <1>1 DEF JobRecord
  <2> HIDE DEF q
  <2> QED BY <2>1, <2>2, SettledSincere
<1> QED BY <1>2, <1>3

LEMMA DialSincere ==
  ASSUME TypeOK, NEW j \in Calls, Sincere(j), met \subseteq met', ~Misleads, Dial(j)
  PROVE  Sincere(j)'
<1> DEFINE q == [ jobs[j] EXCEPT !.tries = IF @ > MaxRetries THEN @ ELSE @ + 1 ]
<1>1. jobs[j] \in JobRecord /\ jobs[j].pc = "dial" /\ answered = {} /\ ~shown /\ shown' = shown
  BY DEF Dial, TypeOK, Sincere
<1>2. q \in JobRecord /\ q.at = jobs[j].at /\ q.completed = jobs[j].completed
  BY <1>1, CountsAssumption DEF JobRecord
<1>3. CASE online
  <2> DEFINE r == [ q EXCEPT !.pc = "dialing" ]
  <2>1. jobs' = [ jobs EXCEPT ![j] = r ] /\ answered' = answered
    BY <1>3 DEF Dial, Step, Take
  <2> HIDE DEF q
  <2>2. r.pc = "dialing" /\ r.at = q.at /\ r.completed = q.completed
    BY <1>2 DEF JobRecord
  <2> HIDE DEF r
  <2> QED BY <1>1, <1>2, <2>1, <2>2, MoveSincere
<1>4. CASE ~online
  <2> DEFINE r == [ q EXCEPT !.outcome = "failed" ]
  <2>1. jobs' = [ jobs EXCEPT ![j] = Settled(r) ] /\ answered' = answered
    BY <1>4 DEF Dial, Step, sim
  <2> HIDE DEF q
  <2>2. r \in JobRecord /\ r.at = q.at /\ r.completed = q.completed /\ r.outcome = "failed"
    BY <1>2 DEF JobRecord
  <2> HIDE DEF r
  <2> QED BY <1>1, <1>2, <2>1, <2>2, SettledSincere
<1> QED BY <1>3, <1>4

LEMMA JobStepSincere ==
  ASSUME TypeOK, NEW j \in Jobs, Sincere(j), met \subseteq met', ~Misleads, JobStep(j)
  PROVE  Sincere(j)'
<1>0. shown' = shown
  BY DEF JobStep, Requested, Dialed, Rung, Talked, Cleared, Slept, Cleaned
<1>1. CASE Requested(j) \/ Cleaned(j)
  BY <1>1, EndSincere DEF Requested, Cleaned, Step
<1>2. CASE Dialed(j)
  <2> DEFINE Pc(tracked) == CASE ~tracked -> "blind" [] tracked /\ shown -> "talking" [] OTHER -> "ringing"
  <2>1. PICK tracked \in Tracking : jobs' = [ jobs EXCEPT ![j] = Woken(jobs[j], Pc(tracked)) ]
    BY <1>2 DEF Dialed, Step
  <2> DEFINE pc == Pc(tracked)
  <2>2. pc \in {"blind", "talking", "ringing"} /\ (pc = "talking" => shown)
    OBVIOUS
  <2>3. jobs' = [ jobs EXCEPT ![j] = Woken(jobs[j], pc) ] /\ jobs[j].pc = "dialing" /\ answered' = answered
    BY <1>2, <2>1 DEF Dialed, sim
  <2> HIDE DEF pc, Pc
  <2>4. answered \subseteq {<<j, jobs[j].at>>} /\ (shown => <<j, jobs[j].at>> \in met)
    BY <2>3 DEF Sincere
  <2> QED BY <1>0, <2>2, <2>3, <2>4, WokenSincere
<1>3. CASE Rung(j)
  <2>1. CASE jobs[j].canceled \/ shown
    <3>1. jobs' = [ jobs EXCEPT ![j] = Woken(jobs[j], "talking") ] /\ answered' = answered
          /\ jobs[j].pc = "ringing"
      BY <1>3, <2>1 DEF Rung, Step, sim
    <3>2. ~jobs[j].canceled => <<j, jobs[j].at>> \in met
      BY <2>1, <3>1 DEF Sincere
    <3> QED BY <1>0, <3>1, <3>2, WokenSincere
  <2>2. CASE ~(jobs[j].canceled \/ shown)
    BY <1>0, <1>3, <2>2, HangsUpSincere DEF Rung, Missed
  <2> QED BY <2>1, <2>2
<1>4. CASE Talked(j)
  <2>1. CASE jobs[j].canceled
    BY <1>4, <2>1, EndSincere DEF Talked, Step
  <2>2. CASE ~jobs[j].canceled
    <3> DEFINE v == IF jobs[j].pc = "blind" THEN "unknown" ELSE "connected"
    <3>1. HangsUp(j, v)
      BY <1>4, <2>2 DEF Talked
    <3>2. v = "connected" => <<j, jobs[j].at>> \in met
      BY <1>4, <2>2 DEF Talked, Sincere
    <3> HIDE DEF v
    <3> QED BY <1>0, <3>1, <3>2, HangsUpSincere
  <2> QED BY <2>1, <2>2
<1>5. CASE Cleared(j)
  <2>1. /\ jobs' = [ jobs EXCEPT ![j] = Settled(jobs[j]) ] /\ answered' = answered
        /\ jobs[j].pc = "clearing" /\ jobs[j] \in JobRecord
    BY <1>5 DEF Cleared, Step, sim, TypeOK
  <2>2. jobs[j].outcome = "connected" => <<j, jobs[j].at>> \in met
    BY <2>1 DEF Sincere
  <2> QED BY <1>0, <2>1, <2>2, SettledSincere
<1>6. CASE Slept(j)
  <2>1. jobs' = [ jobs EXCEPT ![j] = Woken(jobs[j], "dial") ] /\ answered' = answered /\ jobs[j].pc # "dial"
    BY <1>6 DEF Slept, Step, sim
  <2> QED BY <1>0, <2>1, WokenSincere
<1> QED BY <1>1, <1>2, <1>3, <1>4, <1>5, <1>6 DEF JobStep

LEMMA OwnSincere ==
  ASSUME TypeOK, NEW j \in Calls, Sincere(j), met \subseteq met', ~Misleads,
         Dial(j) \/ Request(j) \/ JobStep(j) \/ Abort(j)
  PROVE  Sincere(j)'
<1>1. CASE Request(j)
  <2>1. jobs' = [ jobs EXCEPT ![j] = [ jobs[j] EXCEPT !.pc = "queued" ] ]
    BY <1>1 DEF Request, TypeOK
  <2> QED BY <2>1, EndSincere
<1>2. CASE Abort(j)
  <2>1. \/ jobs' = [ jobs EXCEPT ![j] = Done(jobs[j], "aborted") ]
        \/ jobs' = [ jobs EXCEPT ![j] = [ jobs[j] EXCEPT !.pc = "cleaning" ] ]
    BY <1>2 DEF Abort, Step
  <2> QED BY <2>1, EndSincere
<1> QED BY <1>1, <1>2, DialSincere, JobStepSincere

\* A step of another job leaves the batch alone.
LEMMA OtherSincere ==
  ASSUME TypeOK, NEW b \in Calls, Sincere(b), met \subseteq met', NEW j \in Jobs \ {b},
         Dial(j) \/ Request(j) \/ JobStep(j) \/ Abort(j)
  PROVE  Sincere(b)'
<1>1. jobs'[b] = jobs[b]
  <2>1. CASE Request(j) \/ (Abort(j) /\ jobs[j].pc = "queued")
    BY <2>1 DEF Request, Abort, TypeOK
  <2>2. CASE \E r : Runs(j, r)
    BY <2>2 DEF Runs, Step, TypeOK
  <2> QED BY <2>1, <2>2, DialRuns, JobStepRuns, AbortRuns
<1>2. shown' = shown /\ answered' = answered
  <2>1. CASE Dial(j)
    BY <2>1 DEF Dial, Take, sim
  <2>2. CASE Request(j) \/ Abort(j)
    BY <2>2 DEF Request, Abort, Disconnect, sim
  <2>3. CASE JobStep(j)
    BY <2>3 DEF JobStep, Requested, Dialed, Rung, Talked, HangsUp, Cleared, Slept, Cleaned, Disconnect, sim
  <2> QED BY <2>1, <2>2, <2>3
<1> QED BY <1>1, <1>2, CalmSincere

LEMMA GrantSincere ==
  ASSUME TypeOK, NEW b \in Calls, Sincere(b), met \subseteq met', ~Misleads, Grant PROVE Sincere(b)'
<1> DEFINE j == Head(waiting)
<1>1. /\ waiting # <<>> /\ waiting \in Seq(Jobs) /\ UNCHANGED <<shown, answered>>
      /\ jobs' = [ jobs EXCEPT ![j] = Woken(jobs[j], "dial") ] /\ jobs \in [ Jobs -> JobRecord ]
  BY DEF Grant, sim, TypeOK
<1>2. j \in Jobs /\ 1 \in DOMAIN waiting /\ waiting[1] = j
  BY <1>1
<1> HIDE DEF j
<1>3. jobs[j].pc = "queued"
  BY <1>2 DEF TypeOK, LockAgrees
<1>4. CASE j = b
  BY <1>1, <1>3, <1>4, WokenSincere
<1>5. CASE j # b
  <2>1. jobs'[b] = jobs[b]
    BY <1>1, <1>2, <1>5
  <2> QED BY <1>1, <2>1, CalmSincere
<1> QED BY <1>4, <1>5

LEMMA CallerSincere ==
  ASSUME TypeOK, NEW b \in Calls, Sincere(b), met \subseteq met', NEW c \in Callers,
         CallerStep(c) \/ \E target \in Ids \cup {HangUp, All} : Ask(c, target)
  PROVE  Sincere(b)'
<1>1. answered' = answered /\ shown' = shown
  BY DEF CallerStep, Hangup, Cancel, Tabled, Mark, Ask, Disconnect, sim
<1>2. jobs[b] \in JobRecord
  BY DEF TypeOK
<1>3. jobs'[b] = jobs[b] \/ jobs'[b] = [ jobs[b] EXCEPT !.canceled = TRUE ]
  <2>1. jobs' = jobs \/ \E pc : Signal(c, pc)
    BY DEF CallerStep, Hangup, Cancel, Tabled, Mark, Ask
  <2> QED BY <2>1 DEF Signal
<1>4. /\ jobs'[b].pc = jobs[b].pc /\ jobs'[b].at = jobs[b].at /\ jobs'[b].outcome = jobs[b].outcome
      /\ jobs'[b].completed = jobs[b].completed /\ (jobs[b].canceled => jobs'[b].canceled)
  BY <1>2, <1>3 DEF JobRecord
<1> QED BY <1>1, <1>4, CalmSincere

\* A call that is taken while a batch waits is its own; the sensor then shows that one.
LEMMA OutsideSincere ==
  ASSUME TypeOK, Yielded, NEW b \in Calls, Sincere(b), met \subseteq met', answered \subseteq met,
         ~Misleads, Outside
  PROVE  Sincere(b)'
<1>1. jobs' = jobs
  BY OthersLine
<1>2. CASE Answer
  <2>1. PICK call \in line \ answered : answered' = answered \cup {call} /\ shown' = shown
    BY <1>2 DEF Answer
  <2>2. jobs[b].pc \in {"dialing", "ringing"} => call = <<b, jobs[b].at>>
    BY <2>1 DEF Misleads
  <2> QED BY <1>1, <2>1, <2>2 DEF Sincere, Yielded
<1>3. CASE Publish
  <2>1. answered' = answered /\ shown' = (answered # {})
    BY <1>3 DEF Publish, sim
  <2>2. ASSUME jobs[b].pc \in {"dialing", "ringing"}, shown' PROVE <<b, jobs[b].at>> \in met
    BY <2>1, <2>2 DEF Sincere
  <2> QED BY <1>1, <2>1, <2>2 DEF Sincere, Yielded
<1>4. CASE SendDial \/ DialAnswered \/ Recover \/ HungUp \/ FarHangup \/ Connection
  <2>1. answered' \subseteq answered /\ shown' = shown
    BY <1>4 DEF SendDial, DialAnswered, Recover, HungUp, FarHangup, Connection, sim
  <2> QED BY <1>1, <2>1, CalmSincere
<1> QED BY <1>2, <1>3, <1>4 DEF Outside

LEMMA StepCandid ==
  ASSUME TypeOK, Candid, [ReachedNext]_reached PROVE Candid'
<1>1. CASE ReachedNext
  <2> SUFFICES ASSUME ~astray' PROVE answered' \subseteq met' /\ \A b \in Calls : Sincere(b)'
    BY DEF Candid
  <2>0. answered' \subseteq met'
    BY <1>1, Remembered DEF ReachedNext
  <2> SUFFICES ASSUME NEW b \in Calls PROVE Sincere(b)'
    BY <2>0
  <2>1. /\ ~Misleads /\ met \subseteq met' /\ answered' \subseteq met' /\ answered \subseteq met
        /\ Sincere(b)
    BY <1>1, Remembered DEF ReachedNext
  <2>2. ASSUME NEW j \in Jobs, Dial(j) \/ Request(j) \/ JobStep(j) \/ Abort(j) PROVE Sincere(b)'
    BY <2>1, <2>2, OwnSincere, OtherSincere
  <2>3. CASE Grant
    BY <2>1, <2>3, GrantSincere
  <2>4. ASSUME NEW c \in Callers, CallerStep(c) \/ \E target \in Ids \cup {HangUp, All} : Ask(c, target)
        PROVE  Sincere(b)'
    BY <2>1, <2>4, CallerSincere
  <2>5. CASE Yielded /\ Outside
    BY <2>1, <2>5, OutsideSincere
  <2>6. CASE UNCHANGED vars
    BY <2>1, <2>6, CalmSincere DEF vars, sim
  <2> QED BY <1>1, <2>1, <2>2, <2>3, <2>4, <2>5, <2>6 DEF ReachedNext, Next, Outside, Idle
<1>2. CASE UNCHANGED reached
  BY <1>2 DEF reached, vars, sim, Candid, Sincere
<1> QED BY <1>1, <1>2

\* The lists of a batch's result are true and complete, for any number of batches,
\* recipients, retries, callers, USSD requests and lost connections, with and without
\* delays: what counts as reached took a call of the batch unless the call sensor may have
\* shown another one, and each recipient it came to is in exactly one list
\* (_wait_for_call_connected, async_call_batch).
THEOREM ReachedTookACall == ReachedSpec => []HonestBatches
<1>1. ReachedInit => TypeOK /\ AllTidy /\ Candid
  <2>1. ReachedInit => Candid
    BY DEF ReachedInit, Init, New, Candid, Sincere
  <2> QED BY <2>1, InitTypes, InitTidy DEF ReachedInit
<1>2. TypeOK /\ AllTidy /\ Candid /\ [ReachedNext]_reached => (TypeOK /\ AllTidy /\ Candid)'
  <2>1. [ReachedNext]_reached => [Next]_vars
    BY DEF ReachedNext, reached
  <2> QED BY <2>1, StepTypes, StepTidy, StepCandid
<1>3. TypeOK /\ AllTidy /\ Candid => HonestBatches
  BY DEF AllTidy, Tidy, Complete, Judged, Covers, Candid, Sincere, HonestCalls, HonestBatches
<1> QED BY <1>1, <1>2, <1>3, PTL DEF ReachedSpec
=============================================================================
