----------------------------- MODULE TableProofs -----------------------------
(***************************************************************************)
(* Proof about the events for Home Assistant in the outbox table, for any  *)
(* events, limit of attempts, number of crashes and of store calls that    *)
(* raise: how often an event is delivered.  (The SMS jobs of the table are *)
(* the subject of OutboxProofs.)                                           *)
(***************************************************************************)
EXTENDS MCTable, TLAPS

RowType == [ status : HaEvents!Ended \cup {"absent", "lost", "accepted", "sending", "retry"},
             attempts : Nat, due : BOOLEAN ]

Types ==
  /\ jobs \in [ Events -> RowType ] /\ order \in Seq(Events) /\ inserting \subseteq Events
  /\ bridge \in [ pc : {"idle", "fire", "mark", "look", "count", "dead", "off"},
                  event : Events \cup {Nothing} ]
  /\ bridge.pc \in {"fire", "mark", "look"} => bridge.event \in Events
  /\ halts \in Nat
  /\ handled \in [ Events -> Nat ] /\ forwards \in [ Events -> Nat ]
  /\ smsJobs \in [ Events -> Nat ]

\* What an event may still cost: an attempt is counted before it is made, a row that may
\* be claimed is below the limit, and a restart gives an interrupted row one more attempt.
Counted(e) ==
  /\ handled[e] <= jobs[e].attempts
  /\ bridge.pc = "fire" /\ bridge.event = e => handled[e] + 1 <= jobs[e].attempts
  /\ jobs[e].attempts <= MaxTries + halts
  /\ jobs[e].status \in {"accepted", "retry"} => jobs[e].attempts + 1 <= MaxTries + halts
  /\ bridge.pc = "off"
       /\ jobs[e].status = "sending" => jobs[e].attempts + 1 <= MaxTries + halts

\* An event that is being inserted has no row; one without a row was not attempted, and
\* is not what the worker is at.
Fresh(e) ==
  /\ e \in inserting => jobs[e].status = "absent"
  /\ jobs[e].status = "absent" => jobs[e].attempts = 0
  /\ bridge.pc \in {"fire", "mark", "look"} /\ bridge.event = e => jobs[e].status # "absent"

\* A row is marked after its event was delivered.
Marked(e) ==
  /\ bridge.pc = "mark" /\ bridge.event = e => handled[e] >= 1
  /\ jobs[e].status = "sent" => handled[e] >= 1

\* Every forwarding task stands for one delivery, also while it holds the lock.
Held(e) == IF holder = e /\ holder # Nothing THEN 1 ELSE 0

Forwarded(e) == smsJobs[e] + forwards[e] + Held(e) <= handled[e]

Inv == Types /\ \A e \in Events : Counted(e) /\ Fresh(e) /\ Marked(e) /\ Forwarded(e)

----------------------------------------------------------------------------

LEMMA InvInit == ASSUME MaxTries \in Nat \ {0} PROVE HaEvents!Init => Inv
<1> SUFFICES ASSUME HaEvents!Init PROVE Inv
  OBVIOUS
<1>1. /\ jobs \in [ Events -> RowType ]
      /\ \A e \in Events : jobs[e].status = "absent" /\ jobs[e].attempts = 0
  BY DEF HaEvents!Init, HaEvents!Row, RowType
<1>2. bridge.pc = "idle" /\ bridge \in [ pc : {"idle"}, event : {Nothing} ]
  BY DEF HaEvents!Init, HaEvents!Worker
<1>3. Types
  BY <1>1, <1>2 DEF HaEvents!Init, Types
<1>4. \A e \in Events : Held(e) = 0
  BY DEF HaEvents!Init, Held
<1>5. ASSUME NEW e \in Events PROVE Counted(e) /\ Fresh(e) /\ Marked(e) /\ Forwarded(e)
  BY <1>1, <1>2, <1>4 DEF HaEvents!Init, Counted, Fresh, Marked, Forwarded
<1> QED BY <1>3, <1>5 DEF Inv

\* A row that is rewritten: the table keeps its type, the other rows are as they were.
LEMMA Rewritten ==
  ASSUME Types, NEW e \in Events, NEW r \in RowType, jobs' = [ jobs EXCEPT ![e] = r ]
  PROVE  jobs' \in [ Events -> RowType ] /\ jobs'[e] = r
           /\ \A x \in Events \ {e} : jobs'[x] = jobs[x]
  BY DEF Types

----------------------------------------------------------------------------
(* The bridge.                                                             *)

LEMMA HappenStep == ASSUME Inv, NEW e \in Events, HaEvents!Happen(e) PROVE Inv'
<1>1. /\ inserting' = inserting \cup {e} /\ jobs[e].status = "absent"
      /\ UNCHANGED <<jobs, order, bridge, halts, forwards, holder, smsJobs, handled>>
  BY DEF HaEvents!Happen, HaEvents!table, HaEvents!limits, HaEvents!home
<1> QED BY <1>1 DEF Inv, Types, Counted, Fresh, Marked, Forwarded, Held

LEMMA InsertStep == ASSUME MaxTries \in Nat \ {0}, Inv, NEW e \in Events,
  HaEvents!Insert(e) PROVE Inv'
<1> DEFINE kept == [ jobs[e] EXCEPT !.status = "accepted" ]
           gone == [ jobs[e] EXCEPT !.status = "lost" ]
<1>1. jobs[e] \in RowType /\ jobs[e].status = "absent" /\ jobs[e].attempts = 0
        /\ halts \in Nat
  BY DEF HaEvents!Insert, Inv, Types, Fresh
<1>2. /\ kept \in RowType /\ kept.status = "accepted" /\ kept.attempts = 0
      /\ gone \in RowType /\ gone.status = "lost" /\ gone.attempts = 0
  BY <1>1 DEF RowType
<1>3. PICK r \in {kept, gone} : jobs' = [ jobs EXCEPT ![e] = r ]
  BY DEF HaEvents!Insert
<1> HIDE DEF kept, gone
<1>4. /\ jobs' \in [ Events -> RowType ] /\ jobs'[e] = r
      /\ \A x \in Events \ {e} : jobs'[x] = jobs[x]
  BY <1>2, <1>3, Rewritten DEF Inv
<1>a. order' \in Seq(Events)
  <2>1. order \in Seq(Events)
    BY DEF Inv, Types
  <2>2. Append(order, e) \in Seq(Events)
    BY <2>1
  <2> QED BY <2>1, <2>2 DEF HaEvents!Insert
<1>5. /\ inserting' = inserting \ {e} /\ order' \in Seq(Events)
      /\ UNCHANGED <<bridge, halts, forwards, holder, smsJobs, handled>>
  BY <1>a DEF HaEvents!Insert, HaEvents!Raises, HaEvents!limits, HaEvents!home
<1>6. Types'
  BY <1>4, <1>5 DEF Inv, Types
<1>7. ASSUME NEW x \in Events PROVE (Counted(x) /\ Fresh(x) /\ Marked(x) /\ Forwarded(x))'
  <2>1. CASE x = e
    BY <1>1, <1>2, <1>4, <1>5, <2>1 DEF Inv, Types, Counted, Fresh, Marked, Forwarded, Held
  <2>2. CASE x # e
    <3>1. jobs'[x] = jobs[x]
      BY <1>4, <2>2
    <3> QED BY <1>5, <3>1 DEF Inv, Counted, Fresh, Marked, Forwarded, Held
  <2> QED BY <2>1, <2>2
<1> QED BY <1>6, <1>7 DEF Inv

\* The steps that rewrite one row and move the worker.
LEMMA WorkerStep ==
  ASSUME Inv, NEW e \in Events, NEW r \in RowType,
         jobs' = [ jobs EXCEPT ![e] = r ], MaxTries \in Nat,
         bridge' \in [ pc : {"fire", "count"}, event : Events \cup {Nothing} ],
         UNCHANGED <<order, inserting, halts, HaEvents!home, handled>>,
         bridge.pc # "off",
         bridge'.pc = "fire" => bridge'.event = e,
         r.status # "absent", jobs[e].status # "absent",
         jobs[e].attempts <= r.attempts, r.attempts <= MaxTries + halts,
         bridge'.pc = "fire" => jobs[e].attempts + 1 <= r.attempts,
         r.status \in {"accepted", "retry"} => r.attempts + 1 <= MaxTries + halts,
         r.status = "sent" => handled[e] >= 1
  PROVE  Inv'
<1>1. /\ jobs' \in [ Events -> RowType ] /\ jobs'[e] = r
      /\ \A x \in Events \ {e} : jobs'[x] = jobs[x]
  BY Rewritten DEF Inv
<1>2. Types'
  BY <1>1 DEF Inv, Types, HaEvents!home
<1>3. ASSUME NEW x \in Events PROVE (Counted(x) /\ Fresh(x) /\ Marked(x) /\ Forwarded(x))'
  <2>1. CASE x = e
    <3>1. /\ handled[e] \in Nat /\ handled[e] <= jobs[e].attempts /\ jobs[e].attempts \in Nat
          /\ r.attempts \in Nat /\ halts \in Nat /\ e \notin inserting
      BY DEF Inv, Types, RowType, Counted, Fresh
    <3>2. Counted(x)'
      BY <1>1, <2>1, <3>1 DEF Counted
    <3> QED BY <1>1, <2>1, <3>1, <3>2 DEF Inv, Fresh, Marked, Forwarded, Held, HaEvents!home
  <2>2. CASE x # e
    <3>1. jobs'[x] = jobs[x]
      BY <1>1, <2>2
    <3> QED BY <2>2, <3>1 DEF Inv, Counted, Fresh, Marked, Forwarded, Held, HaEvents!home
  <2> QED BY <2>1, <2>2
<1> QED BY <1>2, <1>3 DEF Inv

\* The steps that move the worker alone, after an error of the store.
LEMMA WorkerEnds ==
  ASSUME Inv, UNCHANGED <<HaEvents!table, inserting, halts, HaEvents!home, handled>>,
           bridge.pc # "off",
         bridge' \in [ pc : {"idle", "look", "count", "dead"},
           event : Events \cup {Nothing} ],
         bridge'.pc = "look" => bridge.pc = "mark" /\ bridge'.event = bridge.event
  PROVE  Inv'
<1>1. bridge'.pc \in {"idle", "look", "count", "dead"}
  OBVIOUS
<1>2. Types'
  BY <1>1 DEF Inv, Types, HaEvents!table, HaEvents!home
<1>3. ASSUME NEW x \in Events PROVE (Counted(x) /\ Fresh(x) /\ Marked(x) /\ Forwarded(x))'
  BY <1>1 DEF Inv, Counted, Fresh, Marked, Forwarded, Held, HaEvents!table, HaEvents!home
<1> QED BY <1>2, <1>3 DEF Inv

\* A claim counts an attempt.
LEMMA TakenIs ==
  ASSUME NEW row \in RowType
  PROVE  HaEvents!Taken(row) \in RowType /\ HaEvents!Taken(row).status = "sending"
           /\ HaEvents!Taken(row).attempts = row.attempts + 1
<1>1. HaEvents!Taken(row).status = "sending"
  BY DEF RowType, HaEvents!Taken
<1>2. HaEvents!Taken(row).attempts = row.attempts + 1
  BY DEF RowType, HaEvents!Taken
<1>3. HaEvents!Taken(row) \in RowType
  <2> DEFINE n == row.attempts + 1
  <2>1. n \in Nat
    BY DEF RowType
  <2>2. HaEvents!Taken(row) = [ row EXCEPT !.status = "sending", !.attempts = n ]
    BY DEF HaEvents!Taken
  <2> HIDE DEF n
  <2>3. [ row EXCEPT !.status = "sending", !.attempts = n ] \in RowType
    BY <2>1 DEF RowType
  <2> QED BY <2>2, <2>3
<1> QED BY <1>1, <1>2, <1>3

\* The row of the claimed event.
LEMMA ClaimRow ==
  ASSUME MaxTries \in Nat, Inv, NEW e \in Events, HaEvents!Ready(e),
         jobs' = [ jobs EXCEPT ![e] = HaEvents!Taken(@) ],
         bridge' = HaEvents!Worker("fire", e), bridge.pc = "idle",
         UNCHANGED <<order, inserting, halts, HaEvents!home, handled>>
  PROVE  Inv'
<1> DEFINE r == HaEvents!Taken(jobs[e])
<1>1. /\ jobs[e] \in RowType /\ jobs[e].attempts \in Nat
      /\ jobs[e].status \in {"accepted", "retry"}
  BY DEF Inv, Types, RowType, HaEvents!Ready
<1>2. r \in RowType /\ r.status = "sending" /\ r.attempts = jobs[e].attempts + 1
  BY <1>1, TakenIs
<1>3. jobs' = [ jobs EXCEPT ![e] = r ]
  OBVIOUS
<1>4. jobs[e].attempts + 1 <= MaxTries + halts
  BY <1>1 DEF Inv, Counted
<1>5. bridge' = [ pc |-> "fire", event |-> e ]
  BY DEF HaEvents!Worker
<1> HIDE DEF r
<1>6. /\ bridge' \in [ pc : {"fire"}, event : Events ]
      /\ bridge'.pc = "fire" /\ bridge'.event = e
  BY <1>5
<1>7. /\ jobs[e].attempts <= r.attempts /\ jobs[e].attempts + 1 <= r.attempts
      /\ r.attempts <= MaxTries + halts
  BY <1>1, <1>2, <1>4
<1> QED BY <1>1, <1>2, <1>3, <1>4, <1>6, <1>7, WorkerStep

LEMMA ClaimStep == ASSUME MaxTries \in Nat, Inv, HaEvents!Claim PROVE Inv'
<1>1. CASE HaEvents!Raises /\ bridge' = HaEvents!Worker("dead", Nothing) /\ UNCHANGED jobs
  <2>1. bridge' \in [ pc : {"dead"}, event : {Nothing} ]
    BY <1>1 DEF HaEvents!Worker
  <2> QED BY <1>1, <2>1, WorkerEnds DEF HaEvents!Claim, HaEvents!Raises, HaEvents!table
<1>2. ASSUME NEW i \in DOMAIN order, HaEvents!Ready(order[i]),
             jobs' = [ jobs EXCEPT ![order[i]] = HaEvents!Taken(@) ],
             bridge' = HaEvents!Worker("fire", order[i]), UNCHANGED HaEvents!limits
      PROVE  Inv'
  <2>1. order[i] \in Events
    BY DEF Inv, Types
  <2>2. bridge.pc = "idle" /\ UNCHANGED <<order, inserting, halts, HaEvents!home, handled>>
    BY <1>2 DEF HaEvents!Claim, HaEvents!limits
  <2> QED BY <1>2, <2>1, <2>2, ClaimRow
<1> QED BY <1>1, <1>2 DEF HaEvents!Claim

LEMMA FireStep == ASSUME MaxTries \in Nat, Inv, HaEvents!Fire PROVE Inv'
<1> DEFINE e == bridge.event
<1>1. e \in Events /\ bridge.pc = "fire" /\ UNCHANGED <<HaEvents!table, inserting,
        HaEvents!limits, holder, smsJobs>>
  BY DEF HaEvents!Fire, Inv, Types
<1>2. PICK taken, answered \in BOOLEAN :
        /\ answered => taken
        /\ IF taken
           THEN /\ handled' = [ handled EXCEPT ![e] = @ + 1 ]
                /\ forwards' = [ forwards EXCEPT ![e] = @ + 1 ]
           ELSE UNCHANGED <<handled, forwards>>
        /\ bridge' = [ bridge EXCEPT !.pc = IF answered THEN "mark" ELSE "look" ]
  BY DEF HaEvents!Fire
<1>3. /\ bridge' \in [ pc : {"mark", "look"}, event : Events \cup {Nothing} ]
      /\ bridge'.event = e /\ bridge'.pc = (IF answered THEN "mark" ELSE "look")
  BY <1>2 DEF Inv, Types
<1> HIDE DEF e
<1>4. /\ handled' \in [ Events -> Nat ] /\ forwards' \in [ Events -> Nat ]
      /\ \A x \in Events \ {e} : handled'[x] = handled[x] /\ forwards'[x] = forwards[x]
      /\ handled'[e] = handled[e] + (IF taken THEN 1 ELSE 0)
      /\ forwards'[e] = forwards[e] + (IF taken THEN 1 ELSE 0)
  <2>1. handled \in [ Events -> Nat ] /\ forwards \in [ Events -> Nat ]
    BY DEF Inv, Types
  <2>2. handled[e] \in Nat /\ forwards[e] \in Nat
    BY <1>1, <2>1
  <2>3. CASE taken
    BY <1>1, <1>2, <2>1, <2>2, <2>3
  <2>4. CASE ~taken
    BY <1>1, <1>2, <2>1, <2>2, <2>4
  <2> QED BY <2>3, <2>4
<1>5. Types'
  BY <1>1, <1>3, <1>4 DEF Inv, Types, HaEvents!table, HaEvents!limits
<1>6. ASSUME NEW x \in Events PROVE (Counted(x) /\ Fresh(x) /\ Marked(x) /\ Forwarded(x))'
  <2>1. Counted(x) /\ Fresh(x) /\ Marked(x) /\ Forwarded(x)
        /\ jobs[x].attempts \in Nat /\ handled[x] \in Nat /\ forwards[x] \in Nat
        /\ smsJobs[x] \in Nat /\ Held(x) \in {0, 1} /\ Held(x)' = Held(x)
    BY <1>1 DEF Inv, Types, RowType, Held
  <2>2. CASE x = e
    <3>1. handled[x] + 1 <= jobs[x].attempts
      BY <1>1, <2>1, <2>2 DEF Counted, e
    <3>2. answered => handled'[x] >= 1
      BY <1>2, <1>4, <2>1, <2>2
    <3>3. handled'[x] \in {handled[x], handled[x] + 1} /\ handled'[x] >= handled[x]
          /\ handled'[x] - handled[x] = forwards'[x] - forwards[x]
      BY <1>4, <2>1, <2>2
    <3>4. Counted(x)' /\ Fresh(x)'
      BY <1>1, <1>3, <2>1, <3>1, <3>3 DEF Counted, Fresh, HaEvents!table, HaEvents!limits
    <3>5. Marked(x)'
      BY <1>1, <1>3, <2>1, <3>2, <3>3 DEF Marked, HaEvents!table
    <3>6. Forwarded(x)'
      BY <1>1, <1>4, <2>1, <3>3 DEF Forwarded
    <3> QED BY <3>4, <3>5, <3>6
  <2>3. CASE x # e
    <3>1. handled'[x] = handled[x] /\ forwards'[x] = forwards[x] /\ bridge'.event # x
      BY <1>3, <1>4, <2>3
    <3> QED BY <1>1, <1>3, <2>1, <3>1 DEF Counted, Fresh, Marked, Forwarded, HaEvents!table,
          HaEvents!limits
  <2> QED BY <2>2, <2>3
<1> QED BY <1>5, <1>6 DEF Inv

LEMMA MarkStep == ASSUME MaxTries \in Nat, Inv, HaEvents!Mark PROVE Inv'
<1> DEFINE e == bridge.event
           r == [ jobs[e] EXCEPT !.status = "sent" ]
<1>1. e \in Events /\ bridge.pc = "mark" /\ UNCHANGED <<order, inserting, halts,
        HaEvents!home, handled>>
  BY DEF HaEvents!Mark, HaEvents!Raises, HaEvents!limits, Inv, Types
<1>2. CASE HaEvents!Raises /\ bridge' = [ bridge EXCEPT !.pc = "look" ] /\ UNCHANGED jobs
  <2>1. bridge' \in [ pc : {"look"}, event : Events ] /\ bridge'.event = e
    BY <1>1, <1>2 DEF Inv, Types
  <2> QED BY <1>1, <1>2, <2>1, WorkerEnds DEF HaEvents!table
<1>3. CASE jobs' = [ jobs EXCEPT ![bridge.event].status = "sent" ]
        /\ bridge' = HaEvents!Worker("count", Nothing)
  <2>1. jobs[e] \in RowType /\ jobs[e].attempts \in Nat
    BY <1>1 DEF Inv, Types, RowType
  <2>2. r \in RowType /\ r.status = "sent" /\ r.attempts = jobs[e].attempts
    BY <2>1 DEF RowType, HaEvents!Ended
  <2>3. jobs' = [ jobs EXCEPT ![e] = r ]
    BY <1>3
  <2>4. bridge' = [ pc |-> "count", event |-> Nothing ]
    BY <1>3 DEF HaEvents!Worker
  <2>5. handled[e] >= 1 /\ handled[e] <= jobs[e].attempts
          /\ jobs[e].attempts <= MaxTries + halts
        /\ (jobs[e].status = "absent" => jobs[e].attempts = 0) /\ handled[e] \in Nat
    BY <1>1 DEF Inv, Types, Counted, Fresh, Marked
  <2>6. jobs[e].status # "absent"
    BY <2>1, <2>5
  <2> HIDE DEF e, r
  <2>7. bridge' \in [ pc : {"count"}, event : {Nothing} ] /\ bridge'.pc = "count"
    BY <2>4
  <2>8. jobs[e].attempts <= r.attempts /\ r.attempts <= MaxTries + halts
    BY <2>1, <2>2, <2>5
  <2> QED BY <1>1, <2>2, <2>3, <2>5, <2>6, <2>7, <2>8, WorkerStep
<1> QED BY <1>2, <1>3 DEF HaEvents!Mark

LEMMA RecoverStep == ASSUME MaxTries \in Nat, Inv, HaEvents!Recover PROVE Inv'
<1> DEFINE e == bridge.event
           r == IF HaEvents!Again(jobs[e].attempts)
                THEN [ [ jobs[e] EXCEPT !.status = "retry" ] EXCEPT !.due = FALSE ]
                ELSE [ jobs[e] EXCEPT !.status = "failed" ]
<1>1. e \in Events /\ bridge.pc = "look" /\ UNCHANGED <<order, inserting, halts,
        HaEvents!home, handled>>
  BY DEF HaEvents!Recover, HaEvents!Raises, HaEvents!limits, Inv, Types
<1>2. CASE HaEvents!Raises /\ bridge' = HaEvents!Worker("dead", Nothing) /\ UNCHANGED jobs
  <2>1. bridge' \in [ pc : {"dead"}, event : {Nothing} ]
    BY <1>2 DEF HaEvents!Worker
  <2> QED BY <1>1, <1>2, <2>1, WorkerEnds DEF HaEvents!table
<1>3. CASE ~(HaEvents!Raises /\ bridge' = HaEvents!Worker("dead", Nothing) /\ UNCHANGED jobs)
  <2>1. jobs[e] \in RowType /\ jobs[e].attempts \in Nat /\ halts \in Nat
    BY <1>1 DEF Inv, Types, RowType
  <2>2. /\ r \in RowType /\ r.attempts = jobs[e].attempts /\ r.status \in {"retry", "failed"}
        /\ r.status = "retry" => jobs[e].attempts < MaxTries
    BY <2>1 DEF RowType, HaEvents!Ended, HaEvents!Again
  <2>3. jobs' = [ jobs EXCEPT ![e] = r ]
    BY <1>3 DEF HaEvents!Recover
  <2>4. bridge' = [ pc |-> "count", event |-> Nothing ]
    BY <1>3 DEF HaEvents!Recover, HaEvents!Worker
  <2>5. jobs[e].attempts <= MaxTries + halts /\ jobs[e].status # "absent"
    BY <1>1 DEF Inv, Counted, Fresh
  <2> HIDE DEF e, r
  <2>6. bridge' \in [ pc : {"count"}, event : {Nothing} ] /\ bridge'.pc = "count"
    BY <2>4
  <2>7. r.status = "retry" => r.attempts + 1 <= MaxTries + halts
    BY <2>1, <2>2
  <2>8. jobs[e].attempts <= r.attempts /\ r.attempts <= MaxTries + halts
    BY <2>1, <2>2, <2>5
  <2> QED BY <1>1, <2>2, <2>3, <2>5, <2>6, <2>7, <2>8, WorkerStep
<1> QED BY <1>2, <1>3

LEMMA CountStep == ASSUME MaxTries \in Nat, Inv, HaEvents!Count PROVE Inv'
<1>1. bridge' \in [ pc : {"idle", "dead"}, event : {Nothing} ]
  BY DEF HaEvents!Count, HaEvents!Worker
<1>2. bridge.pc # "off" /\ UNCHANGED <<HaEvents!table, inserting, halts, HaEvents!home,
        handled>>
  BY DEF HaEvents!Count, HaEvents!Raises, HaEvents!limits
<1> QED BY <1>1, <1>2, WorkerEnds

LEMMA DueStep == ASSUME Inv, NEW e \in Events, HaEvents!Due(e) PROVE Inv'
<1> DEFINE r == [ jobs[e] EXCEPT !.due = TRUE ]
<1>1. /\ jobs[e] \in RowType /\ jobs' = [ jobs EXCEPT ![e] = r ]
      /\ UNCHANGED <<order, inserting, bridge, halts, HaEvents!home, handled>>
  BY DEF HaEvents!Due, Inv, Types, HaEvents!limits
<1>2. r \in RowType /\ r.status = jobs[e].status /\ r.attempts = jobs[e].attempts
  BY <1>1 DEF RowType
<1> HIDE DEF r
<1>3. /\ jobs' \in [ Events -> RowType ]
      /\ \A x \in Events : jobs'[x].status = jobs[x].status
           /\ jobs'[x].attempts = jobs[x].attempts
  BY <1>1, <1>2, Rewritten DEF Inv
<1>4. Types'
  BY <1>1, <1>3 DEF Inv, Types, HaEvents!home
<1> QED BY <1>1, <1>3, <1>4 DEF Inv, Counted, Fresh, Marked, Forwarded, Held, HaEvents!home

----------------------------------------------------------------------------
(* Crashes, restarts, and the integration.                                 *)

LEMMA HaltStep == ASSUME MaxTries \in Nat \ {0}, Inv, HaEvents!Halt PROVE Inv'
<1>1. /\ halts' = halts + 1 /\ halts \in Nat /\ inserting' = {} /\ bridge.pc # "off"
      /\ jobs' = [ e \in Events |->
                     IF e \in inserting THEN HaEvents!Row("lost", 0) ELSE jobs[e] ]
      /\ UNCHANGED <<order, HaEvents!home, handled>>
  BY DEF HaEvents!Halt, HaEvents!Up, Inv, Types
<1>2. bridge' = [ pc |-> "off", event |-> Nothing ]
  BY DEF HaEvents!Halt, HaEvents!Worker
<1>3. /\ HaEvents!Row("lost", 0) \in RowType
      /\ HaEvents!Row("lost", 0).status = "lost" /\ HaEvents!Row("lost", 0).attempts = 0
  BY DEF HaEvents!Row, RowType
<1>4. /\ jobs' \in [ Events -> RowType ]
      /\ \A e \in Events :
           \/ e \in inserting /\ jobs'[e].status = "lost" /\ jobs'[e].attempts = 0
           \/ jobs'[e] = jobs[e]
  BY <1>1, <1>3 DEF Inv, Types
<1>5. bridge'.pc = "off" /\ Types'
  BY <1>1, <1>2, <1>4 DEF Inv, Types, HaEvents!home
<1>6. ASSUME NEW e \in Events PROVE (Counted(e) /\ Fresh(e) /\ Marked(e) /\ Forwarded(e))'
  <2>1. /\ Counted(e) /\ Fresh(e) /\ Marked(e) /\ Forwarded(e)
        /\ jobs[e].attempts \in Nat /\ handled[e] \in Nat /\ Held(e)' = Held(e)
    BY <1>1 DEF Inv, Types, RowType, Held, HaEvents!home
  <2>2. (Marked(e) /\ Fresh(e) /\ Forwarded(e))'
    BY <1>1, <1>4, <1>5, <2>1 DEF Marked, Fresh, Forwarded, HaEvents!home
  <2>3. Counted(e)'
    BY <1>1, <1>4, <1>5, <2>1 DEF Counted, Fresh
  <2> QED BY <2>2, <2>3
<1> QED BY <1>5, <1>6 DEF Inv

LEMMA BootStep == ASSUME Inv, HaEvents!Boot PROVE Inv'
<1>1. /\ jobs' = [ e \in Events |-> HaEvents!Interrupted(jobs[e]) ] /\ bridge.pc = "off"
      /\ UNCHANGED <<order, inserting, halts, HaEvents!home, handled>>
  BY DEF HaEvents!Boot, HaEvents!limits
<1>2. bridge' = [ pc |-> "idle", event |-> Nothing ]
  BY DEF HaEvents!Boot, HaEvents!Worker
<1>3. ASSUME NEW e \in Events
      PROVE  /\ jobs'[e] \in RowType /\ jobs'[e].attempts = jobs[e].attempts
             /\ \/ jobs[e].status = "sending" /\ jobs'[e].status = "accepted"
                \/ jobs'[e].status = jobs[e].status
  <2>1. jobs[e] \in RowType /\ jobs'[e] = HaEvents!Interrupted(jobs[e])
    BY <1>1 DEF Inv, Types
  <2> QED BY <2>1 DEF HaEvents!Interrupted, RowType
<1>4. jobs' \in [ Events -> RowType ]
  BY <1>1, <1>3
<1>5. bridge'.pc = "idle" /\ Types'
  BY <1>1, <1>2, <1>4 DEF Inv, Types, HaEvents!home
<1>6. ASSUME NEW e \in Events PROVE (Counted(e) /\ Fresh(e) /\ Marked(e) /\ Forwarded(e))'
  BY <1>1, <1>3, <1>5 DEF Inv, Counted, Fresh, Marked, Forwarded, Held, HaEvents!home
<1> QED BY <1>5, <1>6 DEF Inv

LEMMA TakeStep == ASSUME Inv, NEW e \in Events, HaEvents!Take(e) PROVE Inv'
<1>1. /\ forwards[e] > 0 /\ holder = Nothing /\ holder' = e
      /\ forwards' = [ forwards EXCEPT ![e] = @ - 1 ]
      /\ UNCHANGED <<jobs, order, inserting, bridge, halts, smsJobs, handled>>
  BY DEF HaEvents!Take, HaEvents!table, HaEvents!limits
<1>2. forwards \in [ Events -> Nat ] /\ forwards[e] \in Nat
  BY DEF Inv, Types
<1>3. /\ forwards' \in [ Events -> Nat ] /\ forwards'[e] = forwards[e] - 1
      /\ \A x \in Events \ {e} : forwards'[x] = forwards[x]
  BY <1>1, <1>2
<1>4. Types'
  BY <1>1, <1>3 DEF Inv, Types
<1>5. ASSUME NEW x \in Events PROVE Forwarded(x)'
  <2>1. smsJobs[x] \in Nat /\ handled[x] \in Nat /\ forwards[x] \in Nat /\ Forwarded(x)
    BY DEF Inv, Types
  <2>2. Held(x) = 0 /\ Held(x)' \in {0, 1} /\ (x # e => Held(x)' = 0)
    BY <1>1 DEF Held
  <2> QED BY <1>1, <1>3, <2>1, <2>2 DEF Forwarded
<1> QED BY <1>1, <1>4, <1>5 DEF Inv, Counted, Fresh, Marked

LEMMA ForwardStep == ASSUME Inv, HaEvents!Forward PROVE Inv'
<1>1. /\ holder # Nothing /\ holder' = Nothing
      /\ UNCHANGED <<jobs, order, inserting, bridge, halts, forwards, handled>>
      /\ smsJobs' = [ smsJobs EXCEPT ![holder] = @ + 1 ] \/ UNCHANGED smsJobs
  BY DEF HaEvents!Forward, HaEvents!table, HaEvents!limits
<1>2. smsJobs \in [ Events -> Nat ]
  BY DEF Inv, Types
<1>3. /\ smsJobs' \in [ Events -> Nat ]
      /\ \A x \in Events :
           smsJobs'[x] = smsJobs[x] \/ (x = holder /\ smsJobs'[x] = smsJobs[x] + 1)
  BY <1>1, <1>2
<1>4. Types'
  BY <1>1, <1>3 DEF Inv, Types
<1>5. ASSUME NEW x \in Events PROVE Forwarded(x)'
  <2>1. smsJobs[x] \in Nat /\ handled[x] \in Nat /\ forwards[x] \in Nat /\ Forwarded(x)
    BY DEF Inv, Types
  <2>2. Held(x)' = 0 /\ Held(x) = (IF x = holder THEN 1 ELSE 0)
    BY <1>1 DEF Held
  <2> QED BY <1>1, <1>3, <2>1, <2>2 DEF Forwarded
<1> QED BY <1>1, <1>4, <1>5 DEF Inv, Counted, Fresh, Marked

----------------------------------------------------------------------------

LEMMA InvUnchanged == Inv /\ UNCHANGED events => Inv'
  BY DEF events, Inv, Types, Counted, Fresh, Marked, Forwarded, Held

LEMMA InvStep == ASSUME MaxTries \in Nat \ {0}, Inv, HaEvents!Next PROVE Inv'
<1>1. MaxTries \in Nat
  OBVIOUS
<1>2. ASSUME NEW e \in Events,
             HaEvents!Happen(e) \/ HaEvents!Insert(e) \/ HaEvents!Due(e) \/ HaEvents!Take(e)
      PROVE  Inv'
  BY <1>2, HappenStep, InsertStep, DueStep, TakeStep
<1>3. CASE HaEvents!Deliver
  BY <1>1, <1>3, ClaimStep, FireStep, MarkStep, RecoverStep, CountStep DEF HaEvents!Deliver
<1>4. CASE HaEvents!Wait
  BY <1>4, InvUnchanged
    DEF events, HaEvents!Wait, HaEvents!vars, HaEvents!table, HaEvents!limits, HaEvents!home
<1> QED
  BY <1>1, <1>2, <1>3, <1>4, HaltStep, BootStep, ForwardStep DEF HaEvents!Next

LEMMA InvBounds == ASSUME MaxTries \in Nat \ {0}, Inv PROVE DeliveriesBounded
<1> SUFFICES ASSUME NEW e \in Events
             PROVE  /\ jobs[e].status = "sent" => handled[e] > 0
                    /\ handled[e] <= MaxTries + halts
                    /\ smsJobs[e] + forwards[e] <= handled[e]
  BY DEF DeliveriesBounded, HaEvents!DeliveriesBounded
<1>1. /\ handled[e] \in Nat /\ jobs[e].attempts \in Nat /\ halts \in Nat
      /\ smsJobs[e] \in Nat /\ forwards[e] \in Nat /\ Held(e) \in {0, 1}
  BY DEF Inv, Types, RowType, Held
<1>2. Counted(e) /\ Marked(e) /\ Forwarded(e)
  BY DEF Inv
<1> QED BY <1>1, <1>2 DEF Counted, Marked, Forwarded

\* An event marked "sent" was delivered to Home Assistant, and retries, restarts and lost
\* answers together deliver it at most max_attempts times and once more per restart, with
\* at most one forwarded SMS batch per delivery (homeassistant_bridge.py, forwarding.py).
THEOREM DeliveriesAreBounded ==
  ASSUME MaxTries \in Nat \ {0} PROVE MCSpec => []DeliveriesBounded
<1>1. MCInit => Inv
  BY InvInit DEF MCInit
<1>2. Inv /\ [MCNext]_MCvars => Inv'
  BY InvStep, InvUnchanged DEF MCNext, MCvars
<1>3. Inv => DeliveriesBounded
  BY InvBounds
<1> QED BY <1>1, <1>2, <1>3, PTL DEF MCSpec
=============================================================================
