--------------------------- MODULE SmsRulesProofs ---------------------------
(***************************************************************************)
(* Proofs about SmsRules, for any messages, senders, rules and limits.     *)
(***************************************************************************)
EXTENDS SmsRules, FiniteSetTheorems, TLAPS

USE DEF Never

----------------------------------------------------------------------------
(* What a step does to the locals of a task.                               *)

\* A task's locals q keep what r remembers of the message.
Same(r, q) ==
  /\ q.sender = r.sender /\ q.rule = r.rule /\ q.pin = r.pin /\ q.parent = r.parent
  /\ q.spentAt = r.spentAt /\ q.failedAt = r.failedAt

\* A task that has not started.
Idle(r) == r.startAt = Never /\ r.endAt = Never

\* What Start makes of the locals r.
Gives(r, q) ==
  \/ q.pc \in {"done", "failing"} /\ Idle(q) /\ UNCHANGED lastRun
  \/ q.pc = "running" /\ q.startAt = now /\ q.endAt = Never /\ Cooled(r) /\ UNCHANGED lastRun
  \/ /\ q.pc = "replying" /\ q.startAt = now /\ q.endAt = now /\ Cooled(r)
     /\ lastRun' = [ lastRun EXCEPT ![<<r.sender, r.rule>>] = now ]

Becomes(m, q) == msgs' = [ msgs EXCEPT ![m] = q ]

\* The types alone.
Types ==
  /\ now \in Nat /\ msgs \in [ Messages -> MessageRecord ] /\ queue \in Seq(Messages)
  /\ attempts \subseteq Messages /\ failures \subseteq Messages
  /\ locked \in [ Senders -> Nat ] /\ lastRun \in [ Senders \X Rules -> Nat ]
  /\ pending \subseteq Challenge

LEMMA StartIs ==
  ASSUME Types, NEW m \in Messages, NEW r \in MessageRecord, Idle(r), Start(m, r)
  PROVE  \E q \in MessageRecord : Becomes(m, q) /\ Same(r, q) /\ Gives(r, q)
<1> now \in Nat
  BY DEF Types
<1>1. CASE ~Cooled(r) /\ msgs' = [ msgs EXCEPT ![m] = [ r EXCEPT !.pc = "done" ] ] /\ UNCHANGED lastRun
  <2> DEFINE q == [ r EXCEPT !.pc = "done" ]
  <2>1. q \in MessageRecord /\ Same(r, q) /\ q.pc = "done" /\ Idle(q)
    BY DEF MessageRecord, Same, Idle
  <2> QED BY <1>1, <2>1 DEF Becomes, Gives
<1>2. CASE \E f \in Failed(r, "failing") : msgs' = [ msgs EXCEPT ![m] = f ] /\ UNCHANGED lastRun
  <2>1. PICK f \in Failed(r, "failing") : msgs' = [ msgs EXCEPT ![m] = f ] /\ UNCHANGED lastRun
    BY <1>2
  <2>2. f \in MessageRecord /\ Same(r, f) /\ f.pc \in {"done", "failing"} /\ Idle(f)
    BY DEF MessageRecord, Same, Idle, Failed
  <2> QED BY <2>1, <2>2 DEF Becomes, Gives
<1>3. CASE /\ Cooled(r) /\ UNCHANGED lastRun
           /\ msgs' = [ msgs EXCEPT ![m] = [ r EXCEPT !.pc = "running", !.startAt = now ] ]
  <2> DEFINE q == [ r EXCEPT !.pc = "running", !.startAt = now ]
  <2>1. q \in MessageRecord /\ Same(r, q) /\ q.pc = "running" /\ q.startAt = now /\ q.endAt = Never
    BY DEF MessageRecord, Same, Idle, Times
  <2> QED BY <1>3, <2>1 DEF Becomes, Gives
<1>4. CASE /\ Cooled(r) /\ lastRun' = [ lastRun EXCEPT ![<<r.sender, r.rule>>] = now ]
           /\ msgs' = [ msgs EXCEPT ![m] = [ r EXCEPT !.pc = "replying", !.startAt = now, !.endAt = now ] ]
  <2> DEFINE q == [ r EXCEPT !.pc = "replying", !.startAt = now, !.endAt = now ]
  <2>1. q \in MessageRecord /\ Same(r, q) /\ q.pc = "replying" /\ q.startAt = now /\ q.endAt = now
    BY DEF MessageRecord, Same, Idle, Times
  <2> QED BY <1>4, <2>1 DEF Becomes, Gives
<1> QED BY <1>1, <1>2, <1>3, <1>4 DEF Start

LEMMA AdmitIs ==
  ASSUME Types, NEW m \in Messages, NEW r \in MessageRecord, Idle(r), Admit(m, r)
  PROVE  \E q \in MessageRecord :
           /\ Becomes(m, q) /\ Same(r, q)
           /\ \/ Holding = {} /\ queue = <<>> /\ UNCHANGED queue /\ Gives(r, q)
              \/ queue' = Append(queue, m) /\ q.pc = "waiting" /\ Idle(q) /\ UNCHANGED lastRun
<1>1. CASE Holding = {} /\ queue = <<>>
  BY <1>1, StartIs DEF Admit
<1>2. CASE ~(Holding = {} /\ queue = <<>>)
  <2> DEFINE q == [ r EXCEPT !.pc = "waiting" ]
  <2>1. q \in MessageRecord /\ Same(r, q) /\ q.pc = "waiting" /\ Idle(q)
    BY DEF MessageRecord, Same, Idle
  <2> QED BY <1>2, <2>1 DEF Admit, Becomes
<1> QED BY <1>1, <1>2

----------------------------------------------------------------------------
(* What a step does, part by part: task m gets the locals q.               *)

\* It spends of the rate limits, or does not.
Spending(m, q) ==
  \/ /\ q.spentAt = now /\ msgs[m].spentAt = Never /\ q.sender \in Senders
     /\ Allowed(q.sender) /\ attempts' = Counting \cup {m}
  \/ /\ q.spentAt = msgs[m].spentAt /\ attempts' \in {attempts, Counting}
     /\ q.spentAt # Never => q.sender = msgs[m].sender

\* It is a wrong guess, or not.
Guessing(m, q) ==
  \/ /\ q.failedAt = now /\ msgs[m].failedAt = Never /\ q.sender \in Senders
     /\ msgs[m].sender = None /\ ~IsLocked(q.sender) /\ RecordFailure(m, q.sender)
  \/ /\ q.failedAt = msgs[m].failedAt /\ UNCHANGED <<failures, locked>>
     /\ msgs[m].sender # None => q.sender = msgs[m].sender

\* Its rule begins, reports, ends, or none of these.
Running(m, q) ==
  \/ /\ q.startAt = msgs[m].startAt /\ q.endAt = msgs[m].endAt /\ UNCHANGED lastRun
     /\ q.startAt # Never => q.sender = msgs[m].sender /\ q.rule = msgs[m].rule
     /\ q.pc = "running" => msgs[m].pc = "running"
  \/ /\ Holding = {} /\ q.sender \in Senders /\ q.rule \in Rules /\ Cooled(q)
     /\ q.pc = "running" /\ q.startAt = now /\ q.endAt = Never
     /\ Idle(msgs[m]) /\ UNCHANGED lastRun
  \/ /\ Holding = {} /\ q.sender \in Senders /\ q.rule \in Rules /\ Cooled(q)
     /\ q.pc = "replying" /\ q.startAt = now /\ q.endAt = now
     /\ Idle(msgs[m]) /\ lastRun' = [ lastRun EXCEPT ![<<q.sender, q.rule>>] = now ]
  \/ /\ msgs[m].pc = "running" /\ q.pc # "running"
     /\ q.sender = msgs[m].sender /\ q.rule = msgs[m].rule
     /\ q.startAt = msgs[m].startAt /\ q.endAt = now
     /\ lastRun' = [ lastRun EXCEPT ![<<q.sender, q.rule>>] = now ]

\* It waits for the lock, gets it, or leaves the queue alone.
Locking(m, q) ==
  \/ /\ UNCHANGED queue /\ msgs[m].pc # "waiting" /\ q.pc # "waiting"
     /\ q.pc \in {"running", "replying", "failing"} => m \in Holding \/ Holding = {}
  \/ queue' = Append(queue, m) /\ msgs[m].pc # "waiting" /\ q.pc = "waiting"
  \/ /\ Holding = {} /\ queue # <<>> /\ m = Head(queue) /\ queue' = Tail(queue)
     /\ q.pc # "waiting"

\* A task that waits for its turn to run its rule, or had it.
Active(r) == r.pc = "waiting" \/ r.startAt # Never

\* A pending command for message m of sender s.
IssuedBy(c, m, q) ==
  /\ c \in Challenge /\ c.by = m /\ c.sender = q.sender /\ c.rule = q.rule /\ c.rule \in ChallengeRules
  /\ c.expires = q.spentAt + Ttl /\ q.spentAt = now
  /\ c.rule \in PinRules => q.pin

\* It issues a code, uses one, needs none, or goes on as it was.
Confirming(m, q) ==
  \/ /\ msgs[m].pc # "new" /\ Same(msgs[m], q) /\ pending' \subseteq pending
     /\ Active(q) => Active(msgs[m])
  \/ /\ msgs[m] = New /\ q.parent = None /\ ~Active(q) /\ pending' \subseteq pending
  \/ /\ msgs[m] = New /\ q.parent = None /\ pending' = pending
     /\ q.sender \in Senders /\ q.rule \in Rules \ ChallengeRules
     /\ q.rule \in PinRules => q.pin
  \/ /\ msgs[m] = New /\ q.parent = None /\ ~Active(q)
     /\ \E c \in Challenge :
          /\ IssuedBy(c, m, q)
          /\ pending' = { p \in pending : p.sender # c.sender \/ p.rule # c.rule } \cup {c}
  \/ /\ msgs[m] = New
     /\ \E hit \in pending :
          /\ hit.sender = q.sender /\ hit.rule = q.rule /\ hit.by = q.parent
          /\ now < hit.expires /\ pending' \subseteq pending \ {hit}
          /\ q.spentAt \in {now, Never}
          /\ Active(q) => q.spentAt = now

\* Locals that make sense.
Sane(r) ==
  /\ r.pc = "new" => r = New
  /\ r.pc \notin {"new", "done"} \/ r.startAt # Never => r.sender \in Senders /\ r.rule \in Rules
  /\ r.spentAt # Never \/ r.failedAt # Never => r.sender \in Senders
  /\ r.pc \in {"new", "asking", "waiting", "excusing"} => Idle(r)
  /\ r.pc = "running" => r.startAt # Never /\ r.endAt = Never
  /\ r.endAt # Never => r.startAt # Never /\ r.startAt <= r.endAt
  /\ r.spentAt <= now /\ r.failedAt <= now /\ r.startAt <= now /\ r.endAt <= now

Sound == Types /\ LockAgrees /\ \A m \in Messages : Sane(msgs[m])

Serves(m, q) ==
  /\ Becomes(m, q) /\ UNCHANGED now /\ q.pc # "new" /\ Sane(q)
  /\ Spending(m, q) /\ Guessing(m, q) /\ Running(m, q) /\ Locking(m, q) /\ Confirming(m, q)

LEMMA NewIs == New \in MessageRecord /\ Idle(New) /\ \A t \in Times : t # Never => t \in Nat
BY DEF New, MessageRecord, Times, Idle

\* What the locals become when a new message is admitted.
LEMMA Admitted ==
  ASSUME Sound, NEW m \in Messages, msgs[m] = New, NEW r \in MessageRecord, Idle(r), Admit(m, r),
         r.sender \in Senders, r.rule \in Rules, r.spentAt = now, r.failedAt = Never
  PROVE  \E q \in MessageRecord :
           /\ Becomes(m, q) /\ Same(r, q) /\ q.pc # "new"
           /\ Sane(q) /\ Running(m, q) /\ Locking(m, q)
<1>0. Types /\ now \in Nat
  BY DEF Sound, Types
<1>1. PICK q \in MessageRecord :
         /\ Becomes(m, q) /\ Same(r, q)
         /\ \/ Holding = {} /\ queue = <<>> /\ UNCHANGED queue /\ Gives(r, q)
            \/ queue' = Append(queue, m) /\ q.pc = "waiting" /\ Idle(q) /\ UNCHANGED lastRun
  BY <1>0, AdmitIs
<1>2. msgs[m].pc = "new" /\ Idle(msgs[m])
  BY DEF New, Idle
<1>3. q.pc # "new" /\ Sane(q)
  BY <1>0, <1>1 DEF Same, Gives, Sane, Idle
<1>4. Running(m, q)
  BY <1>0, <1>1, <1>2 DEF Same, Gives, Running, Idle, Cooled
<1>5. Locking(m, q)
  BY <1>1, <1>2 DEF Locking, Gives
<1> QED BY <1>1, <1>3, <1>4, <1>5

LEMMA RefusedServes ==
  ASSUME Sound, NEW m \in Messages, NEW s \in Senders, Refused(m, s)
  PROVE  \E q \in MessageRecord : Serves(m, q)
<1> DEFINE q == [ New EXCEPT !.pc = "done", !.sender = s ]
<1>0. now \in Nat /\ Sane(msgs[m]) /\ msgs \in [ Messages -> MessageRecord ]
  BY DEF Sound, Types
<1>1. msgs[m] = New /\ Becomes(m, q) /\ UNCHANGED <<now, queue, limits, lastRun, pending>>
  BY <1>0 DEF Refused, Sane, Becomes
<1>2. q \in MessageRecord /\ q.pc = "done" /\ Idle(q) /\ q.parent = None
      /\ q.spentAt = Never /\ q.failedAt = Never
  BY NewIs DEF MessageRecord, New, Idle
<1>3. Sane(q)
  BY <1>0, <1>2 DEF Sane, New, Idle
<1>4. Spending(m, q) /\ Guessing(m, q) /\ Running(m, q)
  BY <1>1, <1>2 DEF Spending, Guessing, Running, Idle, New, limits
<1>5. Locking(m, q) /\ Confirming(m, q)
  BY <1>1, <1>2 DEF Locking, Confirming, Active, Idle, New
<1> QED BY <1>1, <1>2, <1>3, <1>4, <1>5 DEF Serves

LEMMA GuessServes ==
  ASSUME Sound, NEW m \in Messages, NEW s \in Senders, NEW code \in Codes, Guess(m, s, code)
  PROVE  \E q \in MessageRecord : Serves(m, q)
<1>0. now \in Nat /\ Sane(msgs[m]) /\ msgs \in [ Messages -> MessageRecord ]
  BY DEF Sound, Types
<1>1. msgs[m] = New /\ msgs[m].pc = "new" /\ pending' \subseteq pending
      /\ UNCHANGED <<now, queue, attempts, lastRun>>
  BY <1>0 DEF Guess, Sane
<1>2. CASE Of(s) = {}
  <2> DEFINE q == [ New EXCEPT !.pc = "done", !.sender = s ]
  <2>1. q \in MessageRecord /\ q.pc = "done" /\ Idle(q) /\ q.parent = None
        /\ q.spentAt = Never /\ q.failedAt = Never /\ Becomes(m, q) /\ UNCHANGED <<failures, locked>>
    BY <1>1, <1>2, NewIs DEF MessageRecord, New, Idle, Guess, Becomes
  <2>2. Sane(q)
    BY <1>0, <2>1 DEF Sane, New, Idle
  <2>3. Spending(m, q) /\ Guessing(m, q) /\ Running(m, q)
    BY <1>1, <2>1 DEF Spending, Guessing, Running, Idle, New
  <2>4. Locking(m, q) /\ Confirming(m, q)
    BY <1>1, <2>1 DEF Locking, Confirming, Active, Idle, New
  <2> QED BY <1>1, <2>1, <2>2, <2>3, <2>4 DEF Serves
<1>3. CASE Of(s) # {}
  <2> DEFINE q == [ New EXCEPT !.pc = "done", !.sender = s, !.failedAt = now ]
  <2>1. q \in MessageRecord /\ q.pc = "done" /\ Idle(q) /\ q.parent = None /\ q.sender = s
        /\ q.spentAt = Never /\ q.failedAt = now /\ Becomes(m, q)
    BY <1>0, <1>1, <1>3, NewIs DEF MessageRecord, New, Idle, Guess, Becomes, Times
  <2>2. Sane(q)
    BY <1>0, <2>1 DEF Sane, New, Idle
  <2>3. Spending(m, q) /\ Running(m, q)
    BY <1>1, <2>1 DEF Spending, Running, Idle, New
  <2>4. Guessing(m, q)
    BY <1>1, <1>3, <2>1 DEF Guessing, Guess, New
  <2>5. Locking(m, q) /\ Confirming(m, q)
    BY <1>1, <2>1 DEF Locking, Confirming, Active, Idle, New
  <2> QED BY <1>1, <2>1, <2>2, <2>3, <2>4, <2>5 DEF Serves
<1> QED BY <1>2, <1>3

LEMMA ConfirmServes ==
  ASSUME Sound, NEW m \in Messages, NEW s \in Senders, NEW code \in Codes, Confirm(m, s, code)
  PROVE  \E q \in MessageRecord : Serves(m, q)
<1>0. now \in Nat /\ Sane(msgs[m]) /\ msgs \in [ Messages -> MessageRecord ] /\ pending \subseteq Challenge
  BY DEF Sound, Types
<1>1. msgs[m] = New /\ UNCHANGED <<now, failures, locked>>
  BY <1>0 DEF Confirm, Sane
<1>2. PICK hit \in Hits(s, code), gone \in SUBSET Expired(s) :
        /\ pending' = pending \ ({hit} \cup gone)
        /\ \/ /\ Allowed(s) /\ attempts' = Counting \cup {m}
              /\ Admit(m, [ New EXCEPT !.sender = s, !.rule = hit.rule, !.parent = hit.by, !.spentAt = now ])
           \/ /\ attempts' = Counting /\ UNCHANGED <<queue, lastRun>>
              /\ Becomes(m, [ New EXCEPT !.sender = s, !.rule = hit.rule, !.parent = hit.by, !.pc = "done" ])
  BY DEF Confirm, Becomes
<1>3. hit \in pending /\ hit \in Challenge /\ hit.sender = s /\ now < hit.expires
  BY <1>0 DEF Hits, Of, Expired, Challenge
<1>4. CASE /\ Allowed(s) /\ attempts' = Counting \cup {m}
           /\ Admit(m, [ New EXCEPT !.sender = s, !.rule = hit.rule, !.parent = hit.by, !.spentAt = now ])
  <2> DEFINE r == [ New EXCEPT !.sender = s, !.rule = hit.rule, !.parent = hit.by, !.spentAt = now ]
  <2>1. r \in MessageRecord /\ Idle(r) /\ r.sender = s /\ r.rule = hit.rule /\ r.rule \in Rules
        /\ r.parent = hit.by /\ r.spentAt = now /\ r.failedAt = Never
    BY <1>0, <1>3, NewIs DEF MessageRecord, New, Idle, Times, Challenge
  <2>2. PICK q \in MessageRecord : /\ Becomes(m, q) /\ Same(r, q) /\ q.pc # "new"
                                   /\ Sane(q) /\ Running(m, q) /\ Locking(m, q)
    <3> HIDE DEF r
    <3> QED BY <1>1, <1>4, <2>1, Admitted DEF r
  <2> HIDE DEF r
  <2>3. Spending(m, q) /\ Guessing(m, q)
    BY <1>1, <1>4, <2>1, <2>2 DEF Spending, Guessing, Same, New
  <2>4. Confirming(m, q)
    BY <1>1, <1>2, <1>3, <2>1, <2>2 DEF Confirming, Same
  <2> QED BY <1>1, <2>2, <2>3, <2>4 DEF Serves
<1>5. CASE /\ attempts' = Counting /\ UNCHANGED <<queue, lastRun>>
           /\ Becomes(m, [ New EXCEPT !.sender = s, !.rule = hit.rule, !.parent = hit.by, !.pc = "done" ])
  <2> DEFINE q == [ New EXCEPT !.sender = s, !.rule = hit.rule, !.parent = hit.by, !.pc = "done" ]
  <2>1. q \in MessageRecord /\ Idle(q) /\ q.sender = s /\ q.rule = hit.rule /\ q.pc = "done"
        /\ q.parent = hit.by /\ q.spentAt = Never /\ q.failedAt = Never
    BY <1>0, <1>3, NewIs DEF MessageRecord, New, Idle, Challenge
  <2>2. Sane(q)
    BY <1>0, <2>1 DEF Sane, Idle
  <2>3. Spending(m, q) /\ Guessing(m, q) /\ Running(m, q)
    BY <1>1, <1>5, <2>1 DEF Spending, Guessing, Running, Idle, New
  <2>4. Locking(m, q) /\ Confirming(m, q)
    BY <1>1, <1>2, <1>3, <1>5, <2>1 DEF Locking, Confirming, Active, Idle, New
  <2> QED BY <1>1, <1>5, <2>1, <2>2, <2>3, <2>4 DEF Serves
<1> QED BY <1>2, <1>4, <1>5

LEMMA CommandServes ==
  ASSUME Sound, NEW m \in Messages, NEW s \in Senders, NEW rule \in Rules, NEW pin \in BOOLEAN,
         Command(m, s, rule, pin)
  PROVE  \E q \in MessageRecord : Serves(m, q)
<1> DEFINE r == [ New EXCEPT !.sender = s, !.rule = rule, !.pin = pin, !.spentAt = now ]
           wrong == rule \in PinRules /\ ~pin
<1>0. now \in Nat /\ Sane(msgs[m]) /\ msgs \in [ Messages -> MessageRecord ] /\ Ttl \in Nat
  BY TimesAssumption DEF Sound, Types
<1>1. msgs[m] = New /\ UNCHANGED now /\ ~IsLocked(s)
      /\ attempts' = IF Allowed(s) THEN Counting \cup {m} ELSE Counting
  BY <1>0 DEF Command, Sane
<1>2. r \in MessageRecord /\ Idle(r) /\ r.sender = s /\ r.rule = rule /\ r.pin = pin
      /\ r.parent = None /\ r.spentAt = now /\ r.failedAt = Never
  BY <1>0, NewIs DEF MessageRecord, New, Idle, Times
<1>3. CASE ~Allowed(s)
  <2> DEFINE q == [ r EXCEPT !.pc = "done", !.spentAt = Never ]
  <2>1. Becomes(m, q) /\ UNCHANGED <<queue, failures, locked, lastRun, pending>>
    BY <1>3 DEF Command, Becomes
  <2>2. q \in MessageRecord /\ Idle(q) /\ q.sender = s /\ q.pc = "done"
        /\ q.parent = None /\ q.spentAt = Never /\ q.failedAt = Never
    BY <1>0, NewIs DEF MessageRecord, New, Idle, Times
  <2> HIDE DEF q
  <2>3. Sane(q)
    BY <1>0, <2>2 DEF Sane, Idle
  <2>4. Spending(m, q) /\ Guessing(m, q) /\ Running(m, q)
    BY <1>1, <1>3, <2>1, <2>2 DEF Spending, Guessing, Running, Idle, New
  <2>5. Locking(m, q) /\ Confirming(m, q)
    BY <1>1, <2>1, <2>2 DEF Locking, Confirming, Active, Idle, New
  <2> QED BY <1>1, <2>1, <2>2, <2>3, <2>4, <2>5 DEF Serves
<1>4. CASE Allowed(s) /\ wrong
  <2> DEFINE q == [ r EXCEPT !.pc = "done", !.failedAt = now ]
  <2>1. Becomes(m, q) /\ UNCHANGED <<queue, lastRun, pending>> /\ RecordFailure(m, s)
    BY <1>4 DEF Command, Becomes
  <2>2. q \in MessageRecord /\ Idle(q) /\ q.sender = s /\ q.pc = "done"
        /\ q.parent = None /\ q.spentAt = now /\ q.failedAt = now
    BY <1>0, NewIs DEF MessageRecord, New, Idle, Times
  <2> HIDE DEF q
  <2>3. Sane(q)
    BY <1>0, <2>2 DEF Sane, Idle
  <2>4. Spending(m, q) /\ Running(m, q)
    BY <1>1, <1>4, <2>1, <2>2 DEF Spending, Running, Idle, New
  <2>5. Guessing(m, q)
    BY <1>1, <2>1, <2>2 DEF Guessing, New
  <2>6. Locking(m, q) /\ Confirming(m, q)
    BY <1>1, <2>1, <2>2 DEF Locking, Confirming, Active, Idle, New
  <2> QED BY <1>1, <2>1, <2>2, <2>3, <2>4, <2>5, <2>6 DEF Serves
<1>5. CASE Allowed(s) /\ ~wrong /\ rule \in ChallengeRules
  <2> DEFINE q == [ r EXCEPT !.pc = "asking" ]
  <2>1. PICK code \in Codes :
          /\ Becomes(m, q) /\ UNCHANGED <<queue, failures, locked, lastRun>>
          /\ pending' = { p \in pending : p.sender # s \/ p.rule # rule }
                          \cup { [ sender |-> s, rule |-> rule, code |-> code,
                                   expires |-> now + Ttl, by |-> m ] }
    BY <1>5 DEF Command, Becomes
  <2>2. q \in MessageRecord /\ Idle(q) /\ q.sender = s /\ q.rule = rule /\ q.pin = pin /\ q.pc = "asking"
        /\ q.parent = None /\ q.spentAt = now /\ q.failedAt = Never
    BY <1>0, NewIs DEF MessageRecord, New, Idle, Times
  <2> HIDE DEF q
  <2>3. Sane(q)
    BY <1>0, <2>2 DEF Sane, Idle
  <2>4. Spending(m, q) /\ Guessing(m, q) /\ Running(m, q)
    BY <1>1, <1>5, <2>1, <2>2 DEF Spending, Guessing, Running, Idle, New
  <2>5. Locking(m, q) /\ msgs[m] = New /\ q.parent = None /\ ~Active(q)
    BY <1>1, <2>1, <2>2 DEF Locking, Active, Idle, New
  <2> DEFINE c == [ sender |-> s, rule |-> rule, code |-> code, expires |-> now + Ttl, by |-> m ]
  <2>6. IssuedBy(c, m, q) /\ c \in Challenge /\ c.sender = s /\ c.rule = rule
    BY <1>0, <1>5, <2>2 DEF IssuedBy, Challenge
  <2>7. pending' = { p \in pending : p.sender # c.sender \/ p.rule # c.rule } \cup {c}
    BY <2>1, <2>6
  <2> HIDE DEF c
  <2>8. Confirming(m, q)
    BY <2>5, <2>6, <2>7 DEF Confirming
  <2> QED BY <1>1, <2>1, <2>2, <2>3, <2>4, <2>5, <2>8 DEF Serves
<1>6. CASE Allowed(s) /\ ~wrong /\ rule \notin ChallengeRules
  <2>1. Admit(m, r) /\ UNCHANGED <<failures, locked, pending>>
    BY <1>6 DEF Command
  <2> HIDE DEF r
  <2>2. PICK q \in MessageRecord : /\ Becomes(m, q) /\ Same(r, q) /\ q.pc # "new"
                                   /\ Sane(q) /\ Running(m, q) /\ Locking(m, q)
    BY <1>1, <1>2, <2>1, Admitted
  <2>3. Spending(m, q) /\ Guessing(m, q)
    BY <1>1, <1>2, <1>6, <2>1, <2>2 DEF Spending, Guessing, Same, New
  <2>4. Confirming(m, q)
    BY <1>1, <1>2, <1>6, <2>1, <2>2 DEF Confirming, Same
  <2> QED BY <1>1, <2>2, <2>3, <2>4 DEF Serves
<1> QED BY <1>3, <1>4, <1>5, <1>6

LEMMA GrantedServes ==
  ASSUME Sound, Granted
  PROVE  \E m \in Messages, q \in MessageRecord : Serves(m, q)
<1>0. now \in Nat /\ msgs \in [ Messages -> MessageRecord ] /\ queue \in Seq(Messages) /\ Types
  BY DEF Sound, Types
<1> DEFINE m == Head(queue)
<1>1. m \in Messages /\ msgs[m].pc = "waiting" /\ Sane(msgs[m]) /\ msgs[m] \in MessageRecord
  <2>1. queue # <<>> /\ m \in Messages /\ queue[1] = m /\ 1 \in DOMAIN queue
    BY <1>0 DEF Granted
  <2> HIDE DEF m
  <2> QED BY <1>0, <2>1 DEF Sound, LockAgrees
<1>2. /\ Holding = {} /\ queue # <<>> /\ queue' = Tail(queue) /\ Start(m, msgs[m])
      /\ UNCHANGED <<now, limits, pending>>
  BY DEF Granted
<1>m. m = Head(queue)
  OBVIOUS
<1> HIDE DEF m
<1>3. Idle(msgs[m]) /\ msgs[m].sender \in Senders /\ msgs[m].rule \in Rules
  BY <1>1 DEF Sane
<1>4. PICK q \in MessageRecord : Becomes(m, q) /\ Same(msgs[m], q) /\ Gives(msgs[m], q)
  BY <1>0, <1>1, <1>2, <1>3, StartIs
<1>5. q.pc \in {"done", "failing", "running", "replying"}
  BY <1>4 DEF Gives
<1>6. Sane(q)
  BY <1>0, <1>1, <1>3, <1>4 DEF Gives, Sane, Same, Idle
<1>7. Spending(m, q) /\ Guessing(m, q)
  BY <1>2, <1>4 DEF Spending, Guessing, Same, limits
<1>8. Running(m, q)
  BY <1>1, <1>2, <1>3, <1>4 DEF Running, Gives, Same, Idle, Cooled
<1>9. Locking(m, q)
  BY <1>2, <1>5, <1>m DEF Locking
<1>10. Confirming(m, q)
  BY <1>1, <1>2, <1>4 DEF Confirming, Active
<1> QED BY <1>1, <1>2, <1>4, <1>5, <1>6, <1>7, <1>8, <1>9, <1>10 DEF Serves

\* The steps of a task that the lock and the limits do not concern.
LEMMA LaterServes ==
  ASSUME Sound, NEW m \in Messages, Succeed(m) \/ Fail(m) \/ Replied(m) \/ Asked(m) \/ AskFailed(m)
  PROVE  \E q \in MessageRecord : Serves(m, q)
<1> DEFINE r == msgs[m]
<1>0. now \in Nat /\ Sane(r) /\ msgs \in [ Messages -> MessageRecord ] /\ r \in MessageRecord
  BY DEF Sound, Types
<1>1. UNCHANGED <<now, queue, attempts, failures, locked>>
      /\ r.pc \in {"running", "replying", "failing", "excusing", "asking"} /\ pending' \subseteq pending
  BY DEF Succeed, Fail, Replied, Asked, AskFailed, limits
<1>2. CASE Succeed(m)
  <2>1. PICK pc \in {"replying", "done"} : msgs' = [ msgs EXCEPT ![m].pc = pc, ![m].endAt = now ]
    BY <1>2 DEF Succeed
  <2> DEFINE q == [ r EXCEPT !.pc = pc, !.endAt = now ]
  <2>2. q \in MessageRecord /\ Same(r, q) /\ q.pc = pc /\ q.startAt = r.startAt /\ q.endAt = now /\ Becomes(m, q)
    BY <1>0, <2>1 DEF MessageRecord, Same, Becomes, Times
  <2> HIDE DEF q
  <2>3. Sane(q)
    BY <1>0, <1>2, <2>2 DEF Sane, Same, Succeed, MessageRecord, Times
  <2>4. Running(m, q)
    BY <1>2, <2>2 DEF Running, Same, Succeed
  <2>5. Spending(m, q) /\ Guessing(m, q)
    BY <1>1, <2>2 DEF Spending, Guessing, Same
  <2>6. Locking(m, q) /\ Confirming(m, q)
    BY <1>0, <1>1, <1>2, <2>2 DEF Locking, Confirming, Active, Holding, Succeed, Sane
  <2> QED BY <1>1, <2>2, <2>3, <2>4, <2>5, <2>6 DEF Serves
<1>3. CASE Fail(m) \/ Replied(m) \/ Asked(m) \/ AskFailed(m)
  <2>1. PICK pc \in {"failing", "excusing", "done"} :
          /\ msgs' = [ msgs EXCEPT ![m] = [ r EXCEPT !.pc = pc ] ] /\ UNCHANGED lastRun
          /\ pc = "failing" => r.pc = "running"
          /\ pc = "excusing" => r.pc = "asking"
    BY <1>0, <1>3 DEF Fail, Replied, Asked, AskFailed, Failed, limits
  <2> DEFINE q == [ r EXCEPT !.pc = pc ]
  <2>2. q \in MessageRecord /\ Same(r, q) /\ q.pc = pc /\ q.startAt = r.startAt /\ q.endAt = r.endAt /\ Becomes(m, q)
    BY <1>0, <2>1 DEF MessageRecord, Same, Becomes
  <2> HIDE DEF q
  <2>3. Sane(q)
    BY <1>0, <1>1, <2>1, <2>2 DEF Sane, Same, Idle
  <2>4. Spending(m, q) /\ Guessing(m, q) /\ Running(m, q)
    BY <1>1, <2>1, <2>2 DEF Spending, Guessing, Running, Same
  <2>5. Locking(m, q) /\ Confirming(m, q)
    BY <1>1, <2>1, <2>2 DEF Locking, Confirming, Active, Holding
  <2> QED BY <1>1, <2>2, <2>3, <2>4, <2>5 DEF Serves
<1> QED BY <1>2, <1>3

\* Every step of Next but a reload and a tick is one task's.
LEMMA StepServes ==
  ASSUME Sound, Next
  PROVE  Reload \/ Tick \/ \E m \in Messages, q \in MessageRecord : Serves(m, q)
BY RefusedServes, GuessServes, ConfirmServes, CommandServes, GrantedServes, LaterServes DEF Next

----------------------------------------------------------------------------
(* Types, the lock and the keys.                                           *)

Keys == \A p, q \in pending : p.sender = q.sender /\ p.rule = q.rule => p = q

SoundInv == Sound /\ Keys

LEMMA SoundInit == Init => SoundInv
<1> SUFFICES ASSUME Init PROVE SoundInv
  OBVIOUS
<1>1. Types
  BY NewIs, TimesAssumption DEF Init, Types, MessageRecord
<1>2. LockAgrees
  BY DEF Init, LockAgrees, Holding, New
<1>3. \A m \in Messages : Sane(msgs[m])
  BY TimesAssumption DEF Init, Sane, New, Idle
<1> QED BY <1>1, <1>2, <1>3 DEF SoundInv, Sound, Keys, Init

LEMMA TypesKept ==
  ASSUME Sound, NEW m \in Messages, NEW q \in MessageRecord, Serves(m, q)
  PROVE  Types'
<1>0. Types /\ now \in Nat /\ Lockout \in Nat
  BY TimesAssumption DEF Sound, Types
<1>1. now' \in Nat /\ msgs' \in [ Messages -> MessageRecord ]
  BY <1>0 DEF Serves, Becomes, Types
<1>2. queue' \in Seq(Messages)
  <2>1. queue \in Seq(Messages) /\ Append(queue, m) \in Seq(Messages)
        /\ (queue # <<>> => Tail(queue) \in Seq(Messages))
    BY <1>0 DEF Types
  <2>2. \/ UNCHANGED queue
        \/ queue' = Append(queue, m)
        \/ queue # <<>> /\ queue' = Tail(queue)
    BY Zenon DEF Serves, Locking
  <2> QED BY <2>1, <2>2
<1>3. attempts' \subseteq Messages
  BY <1>0 DEF Serves, Spending, Counting, Types
<1>4. failures' \subseteq Messages /\ locked' \in [ Senders -> Nat ]
  BY <1>0 DEF Serves, Guessing, RecordFailure, Failing, Types
<1>5. lastRun' \in [ Senders \X Rules -> Nat ]
  BY <1>0 DEF Serves, Running, Types
<1>6. pending' \subseteq Challenge
  BY <1>0 DEF Serves, Confirming, Types
<1> QED BY <1>1, <1>2, <1>3, <1>4, <1>5, <1>6 DEF Types

LEMMA LockKept ==
  ASSUME Sound, NEW m \in Messages, NEW q \in MessageRecord, Serves(m, q)
  PROVE  LockAgrees'
<1>0. /\ LockAgrees /\ queue \in Seq(Messages) /\ msgs \in [ Messages -> MessageRecord ]
      /\ \A n \in Messages : msgs'[n] = IF n = m THEN q ELSE msgs[n]
      /\ Locking(m, q)
  BY DEF Sound, Types, Serves, Becomes
<1>1. CASE /\ UNCHANGED queue /\ msgs[m].pc # "waiting" /\ q.pc # "waiting"
           /\ q.pc \in {"running", "replying", "failing"} => m \in Holding \/ Holding = {}
  BY <1>0, <1>1 DEF LockAgrees, Holding
<1>2. CASE queue' = Append(queue, m) /\ msgs[m].pc # "waiting" /\ q.pc = "waiting"
  <2>1. /\ \A i \in DOMAIN queue : queue'[i] = queue[i] /\ queue[i] # m
        /\ DOMAIN queue' = DOMAIN queue \cup {Len(queue) + 1}
        /\ queue'[Len(queue) + 1] = m
    BY <1>0, <1>2 DEF LockAgrees
  <2>2. \A k, n \in Holding' : k = n
    BY <1>0, <1>2 DEF LockAgrees, Holding
  <2>3. \A n \in Messages : msgs'[n].pc = "waiting" <=> \E i \in DOMAIN queue' : queue'[i] = n
    BY <1>0, <1>2, <2>1 DEF LockAgrees
  <2>4. \A i, k \in DOMAIN queue' : queue'[i] = queue'[k] => i = k
    BY <1>0, <2>1 DEF LockAgrees
  <2> QED BY <2>2, <2>3, <2>4 DEF LockAgrees
<1>3. CASE /\ Holding = {} /\ queue # <<>> /\ m = Head(queue) /\ queue' = Tail(queue)
           /\ q.pc # "waiting"
  <2>1. /\ Len(queue) \in Nat /\ Len(queue) > 0 /\ m = queue[1] /\ DOMAIN queue = 1..Len(queue)
        /\ DOMAIN queue' = 1..(Len(queue) - 1) /\ \A i \in DOMAIN queue' : queue'[i] = queue[i + 1]
    BY <1>0, <1>3
  <2>2. \A k, n \in Holding' : k = n
    BY <1>0, <1>3 DEF LockAgrees, Holding
  <2>3. \A i, k \in DOMAIN queue' : queue'[i] = queue'[k] => i = k
    <3>1. \A i \in DOMAIN queue' : i + 1 \in DOMAIN queue /\ i \in Nat
      BY <2>1
    <3> QED BY <1>0, <2>1, <3>1 DEF LockAgrees
  <2>4. ASSUME NEW n \in Messages
        PROVE  msgs'[n].pc = "waiting" <=> \E i \in DOMAIN queue' : queue'[i] = n
    <3>1. CASE n = m
      <4>1. \A i \in DOMAIN queue' : i + 1 \in DOMAIN queue /\ i + 1 # 1 /\ 1 \in DOMAIN queue
        BY <2>1
      <4>2. \A i \in DOMAIN queue' : queue'[i] # n
        BY <1>0, <2>1, <3>1, <4>1 DEF LockAgrees
      <4> QED BY <1>0, <1>3, <3>1, <4>2
    <3>2. CASE n # m
      <4>1. msgs'[n].pc = "waiting" <=> \E i \in DOMAIN queue : queue[i] = n
        BY <1>0, <3>2 DEF LockAgrees
      <4>2. ASSUME NEW i \in DOMAIN queue, queue[i] = n
            PROVE  i - 1 \in DOMAIN queue' /\ queue'[i - 1] = n
        BY <2>1, <3>2, <4>2
      <4>3. ASSUME NEW i \in DOMAIN queue', queue'[i] = n
            PROVE  i + 1 \in DOMAIN queue /\ queue[i + 1] = n
        BY <2>1, <4>3
      <4> QED BY <4>1, <4>2, <4>3
    <3> QED BY <3>1, <3>2
  <2> QED BY <2>2, <2>3, <2>4 DEF LockAgrees
<1> QED BY <1>0, <1>1, <1>2, <1>3 DEF Locking

LEMMA ReloadSound == SoundInv /\ Reload => SoundInv'
<1> SUFFICES ASSUME SoundInv, Reload PROVE SoundInv'
  OBVIOUS
<1>0. now \in Nat /\ now' = now /\ msgs \in [ Messages -> MessageRecord ]
  BY DEF SoundInv, Sound, Types, Reload
<1>1. \A m \in Messages : /\ msgs'[m] \in MessageRecord /\ msgs'[m].pc \in {"new", "done"}
                          /\ msgs'[m].pc = "new" => msgs'[m] = New /\ msgs'[m].spentAt = Never
                          /\ Idle(msgs'[m]) /\ msgs'[m].failedAt = Never /\ msgs'[m].spentAt = Never
  BY <1>0, NewIs DEF Reload, MessageRecord, New, Idle
<1>2. Types'
  BY <1>0, <1>1 DEF Types, Reload
<1>3. LockAgrees'
  BY <1>1 DEF LockAgrees, Holding, Reload
<1>4. \A m \in Messages : Sane(msgs[m])'
  BY <1>0, <1>1 DEF Sane, Idle
<1> QED BY <1>2, <1>3, <1>4 DEF SoundInv, Sound, Keys, Reload

LEMMA TickSound == SoundInv /\ Tick => SoundInv'
<1> SUFFICES ASSUME SoundInv, Tick PROVE SoundInv'
  OBVIOUS
<1>0. now \in Nat /\ now' = now + 1 /\ msgs \in [ Messages -> MessageRecord ]
      /\ UNCHANGED <<msgs, queue, limits, lastRun, pending>>
  BY DEF SoundInv, Sound, Types, Tick
<1>1. Types' /\ LockAgrees' /\ Keys'
  BY <1>0 DEF SoundInv, Sound, Types, LockAgrees, Keys, Holding, limits
<1>2. ASSUME NEW m \in Messages PROVE Sane(msgs[m])'
  <2>1. Sane(msgs[m]) /\ msgs[m] \in MessageRecord /\ msgs'[m] = msgs[m]
    BY <1>0 DEF SoundInv, Sound
  <2>2. \A t \in Times : t <= now => t <= now + 1
    BY <1>0 DEF Times
  <2> QED BY <1>0, <2>1, <2>2 DEF Sane, MessageRecord, Idle
<1> QED BY <1>1, <1>2 DEF SoundInv, Sound

LEMMA SoundStep == SoundInv /\ [Next]_vars => SoundInv'
<1> SUFFICES ASSUME SoundInv, [Next]_vars PROVE SoundInv'
  OBVIOUS
<1>1. ASSUME NEW m \in Messages, NEW q \in MessageRecord, Serves(m, q) PROVE SoundInv'
  <2>1. Types' /\ LockAgrees'
    BY <1>1, TypesKept, LockKept DEF SoundInv
  <2>2. Keys'
    BY <1>1 DEF SoundInv, Keys, Serves, Confirming
  <2>3. \A n \in Messages : Sane(msgs[n])'
    BY <1>1 DEF SoundInv, Sound, Types, Serves, Becomes, Sane, Idle
  <2> QED BY <2>1, <2>2, <2>3 DEF SoundInv, Sound
<1>2. CASE UNCHANGED vars
  BY <1>2 DEF SoundInv, Sound, Types, LockAgrees, Keys, Holding, Sane, Idle, vars, limits
<1> QED BY <1>1, <1>2, ReloadSound, TickSound, StepServes DEF SoundInv

LEMMA SoundAlways == Spec => []SoundInv
BY SoundInit, SoundStep, PTL DEF Spec

\* The state keeps its shape, the lock has one holder and its queue holds the waiting
\* tasks once each, and a sender has one open code for a rule, with any number of tasks.
THEOREM TypeCorrect == Spec => []TypeOK
<1>1. SoundInv => TypeOK
  BY DEF SoundInv, Sound, Types, Keys, TypeOK
<1> QED BY <1>1, SoundAlways, PTL

----------------------------------------------------------------------------
(* Rate limits.                                                            *)

LEMMA Smaller ==
  ASSUME NEW S, NEW T, IsFiniteSet(S), T \subseteq S
  PROVE  IsFiniteSet(T) /\ Cardinality(T) \in Nat /\ Cardinality(S) \in Nat
         /\ Cardinality(T) <= Cardinality(S)
BY FS_Subset, FS_CardinalityType

LEMMA OneMore ==
  ASSUME NEW S, NEW T, NEW x, NEW k \in Nat, IsFiniteSet(S), T \subseteq S \cup {x}, Cardinality(S) < k
  PROVE  Cardinality(T) <= k
<1>1. IsFiniteSet(S \cup {x}) /\ Cardinality(S) \in Nat /\ Cardinality(S \cup {x}) <= Cardinality(S) + 1
  BY FS_AddElement, FS_CardinalityType
<1>2. Cardinality(T) \in Nat /\ Cardinality(T) <= Cardinality(S \cup {x}) /\ Cardinality(S \cup {x}) \in Nat
  BY <1>1, Smaller
<1> QED BY <1>1, <1>2

\* A message that spent within the window that ends now still counts.
Remembered ==
  \A m \in Messages : msgs[m].spentAt # Never /\ now < msgs[m].spentAt + Window => m \in attempts

RateInv == Remembered /\ RateKept

\* Spending keeps the limits: a window with the new message in it holds only messages
\* that count besides.
LEMMA SpendKept ==
  ASSUME Sound, RateInv, NEW m \in Messages, NEW q \in MessageRecord, Becomes(m, q), UNCHANGED now,
         q.spentAt = now, msgs[m].spentAt = Never, q.sender \in Senders,
         Allowed(q.sender), attempts' = Counting \cup {m}
  PROVE  RateInv'
<1>0. /\ now \in Nat /\ Window \in Nat \ {0} /\ GlobalLimit \in Nat /\ SenderLimit \in Nat
      /\ IsFiniteSet(Messages) /\ attempts \subseteq Messages
      /\ \A n \in Messages : /\ msgs'[n] = IF n = m THEN q ELSE msgs[n]
                             /\ msgs[n].spentAt \in Times /\ msgs[n].spentAt <= now
  BY TimesAssumption, SetsAssumption DEF Sound, Types, Sane, Becomes, MessageRecord
<1>1. Remembered'
  BY <1>0 DEF RateInv, Remembered, Counting, Times
<1> DEFINE By(S, s) == { n \in S : msgs[n].sender = s }
<1>2. /\ IsFiniteSet(Counting) /\ Cardinality(Counting) < GlobalLimit
      /\ IsFiniteSet(By(Counting, q.sender)) /\ Cardinality(By(Counting, q.sender)) < SenderLimit
  <2>1. Counting \subseteq Messages /\ By(Counting, q.sender) \subseteq Messages
    BY <1>0 DEF Counting
  <2> QED BY <1>0, <2>1, Smaller DEF Allowed
<1>3. ASSUME NEW a \in Messages, msgs'[a].spentAt # Never, NEW s \in Senders
      PROVE  /\ Cardinality(SpentFrom(a)') <= GlobalLimit
             /\ Cardinality({ n \in SpentFrom(a)' : msgs'[n].sender = s }) <= SenderLimit
  <2> DEFINE T == { n \in SpentFrom(a)' : msgs'[n].sender = s }
  <2>1. CASE now < msgs'[a].spentAt + Window
    <3>1. SpentFrom(a)' \subseteq Counting \cup {m}
      BY <1>0, <1>3, <2>1 DEF SpentFrom, Counting, RateInv, Remembered, Times
    <3>2. Cardinality(SpentFrom(a)') <= GlobalLimit
      BY <1>0, <1>2, <3>1, OneMore
    <3>3. CASE s = q.sender
      <4>0. Counting \subseteq Messages
        BY <1>0 DEF Counting
      <4>1. T \subseteq By(Counting, q.sender) \cup {m}
        BY <1>0, <3>1, <3>3, <4>0
      <4> HIDE DEF T, By
      <4>2. Cardinality(T) <= SenderLimit
        BY <1>0, <1>2, <4>1, OneMore
      <4> QED BY <3>2, <4>2 DEF T
    <3>4. CASE s # q.sender
      <4>1. CASE T = {}
        <5>1. Cardinality(T) = 0
          BY <4>1, FS_EmptySet
        <5> HIDE DEF T
        <5> QED BY <1>0, <3>2, <5>1 DEF T
      <4>2. ASSUME NEW b \in T PROVE Cardinality(T) <= SenderLimit
        \* The first of the sender's in the window begins a window that holds them all.
        <5> DEFINE first == IF a = m THEN b ELSE a
        <5>1. first \in Messages /\ msgs[first].spentAt # Never
          BY <1>0, <1>3, <3>4, <4>2 DEF SpentFrom
        <5>2. T \subseteq By(SpentFrom(first), s)
          BY <1>0, <1>3, <3>4, <4>2 DEF SpentFrom, Times
        <5>3. By(SpentFrom(first), s) \subseteq Messages
          BY DEF SpentFrom
        <5>4. Cardinality(By(SpentFrom(first), s)) <= SenderLimit
          BY <5>1 DEF RateInv, RateKept
        <5>5. IsFiniteSet(By(SpentFrom(first), s))
          BY <1>0, <5>3, FS_Subset
        <5> HIDE DEF T, By, first
        <5> QED BY <1>0, <5>2, <5>4, <5>5, Smaller
      <4> QED BY <3>2, <4>1, <4>2
    <3> QED BY <3>3, <3>4
  <2>2. CASE ~(now < msgs'[a].spentAt + Window)
    <3>1. a # m /\ msgs[a].spentAt # Never
      BY <1>0, <1>3, <2>2
    <3>2. SpentFrom(a)' \subseteq SpentFrom(a) /\ T \subseteq By(SpentFrom(a), s)
      BY <1>0, <2>2, <3>1 DEF SpentFrom, Times
    <3>3. SpentFrom(a) \subseteq Messages /\ By(SpentFrom(a), s) \subseteq Messages
      BY DEF SpentFrom
    <3>4. IsFiniteSet(SpentFrom(a)) /\ IsFiniteSet(By(SpentFrom(a), s))
      BY <1>0, <3>3, FS_Subset
    <3>5. Cardinality(SpentFrom(a)) <= GlobalLimit /\ Cardinality(By(SpentFrom(a), s)) <= SenderLimit
      BY <3>1 DEF RateInv, RateKept
    <3>6. /\ Cardinality(SpentFrom(a)') <= Cardinality(SpentFrom(a))
          /\ Cardinality(T) <= Cardinality(By(SpentFrom(a), s))
          /\ Cardinality(SpentFrom(a)') \in Nat /\ Cardinality(SpentFrom(a)) \in Nat
          /\ Cardinality(T) \in Nat /\ Cardinality(By(SpentFrom(a), s)) \in Nat
      <4> HIDE DEF T, By
      <4> QED BY <3>2, <3>4, Smaller
    <3> HIDE DEF T, By
    <3> QED BY <1>0, <3>5, <3>6 DEF T
  <2> QED BY <2>1, <2>2
<1>4. ASSUME NEW a \in Messages, msgs'[a].spentAt # Never PROVE Cardinality(SpentFrom(a)') <= GlobalLimit
  <2>1. q.sender \in Senders
    OBVIOUS
  <2> QED BY <1>3, <1>4, <2>1
<1>5. RateKept'
  BY <1>3, <1>4 DEF RateKept
<1> QED BY <1>1, <1>5 DEF RateInv

LEMMA RateStep ==
  ASSUME SoundInv, RateInv, [Next]_vars
  PROVE  RateInv'
<1>0. Sound /\ now \in Nat /\ Window \in Nat /\ msgs \in [ Messages -> MessageRecord ]
  BY TimesAssumption DEF SoundInv, Sound, Types
\* Steps after which the same messages have spent at the same times.
<1>1. ASSUME /\ now' >= now /\ now' \in Nat /\ attempts' \in {attempts, Counting}
             /\ \A n \in Messages : /\ msgs'[n].spentAt = msgs[n].spentAt
                                    /\ msgs[n].spentAt # Never => msgs'[n].sender = msgs[n].sender
      PROVE  RateInv'
  <2>1. Remembered'
    BY <1>0, <1>1 DEF RateInv, Remembered, Counting, MessageRecord, Times
  <2>2. ASSUME NEW a \in Messages
        PROVE  /\ SpentFrom(a)' = SpentFrom(a)
               /\ \A s \in Senders : { n \in SpentFrom(a)' : msgs'[n].sender = s } = { n \in SpentFrom(a) : msgs[n].sender = s }
    BY <1>1 DEF SpentFrom
  <2>3. RateKept'
    BY <1>1, <2>2 DEF RateInv, RateKept
  <2> QED BY <2>1, <2>3 DEF RateInv
<1>2. ASSUME NEW m \in Messages, NEW q \in MessageRecord, Serves(m, q) PROVE RateInv'
  <2>1. CASE /\ q.spentAt = now /\ msgs[m].spentAt = Never /\ q.sender \in Senders
             /\ Allowed(q.sender) /\ attempts' = Counting \cup {m}
    BY <1>0, <1>2, <2>1, SpendKept DEF Serves
  <2>2. CASE /\ q.spentAt = msgs[m].spentAt /\ attempts' \in {attempts, Counting}
             /\ q.spentAt # Never => q.sender = msgs[m].sender
    BY <1>0, <1>1, <1>2, <2>2 DEF Serves, Becomes
  <2> QED BY <1>2, <2>1, <2>2 DEF Serves, Spending
<1>3. CASE Reload
  BY <1>3 DEF Reload, New, RateInv, Remembered, RateKept
<1>4. CASE Tick
  BY <1>0, <1>1, <1>4 DEF Tick, limits
<1>5. CASE UNCHANGED vars
  BY <1>0, <1>1, <1>5 DEF vars, limits
<1> QED BY <1>0, <1>2, <1>3, <1>4, <1>5, StepServes

\* The limits hold in every window, for any window and any limits.
THEOREM RatesKept == Spec => []RateKept
<1>1. Init => RateInv
  BY DEF Init, New, RateInv, Remembered, RateKept
<1>2. SoundInv /\ RateInv /\ [Next]_vars => RateInv'
  BY RateStep
<1>3. RateInv => RateKept
  BY DEF RateInv
<1> QED BY <1>1, <1>2, <1>3, SoundAlways, PTL DEF Spec

----------------------------------------------------------------------------
(* Wrong guesses.                                                          *)

\* A failure counts, is older than the window, or led to a lock-out.
Accounted(m) ==
  \/ m \in failures
  \/ now >= msgs[m].failedAt + Window
  \/ locked[msgs[m].sender] >= msgs[m].failedAt + Lockout

Below == \A s \in Senders : Cardinality({ m \in failures : msgs[m].sender = s }) < FailureLimit

GuessInv ==
  /\ \A m \in Messages : msgs[m].failedAt # Never => Accounted(m)
  /\ \A m \in failures : msgs[m].failedAt # Never
  /\ Below /\ GuessesSpaced

\* A sender that is not locked out has few failures that a new one could follow.
LEMMA FailKept ==
  ASSUME Sound, GuessInv, NEW m \in Messages, NEW q \in MessageRecord, Becomes(m, q), UNCHANGED now,
         q.failedAt = now, msgs[m].failedAt = Never, q.sender \in Senders, msgs[m].sender = None,
         ~IsLocked(q.sender), RecordFailure(m, q.sender)
  PROVE  GuessInv'
<1> DEFINE s == q.sender
           mine == Failing(s) \cup {m}
           others == { n \in failures : msgs[n].sender # s }
<1>0. /\ now \in Nat /\ Window \in Nat \ {0} /\ Lockout \in Nat \ {0} /\ FailureLimit \in Nat
      /\ IsFiniteSet(Messages) /\ failures \subseteq Messages /\ None \notin Senders
      /\ locked \in [ Senders -> Nat ] /\ locked[s] <= now
      /\ \A n \in Messages : /\ msgs'[n] = IF n = m THEN q ELSE msgs[n]
                             /\ msgs[n].failedAt \in Times /\ msgs[n].failedAt <= now
                             /\ msgs[n].failedAt # Never => msgs[n].sender \in Senders
  BY TimesAssumption, SetsAssumption DEF Sound, Types, Sane, Becomes, MessageRecord, IsLocked
<1>1. \/ /\ Cardinality(mine) >= FailureLimit
         /\ locked' = [ locked EXCEPT ![s] = now + Lockout ] /\ failures' = others
      \/ /\ ~(Cardinality(mine) >= FailureLimit)
         /\ failures' = others \cup mine /\ UNCHANGED locked
  BY DEF RecordFailure
<1>2. Failing(s) \subseteq Messages /\ IsFiniteSet(Failing(s)) /\ Cardinality(Failing(s)) < FailureLimit
  <2> DEFINE F == { n \in failures : msgs[n].sender = s }
  <2>1. Cardinality(F) < FailureLimit
    BY DEF GuessInv, Below
  <2>2. F \subseteq Messages /\ Failing(s) \subseteq F
    BY <1>0 DEF Failing
  <2>3. IsFiniteSet(F)
    BY <1>0, <2>2, FS_Subset
  <2> HIDE DEF F
  <2>4. IsFiniteSet(Failing(s)) /\ Cardinality(Failing(s)) <= Cardinality(F)
        /\ Cardinality(F) \in Nat /\ Cardinality(Failing(s)) \in Nat
    BY <2>2, <2>3, Smaller
  <2> QED BY <1>0, <2>1, <2>2, <2>4
<1>3. \A n \in Messages : msgs'[n].failedAt # Never => Accounted(n)'
  <2> SUFFICES ASSUME NEW n \in Messages, msgs'[n].failedAt # Never PROVE Accounted(n)'
    OBVIOUS
  <2>1. CASE n = m
    BY <1>0, <1>1, <2>1 DEF Accounted
  <2>2. CASE n # m
    <3>1. Accounted(n) /\ msgs'[n] = msgs[n] /\ msgs[n].failedAt \in Nat /\ msgs[n].sender \in Senders
      BY <1>0, <2>2 DEF GuessInv, Times
    <3>2. CASE n \in failures
      <4>1. n \in others \/ n \in mine \/ now >= msgs[n].failedAt + Window
        BY <1>0, <3>1, <3>2 DEF Failing
      <4>2. n \in mine => msgs[n].sender = s
        BY <2>2 DEF Failing
      <4> HIDE DEF s, mine, others
      <4> QED BY <1>0, <1>1, <3>1, <4>1, <4>2 DEF Accounted
    <3>3. CASE n \notin failures
      BY <1>0, <1>1, <3>1, <3>3 DEF Accounted
    <3> QED BY <3>2, <3>3
  <2> QED BY <2>1, <2>2
<1>4. Below'
  <2> SUFFICES ASSUME NEW t \in Senders
               PROVE  Cardinality({ n \in failures' : msgs'[n].sender = t }) < FailureLimit
    BY DEF Below
  <2> DEFINE G == { n \in failures' : msgs'[n].sender = t }
             F == { n \in failures : msgs[n].sender = t }
  <2>1. Cardinality(F) < FailureLimit /\ F \subseteq Messages
    BY <1>0 DEF GuessInv, Below
  <2>2. IsFiniteSet(F) /\ Cardinality(F) \in Nat
    BY <1>0, <2>1, FS_Subset, FS_CardinalityType
  <2>3. CASE t # s
    <3>1. G \subseteq F
      <4>1. m \in mine /\ \A n \in mine \ {m} : msgs[n].sender = s /\ n \in Messages
        BY <1>2 DEF Failing
      <4>2. \A n \in failures' : n \in failures \/ n \in mine
        BY <1>1
      <4> QED BY <1>0, <2>3, <4>1, <4>2
    <3> HIDE DEF F, G
    <3>2. Cardinality(G) <= Cardinality(F) /\ Cardinality(G) \in Nat
      BY <2>2, <3>1, Smaller
    <3> QED BY <1>0, <2>1, <2>2, <3>2 DEF G
  <2>4. CASE t = s /\ failures' = others
    <3>1. G = {}
      BY <1>0, <2>4 DEF GuessInv
    <3>2. Cardinality(G) = 0
      BY <3>1, FS_EmptySet
    <3> HIDE DEF G
    <3> QED BY <3>2, TimesAssumption DEF G
  <2>5. CASE t = s /\ ~(Cardinality(mine) >= FailureLimit) /\ failures' = others \cup mine
    <3>1. G \subseteq mine /\ IsFiniteSet(mine)
      BY <1>0, <1>2, <2>5, FS_AddElement DEF GuessInv
    <3> HIDE DEF G, mine
    <3>2. Cardinality(G) <= Cardinality(mine) /\ Cardinality(G) \in Nat /\ Cardinality(mine) \in Nat
      BY <3>1, Smaller
    <3> QED BY <1>0, <2>5, <3>2 DEF G
  <2> QED BY <1>1, <2>3, <2>4, <2>5
<1>5. \A n \in failures' : msgs'[n].failedAt # Never
  BY <1>0, <1>1 DEF GuessInv, Failing
<1>6. GuessesSpaced'
  <2> SUFFICES ASSUME NEW a \in Messages, msgs'[a].failedAt # Never
               PROVE  Cardinality(FailedFrom(a)') <= FailureLimit
    BY DEF GuessesSpaced
  <2>1. CASE /\ msgs'[a].sender = s
             /\ now < msgs'[a].failedAt + Window /\ now < msgs'[a].failedAt + Lockout
    <3>1. FailedFrom(a)' \subseteq mine
      <4> SUFFICES ASSUME NEW n \in FailedFrom(a)', n # m PROVE n \in Failing(s)
        OBVIOUS
      <4>1. /\ n \in Messages /\ msgs'[n] = msgs[n] /\ msgs[n].failedAt \in Nat /\ msgs[n].sender = s
            /\ msgs'[a].failedAt <= msgs[n].failedAt /\ msgs'[a].failedAt \in Nat
        BY <1>0, <2>1 DEF FailedFrom, Times
      <4>2. n \in failures
        BY <1>0, <2>1, <4>1 DEF GuessInv, Accounted
      <4> QED BY <1>0, <2>1, <4>1, <4>2 DEF Failing
    <3> QED BY <1>0, <1>2, <3>1, OneMore
  <2>2. CASE ~ /\ msgs'[a].sender = s
               /\ now < msgs'[a].failedAt + Window /\ now < msgs'[a].failedAt + Lockout
    <3>1. a # m /\ msgs[a].failedAt # Never
      BY <1>0, <2>2
    <3>2. FailedFrom(a)' \subseteq FailedFrom(a)
      BY <1>0, <2>2, <3>1 DEF FailedFrom, Times
    <3>3. FailedFrom(a) \subseteq Messages /\ Cardinality(FailedFrom(a)) <= FailureLimit
      BY <3>1 DEF FailedFrom, GuessInv, GuessesSpaced
    <3>4. IsFiniteSet(FailedFrom(a))
      BY <1>0, <3>3, FS_Subset
    <3>5. Cardinality(FailedFrom(a)') <= Cardinality(FailedFrom(a))
          /\ Cardinality(FailedFrom(a)') \in Nat /\ Cardinality(FailedFrom(a)) \in Nat
      BY <3>2, <3>4, Smaller
    <3> QED BY <1>0, <3>3, <3>5
  <2> QED BY <2>1, <2>2
<1> QED BY <1>3, <1>4, <1>5, <1>6 DEF GuessInv

LEMMA GuessStep ==
  ASSUME SoundInv, GuessInv, [Next]_vars
  PROVE  GuessInv'
<1>0. Sound /\ now \in Nat /\ Window \in Nat /\ msgs \in [ Messages -> MessageRecord ] /\ None \notin Senders
      /\ failures \subseteq Messages
  BY TimesAssumption, SetsAssumption DEF SoundInv, Sound, Types
\* Steps after which the same messages of the same senders have failed.
<1>1. ASSUME /\ now' >= now /\ now' \in Nat /\ UNCHANGED <<failures, locked>>
             /\ \A n \in Messages : /\ msgs'[n].failedAt = msgs[n].failedAt
                                    /\ msgs[n].failedAt # Never => msgs'[n].sender = msgs[n].sender
      PROVE  GuessInv'
  <2>1. \A n \in Messages : msgs'[n].failedAt # Never => Accounted(n)'
    BY <1>0, <1>1 DEF GuessInv, Accounted, MessageRecord, Times
  <2>2. \A n \in failures' : msgs'[n].failedAt # Never
    BY <1>0, <1>1 DEF GuessInv
  <2>3. Below'
    <3>1. \A s \in Senders : { n \in failures' : msgs'[n].sender = s } = { n \in failures : msgs[n].sender = s }
      BY <1>0, <1>1 DEF GuessInv
    <3> QED BY <3>1 DEF GuessInv, Below
  <2>4. GuessesSpaced'
    <3>1. \A a \in Messages : msgs[a].failedAt # Never => FailedFrom(a)' = FailedFrom(a)
      BY <1>1 DEF FailedFrom
    <3> QED BY <1>1, <3>1 DEF GuessInv, GuessesSpaced
  <2> QED BY <2>1, <2>2, <2>3, <2>4 DEF GuessInv
<1>2. ASSUME NEW m \in Messages, NEW q \in MessageRecord, Serves(m, q) PROVE GuessInv'
  <2>1. CASE /\ q.failedAt = now /\ msgs[m].failedAt = Never /\ q.sender \in Senders
             /\ msgs[m].sender = None /\ ~IsLocked(q.sender) /\ RecordFailure(m, q.sender)
    BY <1>0, <1>2, <2>1, FailKept DEF Serves
  <2>2. CASE /\ q.failedAt = msgs[m].failedAt /\ UNCHANGED <<failures, locked>>
             /\ msgs[m].sender # None => q.sender = msgs[m].sender
    <3>1. msgs[m].failedAt # Never => msgs[m].sender # None
      BY <1>0 DEF Sound, Sane
    <3> QED BY <1>0, <1>1, <1>2, <2>2, <3>1 DEF Serves, Becomes
  <2> QED BY <1>2, <2>1, <2>2 DEF Serves, Guessing
<1>3. CASE Reload
  <2>1. \A n \in Messages : msgs'[n].failedAt = Never
    BY <1>3 DEF Reload, New
  <2>2. \A s \in Senders : Cardinality({ n \in failures' : msgs'[n].sender = s }) = 0
    <3>1. \A s \in Senders : { n \in failures' : msgs'[n].sender = s } = {}
      BY <1>3 DEF Reload
    <3> QED BY <3>1, FS_EmptySet
  <2> QED BY <1>3, <2>1, <2>2, TimesAssumption DEF Reload, GuessInv, Below, GuessesSpaced
<1>4. CASE Tick
  BY <1>0, <1>1, <1>4 DEF Tick, limits
<1>5. CASE UNCHANGED vars
  BY <1>0, <1>1, <1>5 DEF vars, limits
<1> QED BY <1>0, <1>2, <1>3, <1>4, <1>5, StepServes

\* No more wrong guesses of one sender are looked at than the failure limit, within a
\* window or a lock-out.
THEOREM GuessesBounded == Spec => []GuessesSpaced
<1>1. Init => GuessInv
  <2> SUFFICES ASSUME Init PROVE GuessInv
    OBVIOUS
  <2>1. \A s \in Senders : { n \in failures : msgs[n].sender = s } = {}
    BY DEF Init
  <2>2. \A s \in Senders : Cardinality({ n \in failures : msgs[n].sender = s }) = 0
    BY <2>1, FS_EmptySet
  <2>3. Below
    BY <2>2, TimesAssumption DEF Below
  <2> QED BY <2>3 DEF Init, New, GuessInv, GuessesSpaced
<1>2. SoundInv /\ GuessInv /\ [Next]_vars => GuessInv'
  BY GuessStep
<1>3. GuessInv => GuessesSpaced
  BY DEF GuessInv
<1> QED BY <1>1, <1>2, <1>3, SoundAlways, PTL DEF Spec

----------------------------------------------------------------------------
(* Cooldown.                                                               *)

Key(m) == <<msgs[m].sender, msgs[m].rule>>

\* The runs of one rule for one sender that ended and any other that began.
RunInv ==
  /\ \A m \in Messages : msgs[m].endAt # Never => lastRun[Key(m)] >= msgs[m].endAt
  /\ \A m, n \in Messages :
       msgs[m].pc = "running" /\ msgs[n].endAt # Never /\ Key(m) = Key(n)
         => msgs[m].startAt >= msgs[n].endAt + Cooldown[msgs[n].rule]
  /\ \A key \in Senders \X Rules : lastRun[key] <= now
  /\ CooldownKept

LEMMA RunStep ==
  ASSUME SoundInv, RunInv, [Next]_vars
  PROVE  RunInv'
<1>0. /\ Sound /\ now \in Nat /\ msgs \in [ Messages -> MessageRecord ] /\ None \notin Senders \cup Rules
      /\ lastRun \in [ Senders \X Rules -> Nat ] /\ Cooldown \in [ Rules -> Nat ]
      /\ \A n \in Messages : /\ msgs[n].startAt \in Times /\ msgs[n].endAt \in Times
                             /\ msgs[n].startAt # Never => Key(n) \in Senders \X Rules
                             /\ Sane(msgs[n])
  BY TimesAssumption, SetsAssumption DEF SoundInv, Sound, Types, MessageRecord, Sane, Key
\* Steps that begin and end no run.
<1>1. ASSUME /\ now' >= now /\ now' \in Nat /\ UNCHANGED lastRun
             /\ \A n \in Messages : /\ msgs'[n].startAt = msgs[n].startAt /\ msgs'[n].endAt = msgs[n].endAt
                                    /\ msgs[n].startAt # Never => /\ msgs'[n].sender = msgs[n].sender
                                                                 /\ msgs'[n].rule = msgs[n].rule
                                    /\ msgs'[n].pc = "running" => msgs[n].pc = "running"
      PROVE  RunInv'
  <2>1. \A n \in Messages :
          /\ msgs[n].startAt # Never => msgs'[n].sender = msgs[n].sender /\ msgs'[n].rule = msgs[n].rule
          /\ msgs[n].endAt # Never => msgs[n].startAt # Never
          /\ msgs[n].pc = "running" => msgs[n].startAt # Never
    BY <1>0, <1>1 DEF Sane
  <2>2. ASSUME NEW n \in Messages, msgs'[n].endAt # Never PROVE lastRun'[Key(n)'] >= msgs'[n].endAt
    <3>1. msgs'[n].endAt = msgs[n].endAt /\ Key(n)' = Key(n) /\ lastRun' = lastRun
      BY <1>1, <2>1, <2>2 DEF Key
    <3> QED BY <2>2, <3>1 DEF RunInv
  <2>3. ASSUME NEW k \in Messages, NEW n \in Messages,
               msgs'[k].pc = "running", msgs'[n].endAt # Never, Key(k)' = Key(n)'
        PROVE  msgs'[k].startAt >= msgs'[n].endAt + Cooldown[msgs'[n].rule]
    <3>1. /\ msgs'[n].endAt = msgs[n].endAt /\ msgs'[n].rule = msgs[n].rule /\ Key(n)' = Key(n)
          /\ msgs'[k].startAt = msgs[k].startAt /\ msgs[k].pc = "running" /\ Key(k)' = Key(k)
      BY <1>1, <2>1, <2>3 DEF Key
    <3> QED BY <2>3, <3>1 DEF RunInv
  <2>4. \A key \in Senders \X Rules : lastRun'[key] <= now'
    BY <1>0, <1>1 DEF RunInv
  <2>5. ASSUME NEW a \in Messages, NEW b \in Messages, a # b,
               msgs'[a].endAt # Never, msgs'[b].endAt # Never,
               msgs'[a].sender = msgs'[b].sender, msgs'[a].rule = msgs'[b].rule
        PROVE  \/ msgs'[b].startAt >= msgs'[a].endAt + Cooldown[msgs'[a].rule]
               \/ msgs'[a].startAt >= msgs'[b].endAt + Cooldown[msgs'[a].rule]
    <3>1. \A n \in {a, b} : /\ msgs'[n].endAt = msgs[n].endAt /\ msgs'[n].startAt = msgs[n].startAt
                          /\ msgs'[n].rule = msgs[n].rule /\ msgs'[n].sender = msgs[n].sender
      BY <1>1, <2>1, <2>5
    <3> QED BY <2>5, <3>1 DEF RunInv, CooldownKept
  <2>6. CooldownKept'
    BY <2>5 DEF CooldownKept
  <2> QED BY <2>2, <2>3, <2>4, <2>6 DEF RunInv
<1>2. ASSUME NEW m \in Messages, NEW q \in MessageRecord, Serves(m, q) PROVE RunInv'
  <2>0. /\ \A n \in Messages : msgs'[n] = IF n = m THEN q ELSE msgs[n]
        /\ now' = now /\ q.startAt \in Times /\ q.endAt \in Times
        /\ \A n \in Messages \ {m} : Key(n)' = Key(n)
        /\ Key(m)' = <<q.sender, q.rule>>
    BY <1>0, <1>2 DEF Serves, Becomes, MessageRecord, Key
  <2>1. CASE /\ q.startAt = msgs[m].startAt /\ q.endAt = msgs[m].endAt /\ UNCHANGED lastRun
             /\ q.startAt # Never => q.sender = msgs[m].sender /\ q.rule = msgs[m].rule
             /\ q.pc = "running" => msgs[m].pc = "running"
    BY <1>0, <1>1, <2>0, <2>1
  <2>2. CASE /\ Holding = {} /\ q.sender \in Senders /\ q.rule \in Rules /\ Cooled(q)
             /\ q.pc = "running" /\ q.startAt = now /\ q.endAt = Never
             /\ Idle(msgs[m]) /\ UNCHANGED lastRun
    <3>1. \A n \in Messages : msgs'[n].endAt # Never => lastRun'[Key(n)'] >= msgs'[n].endAt
      BY <2>0, <2>2 DEF RunInv
    <3>2. ASSUME NEW k \in Messages, NEW n \in Messages,
                 msgs'[k].pc = "running", msgs'[n].endAt # Never, Key(k)' = Key(n)'
          PROVE  msgs'[k].startAt >= msgs'[n].endAt + Cooldown[msgs'[n].rule]
      <4>1. k = m /\ n # m
        BY <2>0, <2>2, <3>2 DEF Holding
      <4>2. msgs[n].endAt # Never /\ Key(n) = <<q.sender, q.rule>> /\ msgs'[n] = msgs[n] /\ msgs[n].rule = q.rule
        BY <2>0, <3>2, <4>1 DEF Key
      <4>3. lastRun[<<q.sender, q.rule>>] >= msgs[n].endAt /\ lastRun[<<q.sender, q.rule>>] \in Nat
            /\ Cooldown[q.rule] \in Nat /\ now - lastRun[<<q.sender, q.rule>>] >= Cooldown[q.rule]
        BY <1>0, <2>2, <4>2 DEF RunInv, Cooled
      <4> QED BY <1>0, <2>0, <2>2, <4>1, <4>2, <4>3 DEF Times
    <3>3. CooldownKept'
      BY <2>0, <2>2 DEF RunInv, CooldownKept
    <3> QED BY <2>0, <2>2, <3>1, <3>2, <3>3 DEF RunInv
  <2>3. CASE /\ q.endAt = now /\ q.sender \in Senders /\ q.rule \in Rules /\ q.startAt \in Nat
             /\ msgs[m].endAt = Never /\ q.pc # "running"
             /\ lastRun' = [ lastRun EXCEPT ![<<q.sender, q.rule>>] = now ]
             /\ \A n \in Messages \ {m} : msgs[n].pc # "running"
             /\ \A n \in Messages \ {m} : msgs[n].endAt # Never /\ Key(n) = <<q.sender, q.rule>>
                  => q.startAt >= msgs[n].endAt + Cooldown[q.rule]
    <3>1. ASSUME NEW n \in Messages, msgs'[n].endAt # Never PROVE lastRun'[Key(n)'] >= msgs'[n].endAt
      <4>1. CASE n = m
        BY <1>0, <2>0, <2>3, <4>1
      <4>2. CASE n # m
        <5>1. msgs'[n] = msgs[n] /\ Key(n)' = Key(n) /\ msgs[n].startAt # Never
              /\ lastRun[Key(n)] >= msgs[n].endAt /\ Key(n) \in Senders \X Rules
          BY <1>0, <2>0, <3>1, <4>2 DEF RunInv, Sane
        <5>2. msgs[n].endAt <= now
          BY <1>0 DEF Sane
        <5> QED BY <1>0, <2>3, <5>1, <5>2
      <4> QED BY <4>1, <4>2
    <3>2. \A k \in Messages : msgs'[k].pc # "running"
      BY <2>0, <2>3
    <3>3. \A key \in Senders \X Rules : lastRun'[key] <= now'
      BY <1>0, <2>0, <2>3 DEF RunInv
    <3>4. ASSUME NEW a \in Messages, NEW b \in Messages, a # b,
                 msgs'[a].endAt # Never, msgs'[b].endAt # Never,
                 msgs'[a].sender = msgs'[b].sender, msgs'[a].rule = msgs'[b].rule
          PROVE  \/ msgs'[b].startAt >= msgs'[a].endAt + Cooldown[msgs'[a].rule]
                 \/ msgs'[a].startAt >= msgs'[b].endAt + Cooldown[msgs'[a].rule]
      BY <2>0, <2>3, <3>4 DEF Key, RunInv, CooldownKept
    <3>5. CooldownKept'
      BY <3>4 DEF CooldownKept
    <3> QED BY <3>1, <3>2, <3>3, <3>5 DEF RunInv
  <2>4. CASE /\ Holding = {} /\ q.sender \in Senders /\ q.rule \in Rules /\ Cooled(q)
             /\ q.pc = "replying" /\ q.startAt = now /\ q.endAt = now
             /\ Idle(msgs[m]) /\ lastRun' = [ lastRun EXCEPT ![<<q.sender, q.rule>>] = now ]
    <3>1. \A n \in Messages \ {m} : msgs[n].pc # "running"
      BY <2>4 DEF Holding
    <3>2. ASSUME NEW n \in Messages \ {m}, msgs[n].endAt # Never, Key(n) = <<q.sender, q.rule>>
          PROVE  q.startAt >= msgs[n].endAt + Cooldown[q.rule]
      <4>1. lastRun[<<q.sender, q.rule>>] >= msgs[n].endAt /\ lastRun[<<q.sender, q.rule>>] \in Nat
            /\ Cooldown[q.rule] \in Nat /\ now - lastRun[<<q.sender, q.rule>>] >= Cooldown[q.rule]
        BY <1>0, <2>4, <3>2 DEF RunInv, Cooled
      <4> QED BY <1>0, <2>4, <3>2, <4>1 DEF Times
    <3> QED BY <1>0, <2>3, <2>4, <3>1, <3>2 DEF Idle
  <2>5. CASE /\ msgs[m].pc = "running" /\ q.pc # "running"
             /\ q.sender = msgs[m].sender /\ q.rule = msgs[m].rule
             /\ q.startAt = msgs[m].startAt /\ q.endAt = now
             /\ lastRun' = [ lastRun EXCEPT ![<<q.sender, q.rule>>] = now ]
    <3>1. \A n \in Messages \ {m} : msgs[n].pc # "running"
      BY <1>0, <2>5 DEF Sound, LockAgrees, Holding
    <3>2. msgs[m].endAt = Never /\ q.sender \in Senders /\ q.rule \in Rules /\ q.startAt \in Nat
      BY <1>0, <2>5 DEF Sane, Times
    <3>3. \A n \in Messages \ {m} : msgs[n].endAt # Never /\ Key(n) = <<q.sender, q.rule>>
            => q.startAt >= msgs[n].endAt + Cooldown[q.rule]
      BY <2>5 DEF RunInv, Key
    <3> QED BY <2>3, <2>5, <3>1, <3>2, <3>3
  <2> QED BY <1>2, <2>1, <2>2, <2>4, <2>5 DEF Serves, Running
<1>3. CASE Reload
  BY <1>0, <1>3 DEF Reload, New, RunInv, CooldownKept
<1>4. CASE Tick
  BY <1>0, <1>1, <1>4 DEF Tick, limits
<1>5. CASE UNCHANGED vars
  BY <1>0, <1>1, <1>5 DEF vars, limits
<1> QED BY <1>0, <1>2, <1>3, <1>4, <1>5, StepServes

\* Two successful runs of a rule for a sender are a cooldown apart, however many tasks
\* wait for the lock.
THEOREM CooldownsKept == Spec => []CooldownKept
<1>1. Init => RunInv
  BY TimesAssumption DEF Init, New, RunInv, CooldownKept
<1>2. SoundInv /\ RunInv /\ [Next]_vars => RunInv'
  BY RunStep
<1>3. RunInv => CooldownKept
  BY DEF RunInv
<1> QED BY <1>1, <1>2, <1>3, SoundAlways, PTL DEF Spec

----------------------------------------------------------------------------
(* Authorization.                                                          *)

\* What Authorized asks of a message, from the time it waits for the lock.
Entitled(m) ==
  LET r       == msgs[m].rule
      command == IF r \in ChallengeRules THEN msgs[m].parent ELSE m
  IN
  /\ command \in Messages
  /\ msgs[command].sender = msgs[m].sender /\ msgs[command].rule = r
  /\ r \in PinRules => msgs[command].pin
  /\ r \in ChallengeRules => /\ msgs[m].spentAt < msgs[command].spentAt + Ttl
                             /\ \A n \in Messages \ {m} : msgs[n].parent # command

\* A pending command is that of its message, and no code has confirmed it yet.
Backed(p) ==
  /\ p.rule \in ChallengeRules /\ msgs[p.by].pc # "new"
  /\ msgs[p.by].sender = p.sender /\ msgs[p.by].rule = p.rule
  /\ p.rule \in PinRules => msgs[p.by].pin
  /\ p.expires = msgs[p.by].spentAt + Ttl
  /\ \A n \in Messages : msgs[n].parent # p.by

AuthInv ==
  /\ \A p \in pending : Backed(p)
  /\ \A p, q \in pending : p.by = q.by => p = q
  /\ \A n \in Messages : msgs[n].parent # None => msgs[msgs[n].parent].pc # "new"
  /\ \A m \in Messages : Active(msgs[m]) => Entitled(m)

LEMMA AuthServes ==
  ASSUME Sound, AuthInv, NEW m \in Messages, NEW q \in MessageRecord, Serves(m, q)
  PROVE  AuthInv'
<1>0. /\ now \in Nat /\ msgs \in [ Messages -> MessageRecord ] /\ pending \subseteq Challenge
      /\ None \notin Messages /\ Ttl \in Nat \ {0}
      /\ \A n \in Messages : msgs'[n] = IF n = m THEN q ELSE msgs[n]
      /\ q.pc # "new" /\ \A n \in Messages : msgs[n].parent \in Messages \cup {None}
  BY TimesAssumption, SetsAssumption DEF Sound, Types, Serves, Becomes, MessageRecord
<1>1. \A p \in pending : p.by \in Messages /\ p.rule \in Rules /\ p.sender \in Senders
  BY <1>0 DEF Challenge
\* What a message that is not new remembers is there to stay.
<1>2. \A n \in Messages : msgs[n].pc # "new" =>
        /\ msgs'[n].sender = msgs[n].sender /\ msgs'[n].rule = msgs[n].rule /\ msgs'[n].pin = msgs[n].pin
        /\ msgs'[n].parent = msgs[n].parent /\ msgs'[n].spentAt = msgs[n].spentAt /\ msgs'[n].pc # "new"
        /\ Active(msgs'[n]) => Active(msgs[n])
  BY <1>0 DEF Serves, Confirming, Same, New
<1>3. \A n \in Messages : n # m /\ Active(msgs'[n]) => Active(msgs[n])
  BY <1>0
\* If m gets no parent, or one that no message has, the rest is kept.
<1>4. ASSUME \/ q.parent = msgs[m].parent
             \/ /\ q.parent \in Messages /\ msgs[q.parent].pc # "new"
                /\ \A n \in Messages : msgs[n].parent # q.parent,
             \A p \in pending' : Backed(p)',
             \A p, k \in pending' : p.by = k.by => p = k,
             Active(q) /\ msgs[m].pc = "new" => Entitled(m)'
      PROVE  AuthInv'
  <2>1. \A n \in Messages : msgs'[n].parent # None => msgs'[msgs'[n].parent].pc # "new"
    BY <1>0, <1>2, <1>4 DEF AuthInv
  <2>2. ASSUME NEW n \in Messages, Active(msgs[n]), msgs[n].pc # "new" PROVE Entitled(n)'
    <3> DEFINE command == IF msgs[n].rule \in ChallengeRules THEN msgs[n].parent ELSE n
    <3>1. /\ command \in Messages
          /\ msgs[command].sender = msgs[n].sender /\ msgs[command].rule = msgs[n].rule
          /\ msgs[n].rule \in PinRules => msgs[command].pin
          /\ msgs[n].rule \in ChallengeRules =>
                /\ msgs[n].spentAt < msgs[command].spentAt + Ttl
                /\ \A k \in Messages \ {n} : msgs[k].parent # command
      BY <2>2 DEF AuthInv, Entitled
    <3>2. msgs[command].pc # "new"
      BY <1>0, <2>2, <3>1 DEF AuthInv
    <3>3. msgs[n].rule \in ChallengeRules => \A k \in Messages \ {n} : msgs'[k].parent # command
      BY <1>0, <1>4, <3>1
    <3>4. command = IF msgs'[n].rule \in ChallengeRules THEN msgs'[n].parent ELSE n
      BY <1>2, <2>2
    <3> HIDE DEF command
    <3>5. /\ msgs'[n].sender = msgs[n].sender /\ msgs'[n].rule = msgs[n].rule /\ msgs'[n].spentAt = msgs[n].spentAt
          /\ msgs'[command].sender = msgs[command].sender /\ msgs'[command].rule = msgs[command].rule
          /\ msgs'[command].pin = msgs[command].pin /\ msgs'[command].spentAt = msgs[command].spentAt
      BY <1>2, <2>2, <3>1, <3>2
    <3> QED BY <3>1, <3>3, <3>4, <3>5 DEF Entitled
  <2>3. ASSUME NEW n \in Messages, Active(msgs'[n]) PROVE Entitled(n)'
    <3>1. CASE msgs[n].pc # "new"
      BY <1>2, <2>2, <2>3, <3>1
    <3>2. CASE msgs[n].pc = "new"
      <4>1. ~Active(msgs[n])
        BY <3>2 DEF Sound, Sane, Active, Idle
      <4> QED BY <1>0, <1>3, <1>4, <2>3, <3>2, <4>1
    <3> QED BY <3>1, <3>2
  <2> QED BY <1>4, <2>1, <2>3 DEF AuthInv
\* Pending commands stay backed unless m takes one as its parent.
<1>5. ASSUME NEW p \in pending, q.parent # p.by PROVE Backed(p)'
  <2>1. Backed(p) /\ p.by \in Messages /\ msgs[p.by].pc # "new"
    BY <1>1, <1>5 DEF AuthInv, Backed
  <2> QED BY <1>0, <1>2, <1>5, <2>1 DEF Backed
<1>6. \A p \in pending : msgs[m].parent # p.by /\ None # p.by
  BY <1>0, <1>1 DEF AuthInv, Backed
<1>7. CASE /\ msgs[m].pc # "new" /\ Same(msgs[m], q) /\ pending' \subseteq pending
           /\ Active(q) => Active(msgs[m])
  <2>1. q.parent = msgs[m].parent
    BY <1>7 DEF Same
  <2>2. \A p \in pending' : Backed(p)'
    BY <1>5, <1>6, <1>7, <2>1
  <2>3. \A p, k \in pending' : p.by = k.by => p = k
    BY <1>7 DEF AuthInv
  <2> QED BY <1>4, <1>7, <2>1, <2>2, <2>3
<1>8. CASE msgs[m] = New /\ q.parent = None /\ ~Active(q) /\ pending' \subseteq pending
  <2>1. \A p \in pending' : Backed(p)'
    BY <1>5, <1>6, <1>8
  <2>2. \A p, k \in pending' : p.by = k.by => p = k
    BY <1>8 DEF AuthInv
  <2> QED BY <1>4, <1>8, <2>1, <2>2 DEF New
<1>9. CASE /\ msgs[m] = New /\ q.parent = None /\ pending' = pending
           /\ q.sender \in Senders /\ q.rule \in Rules \ ChallengeRules
           /\ q.rule \in PinRules => q.pin
  <2>1. \A p \in pending' : Backed(p)'
    BY <1>5, <1>6, <1>9
  <2>2. Entitled(m)'
    BY <1>0, <1>9 DEF Entitled
  <2>3. \A p, k \in pending' : p.by = k.by => p = k
    BY <1>9 DEF AuthInv
  <2> QED BY <1>4, <1>9, <2>1, <2>2, <2>3 DEF New
<1>10. ASSUME msgs[m] = New, q.parent = None, ~Active(q), NEW c \in Challenge, IssuedBy(c, m, q),
              pending' = { p \in pending : p.sender # c.sender \/ p.rule # c.rule } \cup {c}
       PROVE  AuthInv'
  <2>1. c.by = m /\ msgs[m].pc = "new" /\ msgs[m].parent = None
    BY <1>10 DEF IssuedBy, New
  <2>2. \A n \in Messages : msgs[n].parent # m
    BY <1>0, <2>1 DEF AuthInv
  <2>3. Backed(c)'
    BY <1>0, <1>10, <2>1, <2>2 DEF Backed, IssuedBy
  <2>4. \A p \in pending : Backed(p)' /\ p.by # m
    BY <1>5, <1>6, <1>10, <2>1 DEF AuthInv, Backed
  <2>5. \A p \in pending' : Backed(p)'
    BY <1>10, <2>3, <2>4
  <2>6. \A p, k \in pending' : p.by = k.by => p = k
    BY <1>10, <2>1, <2>4 DEF AuthInv
  <2> QED BY <1>4, <1>10, <2>1, <2>5, <2>6
<1>11. ASSUME msgs[m] = New, NEW hit \in pending,
              hit.sender = q.sender, hit.rule = q.rule, hit.by = q.parent,
              now < hit.expires, pending' \subseteq pending \ {hit},
              q.spentAt \in {now, Never}, Active(q) => q.spentAt = now
       PROVE  AuthInv'
  <2>1. Backed(hit) /\ msgs[m].pc = "new" /\ hit.by \in Messages /\ hit.by # m
    BY <1>1, <1>11 DEF New, AuthInv, Backed
  <2>2. \A p \in pending' : Backed(p)'
    BY <1>5, <1>11 DEF AuthInv
  <2>3. \A p, k \in pending' : p.by = k.by => p = k
    BY <1>11 DEF AuthInv
  <2>4. ASSUME Active(q) PROVE Entitled(m)'
    <3>1. /\ msgs'[m] = q /\ msgs'[hit.by] = msgs[hit.by]
          /\ \A n \in Messages \ {m} : msgs'[n].parent # hit.by
      BY <1>0, <2>1 DEF Backed
    <3>2. q.spentAt < msgs'[hit.by].spentAt + Ttl
      BY <1>11, <2>1, <2>4, <3>1 DEF Backed
    <3> QED BY <1>11, <2>1, <3>1, <3>2 DEF Entitled, Backed
  <2> QED BY <1>4, <1>11, <2>1, <2>2, <2>3, <2>4 DEF Backed
<1> QED BY <1>7, <1>8, <1>9, <1>10, <1>11 DEF Serves, Confirming

LEMMA AuthStep ==
  ASSUME SoundInv, AuthInv, [Next]_vars
  PROVE  AuthInv'
<1>1. CASE Reload
  BY <1>1 DEF Reload, New, AuthInv, Active
<1>2. CASE UNCHANGED <<msgs, pending>>
  BY <1>2 DEF AuthInv, Active, Backed, Entitled
<1> QED BY <1>1, <1>2, AuthServes, StepServes DEF SoundInv, Tick, vars

\* A rule runs only for a message that is entitled to it.
THEOREM RunsAuthorized == Spec => []Authorized
<1>1. Init => AuthInv
  BY DEF Init, New, AuthInv, Active
<1>2. SoundInv /\ AuthInv /\ [Next]_vars => AuthInv'
  BY AuthStep
<1>3. AuthInv => Authorized
  BY DEF AuthInv, Active, Entitled, Authorized
<1> QED BY <1>1, <1>2, <1>3, SoundAlways, PTL DEF Spec

=============================================================================
