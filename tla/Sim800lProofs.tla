--------------------------- MODULE Sim800lProofs ---------------------------
(***************************************************************************)
(* TLAPS proofs about Sim800l, for every set of requests, every capacity   *)
(* and every number of attempts.  The inductive invariant is Inv below:    *)
(* types, the agreement of SMS bookkeeping and protocol state, and         *)
(* SmsSound, which relates the queue, the active request, the verdicts and *)
(* the bodies sent.  SmsSound is stated over a value s of the SMS part     *)
(* rather than over the variable, because process_ready_ activates the     *)
(* next request in the same step in which the previous one is completed or *)
(* a new one is accepted.                                                  *)
(***************************************************************************)
EXTENDS Sim800l, SequenceTheorems, TLAPS

\* What the driver keeps true of an SMS part s, verdicts o and bodies b.
QueueSound(q, o, b) ==
  \A i \in DOMAIN q : /\ o[q[i].id] = "open"
                      /\ b[q[i].id] = 0
                      /\ q[i].attempts < MaxAttempts
                      /\ \A j \in DOMAIN q : q[i].id = q[j].id => i = j

ActiveSound(s, o, b) ==
  s.active # NoSms => /\ o[s.active.id] = "open"
                      /\ b[s.active.id] = IF s.submitted THEN 1 ELSE 0
                      /\ s.active.attempts <= MaxAttempts
                      /\ \A i \in DOMAIN s.queue : s.queue[i].id # s.active.id

Holds(s, r) == \/ s.active # NoSms /\ s.active.id = r
               \/ \E i \in DOMAIN s.queue : s.queue[i].id = r

LedgerSound(s, o, b) ==
  \A r \in Requests : /\ b[r] \in {0, 1}
                      /\ o[r] = "none" => b[r] = 0
                      /\ o[r] \in {"sent", "unknown"} => b[r] = 1
                      /\ o[r] = "open" => Holds(s, r)

SmsSound(s, o, b) ==
  /\ s \in SmsPart /\ Depth(s) <= Capacity
  /\ QueueSound(s.queue, o, b) /\ ActiveSound(s, o, b) /\ LedgerSound(s, o, b)

\* A message being read has a slot, and a slot to delete was given to the callback
\* in this listing.
InboxSound ==
  /\ inbox.hasMessage => inbox.index # 0
  /\ state = "WAIT_SMS_DELETE" => inbox.delete # 0
  /\ state \in {"WAIT_SMS_LIST", "WAIT_SMS_DELETE"} =>
       (inbox.delete # 0 => inbox.delete \in heard)

Inv == TypeOK /\ PhasesAgree /\ InboxSound /\ SmsSound(sms, outcome, bodies)

Outcomes == [ Requests -> {"none", "open", "sent", "failed", "unknown"} ]

----------------------------------------------------------------------------
(* The SMS part: activation, acceptance, submission, verdict, requeueing.  *)

LEMMA PartTypes ==
  ASSUME NEW s \in SmsPart
  PROVE  /\ s.queue \in Seq(SmsRequest) /\ Len(s.queue) \in Nat
         /\ DOMAIN s.queue = 1..Len(s.queue)
         /\ \A i \in DOMAIN s.queue : /\ s.queue[i] \in SmsRequest
                                      /\ s.queue[i].id \in Requests
                                      /\ s.queue[i].attempts \in Nat
         /\ s.active # NoSms => /\ s.active \in SmsRequest
                                /\ s.active.id \in Requests
                                /\ s.active.attempts \in Nat
         /\ s.submitted \in BOOLEAN
  <1>1. /\ s.queue \in Seq(SmsRequest) /\ s.submitted \in BOOLEAN
        /\ s.active \in SmsRequest \cup {NoSms}
    BY DEF SmsPart
  <1>2. /\ Len(s.queue) \in Nat /\ DOMAIN s.queue = 1..Len(s.queue)
        /\ \A i \in DOMAIN s.queue : s.queue[i] \in SmsRequest
    BY <1>1
  <1>3. \A e \in SmsRequest : e.id \in Requests /\ e.attempts \in Nat
    BY DEF SmsRequest
  <1> QED BY <1>1, <1>2, <1>3

LEMMA DepthType ==
  ASSUME NEW s \in SmsPart
  PROVE  Depth(s) \in Nat /\ Depth(s) = Len(s.queue) + (IF s.active = NoSms THEN 0 ELSE 1)
  <1>1. Len(s.queue) \in Nat BY PartTypes
  <1>2. CASE s.active = NoSms BY <1>1, <1>2 DEF Depth
  <1>3. CASE s.active # NoSms BY <1>1, <1>3 DEF Depth
  <1> QED BY <1>2, <1>3

LEMMA ActivatedSound ==
  ASSUME NEW s, NEW o \in Outcomes, NEW b \in [ Requests -> Nat ],
         SmsSound(s, o, b), s.active = NoSms, Len(s.queue) > 0
  PROVE  /\ SmsSound(Activated(s), o, b)
         /\ Activated(s).active # NoSms /\ Activated(s).submitted = FALSE
  <1> DEFINE h == Head(s.queue)
             t == Tail(s.queue)
             a == [ h EXCEPT !.attempts = @ + 1 ]
             x == Activated(s)
  <1>1. s \in SmsPart BY DEF SmsSound
  <1>2. h = s.queue[1] /\ h \in SmsRequest /\ h.id \in Requests /\ h.attempts \in Nat
    BY <1>1, PartTypes
  <1>3. /\ t \in Seq(SmsRequest) /\ Len(t) = Len(s.queue) - 1
        /\ DOMAIN t = 1..(Len(s.queue) - 1)
        /\ \A i \in 1..Len(t) : t[i] = s.queue[i + 1]
    BY <1>1, PartTypes
  <1>4. a \in SmsRequest /\ a.id = h.id /\ a.attempts = h.attempts + 1
    BY <1>2 DEF SmsRequest
  <1>5. a # NoSms BY <1>4, NoSmsAssumption
  <1>6. x = [ queue |-> t, active |-> a, submitted |-> FALSE ]
    BY DEF Activated
  <1>7. x \in SmsPart /\ x.queue = t /\ x.active = a /\ x.submitted = FALSE
    BY <1>3, <1>4, <1>6 DEF SmsPart
  <1>8. Depth(x) <= Capacity
    <2>1. Depth(s) = Len(s.queue) /\ Depth(s) <= Capacity /\ Len(s.queue) \in Nat
      BY <1>1, PartTypes DEF Depth, SmsSound
    <2>2. Depth(x) = Len(t) + 1
      BY <1>5, <1>7 DEF Depth
    <2> QED BY <2>1, <2>2, <1>3
  <1>9. QueueSound(x.queue, o, b)
    BY <1>1, <1>3, <1>7, PartTypes DEF QueueSound, SmsSound
  <1>10. ActiveSound(x, o, b)
    <2>1. o[h.id] = "open" /\ b[h.id] = 0 /\ h.attempts < MaxAttempts
      BY <1>1, <1>2, PartTypes DEF QueueSound, SmsSound
    <2>2. \A i \in DOMAIN t : t[i].id # h.id
      BY <1>1, <1>2, <1>3, PartTypes DEF QueueSound, SmsSound
    <2> QED
      BY <2>1, <2>2, <1>2, <1>4, <1>7, AttemptsAssumption DEF ActiveSound
  <1>11. LedgerSound(x, o, b)
    <2> SUFFICES ASSUME NEW r \in Requests, o[r] = "open" PROVE Holds(x, r)
      BY DEF LedgerSound, SmsSound
    <2>1. PICK i \in DOMAIN s.queue : s.queue[i].id = r
      BY DEF LedgerSound, SmsSound, Holds
    <2>2. CASE i = 1 BY <2>1, <2>2, <1>2, <1>4, <1>5, <1>7 DEF Holds
    <2>3. CASE i # 1
      <3>1. i - 1 \in DOMAIN t /\ t[i - 1] = s.queue[i]
        BY <2>1, <2>3, <1>1, <1>3, PartTypes
      <3> QED BY <3>1, <2>1, <1>7 DEF Holds
    <2> QED BY <2>2, <2>3
  <1> QED BY <1>5, <1>7, <1>8, <1>9, <1>10, <1>11 DEF SmsSound

\* enqueue_sms_ on a queue with room: the request was never seen before.
LEMMA AppendedSound ==
  ASSUME NEW s, NEW o \in Outcomes, NEW b \in [ Requests -> Nat ], NEW r \in Requests,
         SmsSound(s, o, b), o[r] = "none", Depth(s) < Capacity
  PROVE  LET x == [ s EXCEPT !.queue = Append(@, [ id |-> r, attempts |-> 0 ]) ]
         IN  /\ SmsSound(x, [ o EXCEPT ![r] = "open" ], b)
             /\ x.active = s.active /\ x.submitted = s.submitted /\ Len(x.queue) > 0
             /\ Depth(x) = Depth(s) + 1
  <1> DEFINE e == [ id |-> r, attempts |-> 0 ]
             q == Append(s.queue, e)
             x == [ s EXCEPT !.queue = Append(@, e) ]
             p == [ o EXCEPT ![r] = "open" ]
             n == Len(s.queue)
  <1>1. s \in SmsPart BY DEF SmsSound
  <1>2. e \in SmsRequest BY DEF SmsRequest
  <1>3. /\ q \in Seq(SmsRequest) /\ Len(q) = n + 1 /\ DOMAIN q = 1..(n + 1)
        /\ n \in Nat /\ DOMAIN s.queue = 1..n
        /\ \A i \in 1..n : q[i] = s.queue[i]
        /\ q[n + 1] = e
    BY <1>1, <1>2, PartTypes
  <1>4. /\ x \in SmsPart /\ x.queue = q /\ x.active = s.active
        /\ x.submitted = s.submitted
    BY <1>1, <1>3 DEF SmsPart
  <1>5. /\ \A z \in Requests : z # r => p[z] = o[z]
        /\ p[r] = "open" /\ p \in Outcomes
    BY DEF Outcomes
  <1>6. /\ \A i \in 1..n : s.queue[i].id # r /\ s.queue[i].id \in Requests
        /\ s.active # NoSms => s.active.id # r /\ s.active.id \in Requests
    BY <1>1, <1>3, PartTypes DEF SmsSound, QueueSound, ActiveSound
  <1>7. Depth(x) = Depth(s) + 1 /\ Depth(x) <= Capacity /\ Depth(s) \in Nat
    <2>1. Depth(s) = n + (IF s.active = NoSms THEN 0 ELSE 1) BY DEF Depth
    <2>2. Depth(x) = n + 1 + (IF s.active = NoSms THEN 0 ELSE 1) BY <1>3, <1>4 DEF Depth
    <2>3. n \in Nat BY <1>3
    <2> HIDE DEF x, n
    <2>4. CASE s.active = NoSms
      <3>1. Depth(s) = n /\ Depth(x) = n + 1 BY <2>1, <2>2, <2>3, <2>4
      <3> QED BY <3>1, <2>3, CapacityAssumption
    <2>5. CASE s.active # NoSms
      <3>1. Depth(s) = n + 1 /\ Depth(x) = n + 1 + 1 BY <2>1, <2>2, <2>3, <2>5
      <3> QED BY <3>1, <2>3, CapacityAssumption
    <2> QED BY <2>4, <2>5
  <1>8. QueueSound(q, p, b)
    <2>1. b[r] = 0 BY DEF SmsSound, LedgerSound
    <2>2. \A i \in 1..n : /\ o[s.queue[i].id] = "open" /\ b[s.queue[i].id] = 0
                          /\ s.queue[i].attempts < MaxAttempts
                          /\ \A j \in 1..n : s.queue[i].id = s.queue[j].id => i = j
      BY <1>3 DEF SmsSound, QueueSound
    <2>3. e.id = r /\ e.attempts = 0 /\ 0 < MaxAttempts BY AttemptsAssumption
    <2> SUFFICES ASSUME NEW i \in 1..(n + 1)
                 PROVE  /\ p[q[i].id] = "open" /\ b[q[i].id] = 0
                        /\ q[i].attempts < MaxAttempts
                        /\ \A j \in 1..(n + 1) : q[i].id = q[j].id => i = j
      BY <1>3 DEF QueueSound
    <2>4. CASE i = n + 1
      <3>1. \A j \in 1..(n + 1) : j = n + 1 \/ j \in 1..n BY <1>3
      <3> QED BY <3>1, <2>1, <2>3, <2>4, <1>3, <1>5, <1>6
    <2>5. CASE i \in 1..n
      <3>1. \A j \in 1..(n + 1) : j = n + 1 \/ j \in 1..n BY <1>3
      <3> QED BY <3>1, <2>2, <2>3, <2>5, <1>3, <1>5, <1>6
    <2> QED BY <2>4, <2>5, <1>3
  <1>9. ActiveSound(x, p, b)
    <2> SUFFICES ASSUME s.active # NoSms
                 PROVE  /\ p[s.active.id] = "open"
                        /\ b[s.active.id] = IF s.submitted THEN 1 ELSE 0
                        /\ s.active.attempts <= MaxAttempts
                        /\ \A i \in DOMAIN q : q[i].id # s.active.id
      BY <1>4 DEF ActiveSound
    <2>1. /\ o[s.active.id] = "open" /\ s.active.attempts <= MaxAttempts
          /\ b[s.active.id] = IF s.submitted THEN 1 ELSE 0
          /\ \A i \in 1..n : s.queue[i].id # s.active.id
      BY <1>3 DEF SmsSound, ActiveSound
    <2>2. \A i \in 1..(n + 1) : i = n + 1 \/ i \in 1..n BY <1>3
    <2> QED BY <2>1, <2>2, <1>3, <1>5, <1>6
  <1>10. LedgerSound(x, p, b)
    <2> SUFFICES ASSUME NEW z \in Requests
                 PROVE  /\ b[z] \in {0, 1}
                        /\ p[z] = "none" => b[z] = 0
                        /\ p[z] \in {"sent", "unknown"} => b[z] = 1
                        /\ p[z] = "open" => Holds(x, z)
      BY DEF LedgerSound
    <2>1. /\ b[z] \in {0, 1} /\ (o[z] = "none" => b[z] = 0)
          /\ (o[z] \in {"sent", "unknown"} => b[z] = 1)
          /\ (o[z] = "open" => Holds(s, z))
      BY DEF SmsSound, LedgerSound
    <2>2. CASE z = r
      <3>1. n + 1 \in DOMAIN q /\ q[n + 1].id = r BY <1>3
      <3> QED BY <3>1, <2>1, <2>2, <1>4, <1>5 DEF Holds
    <2>3. CASE z # r
      <3>1. ASSUME Holds(s, z) PROVE Holds(x, z)
        <4>1. CASE s.active # NoSms /\ s.active.id = z BY <4>1, <1>4 DEF Holds
        <4>2. CASE \E i \in 1..n : s.queue[i].id = z BY <4>2, <1>3, <1>4 DEF Holds
        <4> QED BY <3>1, <4>1, <4>2, <1>3 DEF Holds
      <3> QED BY <3>1, <2>1, <2>3, <1>5
    <2> QED BY <2>2, <2>3
  <1>11. SmsSound(x, p, b)
    BY <1>4, <1>7, <1>8, <1>9, <1>10 DEF SmsSound
  <1>12. Len(x.queue) > 0 BY <1>3, <1>4
  <1> QED BY <1>4, <1>7, <1>11, <1>12

\* send_sms_body_: one Ctrl-Z for a request that had none.
LEMMA SubmittedSound ==
  ASSUME NEW s, NEW o \in Outcomes, NEW b \in [ Requests -> Nat ],
         SmsSound(s, o, b), s.active # NoSms, ~s.submitted
  PROVE  /\ SmsSound([ s EXCEPT !.submitted = TRUE ], o,
                     [ b EXCEPT ![s.active.id] = @ + 1 ])
         /\ [ b EXCEPT ![s.active.id] = @ + 1 ] \in [ Requests -> Nat ]
  <1> DEFINE x == [ s EXCEPT !.submitted = TRUE ]
             c == [ b EXCEPT ![s.active.id] = @ + 1 ]
             a == s.active.id
  <1>1. s \in SmsPart /\ a \in Requests
    BY PartTypes DEF SmsSound
  <1>2. x \in SmsPart /\ x.queue = s.queue /\ x.active = s.active /\ x.submitted = TRUE
    BY <1>1 DEF SmsPart
  <1>3. /\ b[a] = 0 /\ o[a] = "open" /\ s.active.attempts <= MaxAttempts
        /\ \A i \in DOMAIN s.queue : s.queue[i].id # a /\ s.queue[i].id \in Requests
    BY <1>1, PartTypes DEF SmsSound, ActiveSound
  <1>4. /\ c \in [ Requests -> Nat ] /\ c[a] = 1
        /\ \A r \in Requests : r # a => c[r] = b[r]
    BY <1>1, <1>3
  <1> HIDE DEF x, c
  <1>5. Depth(x) <= Capacity BY <1>2 DEF Depth, SmsSound
  <1>6. QueueSound(x.queue, o, c)
    BY <1>2, <1>3, <1>4 DEF QueueSound, SmsSound
  <1>7. ActiveSound(x, o, c) BY <1>2, <1>3, <1>4 DEF ActiveSound
  <1>8. LedgerSound(x, o, c)
    <2> SUFFICES ASSUME NEW r \in Requests
                 PROVE  /\ c[r] \in {0, 1}
                        /\ o[r] = "none" => c[r] = 0
                        /\ o[r] \in {"sent", "unknown"} => c[r] = 1
                        /\ o[r] = "open" => Holds(x, r)
      BY DEF LedgerSound
    <2>1. /\ b[r] \in {0, 1} /\ (o[r] = "none" => b[r] = 0)
          /\ (o[r] \in {"sent", "unknown"} => b[r] = 1)
          /\ (o[r] = "open" => Holds(x, r))
      BY <1>2 DEF SmsSound, LedgerSound, Holds
    <2> QED BY <2>1, <1>3, <1>4
  <1>9. SmsSound(x, o, c) BY <1>2, <1>5, <1>6, <1>7, <1>8 DEF SmsSound
  <1> QED BY <1>4, <1>9 DEF x, c

\* complete_active_sms_: the active request leaves with its verdict.
LEMMA ResolvedSound ==
  ASSUME NEW s, NEW o \in Outcomes, NEW b \in [ Requests -> Nat ], NEW p \in Outcomes,
         NEW v \in {"sent", "failed", "unknown"},
         SmsSound(s, o, b), s.active # NoSms,
         v \in {"sent", "unknown"} => s.submitted,
         p = [ o EXCEPT ![s.active.id] = v ]
  PROVE  /\ SmsSound(Idle(s), p, b)
         /\ Idle(s).active = NoSms /\ Idle(s).submitted = FALSE
  <1> DEFINE x == Idle(s)
             a == s.active.id
  <1>1. s \in SmsPart /\ a \in Requests BY PartTypes DEF SmsSound
  <1>2. x \in SmsPart /\ x.queue = s.queue /\ x.active = NoSms /\ x.submitted = FALSE
    BY <1>1 DEF SmsPart, Idle
  <1>3. p[a] = v /\ \A r \in Requests : r # a => p[r] = o[r]
    BY <1>1 DEF Outcomes
  <1>4. /\ \A i \in DOMAIN s.queue : s.queue[i].id # a /\ s.queue[i].id \in Requests
        /\ b[a] = IF s.submitted THEN 1 ELSE 0
    BY <1>1, PartTypes DEF SmsSound, ActiveSound
  <1> HIDE DEF x
  <1>5. Depth(x) <= Capacity
    <2>1. Len(s.queue) \in Nat BY <1>1, PartTypes
    <2>2. Len(s.queue) + 1 <= Capacity BY DEF SmsSound, Depth
    <2>3. Depth(x) = Len(s.queue) + 0 BY <1>2 DEF Depth
    <2> QED BY <2>1, <2>2, <2>3, CapacityAssumption
  <1>6. QueueSound(x.queue, p, b) BY <1>2, <1>3, <1>4 DEF QueueSound, SmsSound
  <1>7. ActiveSound(x, p, b) BY <1>2 DEF ActiveSound
  <1>8. LedgerSound(x, p, b)
    <2> SUFFICES ASSUME NEW r \in Requests
                 PROVE  /\ b[r] \in {0, 1}
                        /\ p[r] = "none" => b[r] = 0
                        /\ p[r] \in {"sent", "unknown"} => b[r] = 1
                        /\ p[r] = "open" => Holds(x, r)
      BY DEF LedgerSound
    <2>1. /\ b[r] \in {0, 1} /\ (o[r] = "none" => b[r] = 0)
          /\ (o[r] \in {"sent", "unknown"} => b[r] = 1)
          /\ (o[r] = "open" => Holds(s, r))
      BY DEF SmsSound, LedgerSound
    <2>2. r # a /\ Holds(s, r) => Holds(x, r) BY <1>2 DEF Holds
    <2> QED BY <2>1, <2>2, <1>3, <1>4
  <1>9. SmsSound(x, p, b) BY <1>2, <1>5, <1>6, <1>7, <1>8 DEF SmsSound
  <1> QED BY <1>2, <1>9 DEF x

\* requeue_active_sms_: back to the head of the queue, nothing submitted.
LEMMA RequeuedSound ==
  ASSUME NEW s, NEW o \in Outcomes, NEW b \in [ Requests -> Nat ],
         SmsSound(s, o, b), Requeueable(s)
  PROVE  /\ SmsSound(Requeued(s), o, b)
         /\ Requeued(s).active = NoSms /\ Requeued(s).submitted = FALSE
  <1> DEFINE x == Requeued(s)
             q == <<s.active>> \o s.queue
             n == Len(s.queue)
             a == s.active
  <1>1. /\ s \in SmsPart /\ a \in SmsRequest /\ a.id \in Requests
        /\ a # NoSms /\ ~s.submitted /\ a.attempts < MaxAttempts
    BY PartTypes DEF SmsSound, Requeueable
  <1>2. /\ n \in Nat /\ DOMAIN s.queue = 1..n
        /\ \A i \in 1..n : s.queue[i].id \in Requests
    BY <1>1, PartTypes
  <1>3. /\ q \in Seq(SmsRequest) /\ Len(q) = n + 1 /\ DOMAIN q = 1..(n + 1)
        /\ q[1] = a /\ \A i \in 2..(n + 1) : i - 1 \in 1..n /\ q[i] = s.queue[i - 1]
    BY <1>1, <1>2, PartTypes
  <1>4. x \in SmsPart /\ x.queue = q /\ x.active = NoSms /\ x.submitted = FALSE
    BY <1>3 DEF SmsPart, Requeued
  <1>5. /\ o[a.id] = "open" /\ b[a.id] = 0
        /\ \A i \in 1..n : s.queue[i].id # a.id
    BY <1>1, <1>2 DEF SmsSound, ActiveSound
  <1> HIDE DEF x, q, n
  <1>6. Depth(x) <= Capacity
    <2>1. Depth(s) = n + 1 /\ Depth(x) = n + 1 + 0
      BY <1>1, <1>3, <1>4 DEF Depth, n
    <2> QED BY <2>1, <1>2 DEF SmsSound
  <1>7. QueueSound(q, o, b)
    <2> SUFFICES ASSUME NEW i \in 1..(n + 1)
                 PROVE  /\ o[q[i].id] = "open" /\ b[q[i].id] = 0
                        /\ q[i].attempts < MaxAttempts
                        /\ \A j \in 1..(n + 1) : q[i].id = q[j].id => i = j
      BY <1>3 DEF QueueSound
    <2>1. \A k \in 1..n : /\ o[s.queue[k].id] = "open" /\ b[s.queue[k].id] = 0
                          /\ s.queue[k].attempts < MaxAttempts
                          /\ \A j \in 1..n : s.queue[k].id = s.queue[j].id => k = j
      BY <1>2 DEF SmsSound, QueueSound
    <2>2. \A k \in 1..(n + 1) : k = 1 \/ k \in 2..(n + 1) BY <1>2
    <2>3. CASE i = 1 BY <2>2, <2>3, <1>1, <1>3, <1>5
    <2>4. CASE i \in 2..(n + 1)
      <3>1. \A j \in 2..(n + 1) : q[i].id = q[j].id => i = j
        <4> SUFFICES ASSUME NEW j \in 2..(n + 1), q[i].id = q[j].id PROVE i = j
          OBVIOUS
        <4>1. i - 1 = j - 1 BY <2>1, <2>4, <1>3
        <4> QED BY <4>1, <2>4, <1>2
      <3> QED BY <3>1, <2>1, <2>2, <2>4, <1>3, <1>5
    <2> QED BY <2>2, <2>3, <2>4
  <1>8. ActiveSound(x, o, b) BY <1>4 DEF ActiveSound
  <1>9. LedgerSound(x, o, b)
    <2> SUFFICES ASSUME NEW r \in Requests, Holds(s, r) PROVE Holds(x, r)
      BY DEF SmsSound, LedgerSound
    <2>1. CASE a.id = r
      <3>1. 1 \in DOMAIN q BY <1>2, <1>3
      <3> QED BY <3>1, <2>1, <1>3, <1>4 DEF Holds
    <2>2. CASE \E i \in 1..n : s.queue[i].id = r
      <3>1. PICK i \in 1..n : s.queue[i].id = r BY <2>2
      <3>2. i + 1 \in 2..(n + 1) /\ i + 1 - 1 = i BY <1>2
      <3>3. i + 1 \in DOMAIN q /\ q[i + 1] = s.queue[i] BY <3>2, <1>2, <1>3
      <3> QED BY <3>1, <3>3, <1>4 DEF Holds
    <2> QED BY <2>1, <2>2, <1>2 DEF Holds
  <1>10. SmsSound(x, o, b) BY <1>4, <1>6, <1>7, <1>8, <1>9 DEF SmsSound
  <1> QED BY <1>4, <1>10 DEF x

----------------------------------------------------------------------------
(* The shared steps: process_ready_, recover_, and those that leave the    *)
(* SMS part alone.                                                         *)

Calls   == [ state : CallStates \cup {0, 2, 4, 6}, notified : BOOLEAN, seen : BOOLEAN ]
Inboxes == [ index : Slots \cup {0}, delete : Slots \cup {0},
             hasMessage : BOOLEAN, pending : BOOLEAN, ignoreRest : BOOLEAN ]

\* What process_ready_ chooses when no request is active.
LEMMA ChosenState ==
  ASSUME NEW w \in Want, NEW reg \in BOOLEAN, NEW s \in SmsPart, s.active = NoSms
  PROVE  /\ Chosen(w, reg, s) \in States \ Offline
         /\ Chosen(w, reg, s) \notin SmsStates \ {"SMS_WAIT_CMGF"}
         /\ Chosen(w, reg, s) \notin BodyStates
         /\ Chosen(w, reg, s) = "SMS_WAIT_CMGF" => Len(s.queue) > 0
  <1> DEFINE c == Chosen(w, reg, s)
  <1>1. /\ c \in {"HANGUP_WAIT", "ANSWER_WAIT", "WAIT_SMS_LIST", "SMS_WAIT_CMGF",
                  "DIAL_WAIT", "USSD_WAIT_CHARSET", "WAIT_CREG", "READY"}
        /\ c = "SMS_WAIT_CMGF" => Depth(s) > 0
    BY DEF Chosen
  <1>2. Depth(s) > 0 => Len(s.queue) > 0
    BY PartTypes DEF Depth
  <1> HIDE DEF c
  <1>3. /\ c \in States \ Offline /\ c \notin SmsStates \ {"SMS_WAIT_CMGF"}
        /\ c \notin BodyStates
    BY <1>1 DEF States, Offline, ProbeStates, PollStates, SmsStates, BodyStates,
                AfterSms, VoiceStates, UssdStates
  <1> QED BY <1>1, <1>2, <1>3 DEF c

LEMMA DispatchInv ==
  ASSUME TypeOK, InboxSound, NEW w \in Want, NEW reg \in BOOLEAN, NEW s,
         s.active = NoSms, s.submitted = FALSE, SmsSound(s, outcome', bodies'),
         Dispatch(w, reg, s), initialized' = TRUE, call' \in Calls,
         outcome' \in Outcomes, bodies' \in [ Requests -> Nat ], hungUp' \in BOOLEAN
  PROVE  Inv'
  <1> DEFINE c == Chosen(w, reg, s)
  <1>1. s \in SmsPart BY DEF SmsSound
  <1>2. /\ c \in States \ Offline /\ c \notin SmsStates \ {"SMS_WAIT_CMGF"}
        /\ c \notin BodyStates
        /\ c = "SMS_WAIT_CMGF" => Len(s.queue) > 0
    BY <1>1, ChosenState
  <1>3. /\ state' = c /\ registered' = reg
        /\ want' = [ w EXCEPT !.smsPoll = @ /\ c # "WAIT_SMS_LIST",
                              !.poll = @ /\ c # "WAIT_CREG" ]
        /\ sms' = IF c = "SMS_WAIT_CMGF" THEN Activated(s) ELSE s
        /\ inbox' = IF c = "WAIT_SMS_LIST" THEN EmptyInbox ELSE inbox
        /\ heard' = IF c = "WAIT_SMS_LIST" THEN {} ELSE heard
        /\ creg' = IF c = "WAIT_CREG" THEN "none" ELSE creg
    BY DEF Dispatch
  <1> HIDE DEF c
  <1>4. want' \in Want BY <1>3 DEF Want
  <1>5. EmptyInbox \in Inboxes BY DEF EmptyInbox, Inboxes
  <1>6. /\ inbox' \in Inboxes /\ heard' \subseteq Slots
        /\ creg' \in {"none", "home", "off"}
    BY <1>3, <1>5 DEF TypeOK, Inboxes
  <1>7. /\ SmsSound(sms', outcome', bodies')
        /\ sms'.submitted = FALSE
        /\ sms'.active # NoSms <=> c = "SMS_WAIT_CMGF"
    <2>1. CASE c = "SMS_WAIT_CMGF"
      <3>1. sms' = Activated(s) BY <2>1, <1>3
      <3>2. /\ SmsSound(Activated(s), outcome', bodies')
            /\ Activated(s).active # NoSms /\ Activated(s).submitted = FALSE
        BY <2>1, <1>2, ActivatedSound
      <3> QED BY <2>1, <3>1, <3>2
    <2>2. CASE c # "SMS_WAIT_CMGF" BY <2>2, <1>3
    <2> QED BY <2>1, <2>2
  <1>8. PhasesAgree'
    <2>1. c \in SmsStates <=> c = "SMS_WAIT_CMGF"
      BY <1>2 DEF SmsStates
    <2>2. (Depth(sms) <= Capacity)' BY <1>7 DEF SmsSound, Depth
    <2>3. sms'.active # NoSms <=> state' \in SmsStates BY <2>1, <1>3, <1>7
    <2>4. sms'.submitted <=> state' \in BodyStates BY <1>2, <1>3, <1>7
    <2>5. initialized' <=> state' \notin Offline BY <1>2, <1>3
    <2> QED BY <2>2, <2>3, <2>4, <2>5 DEF PhasesAgree
  <1>9. sms' \in SmsPart BY <1>7 DEF SmsSound
  <1>10. TypeOK'
    BY <1>2, <1>3, <1>4, <1>6, <1>9 DEF TypeOK, Calls, Inboxes, Outcomes
  <1>11. SmsSound(sms, outcome, bodies)'
    BY <1>7 DEF SmsSound, Depth, QueueSound, ActiveSound, LedgerSound, Holds
  <1>12. InboxSound'
    <2>1. c # "WAIT_SMS_DELETE"
      BY <1>1 DEF Chosen, c
    <2> QED BY <1>3, <2>1 DEF InboxSound, EmptyInbox
  <1> QED BY <1>8, <1>10, <1>11, <1>12 DEF Inv

\* The step leaves the SMS part alone and stays on its side of the protocol.
LEMMA QuietInv ==
  ASSUME Inv, UNCHANGED <<sms, outcome, bodies>>, TypeOK',
         state' \in SmsStates <=> state \in SmsStates,
         state' \in BodyStates <=> state \in BodyStates,
         initialized' <=> state' \notin Offline,
         \/ UNCHANGED <<state, inbox, heard>>
         \/ UNCHANGED inbox /\ state' \notin {"WAIT_SMS_LIST", "WAIT_SMS_DELETE"}
         \/ InboxSound'
  PROVE  Inv'
  <1>1. PhasesAgree' BY DEF Inv, PhasesAgree, Depth
  <1>2. SmsSound(sms, outcome, bodies)'
    BY DEF Inv, SmsSound, Depth, QueueSound, ActiveSound, LedgerSound, Holds
  <1>3. InboxSound' BY DEF Inv, InboxSound
  <1> QED BY <1>1, <1>2, <1>3 DEF Inv

\* complete_active_sms_ on the variables.
LEMMA VerdictSound ==
  ASSUME Inv, NEW v \in {"sent", "failed", "unknown"}, sms.active # NoSms,
         v \in {"sent", "unknown"} => sms.submitted, Verdict(v)
  PROVE  /\ outcome' = [ outcome EXCEPT ![sms.active.id] = v ]
         /\ outcome' \in Outcomes
         /\ SmsSound(Idle(sms), outcome', bodies)
         /\ Idle(sms).active = NoSms /\ Idle(sms).submitted = FALSE
  <1>1. /\ outcome \in Outcomes /\ bodies \in [ Requests -> Nat ]
        /\ SmsSound(sms, outcome, bodies)
    BY DEF Inv, TypeOK, Outcomes
  <1>2. outcome' = [ outcome EXCEPT ![sms.active.id] = v ]
    BY <1>1 DEF Verdict, Outcomes
  <1>3. outcome' \in Outcomes
    BY <1>1, <1>2 DEF Outcomes
  <1> QED BY <1>1, <1>2, <1>3, ResolvedSound

\* The driver is in BOOT_WAIT and has no active request.
LEMMA RebootInv ==
  ASSUME Inv, Reboot, outcome' \in Outcomes, SmsSound(sms', outcome', bodies),
         sms'.active = NoSms, sms'.submitted = FALSE
  PROVE  Inv'
  <1>1. /\ state' = "BOOT_WAIT" /\ initialized' = FALSE /\ registered' = FALSE
        /\ inbox' = EmptyInbox
        /\ UNCHANGED <<creg, want, call, bodies, heard, hungUp>>
    BY DEF Reboot
  <1>2. "BOOT_WAIT" \in States \cap Offline /\ "BOOT_WAIT" \notin SmsStates \cup BodyStates
    BY DEF States, Offline, ProbeStates, SmsStates, BodyStates
  <1>3. EmptyInbox \in Inboxes BY DEF EmptyInbox, Inboxes
  <1>4. TypeOK'
    <2>1. sms' \in SmsPart BY DEF SmsSound
    <2>2. /\ state' \in States /\ initialized' \in BOOLEAN /\ registered' \in BOOLEAN
          /\ inbox' \in Inboxes
      BY <1>1, <1>2, <1>3
    <2>3. TypeOK BY DEF Inv
    <2> QED BY <1>1, <2>1, <2>2, <2>3 DEF TypeOK, Inboxes, Outcomes
  <1>5. PhasesAgree'
    BY <1>1, <1>2 DEF PhasesAgree, SmsSound, Depth
  <1>6. SmsSound(sms, outcome, bodies)'
    BY <1>1 DEF SmsSound, Depth, QueueSound, ActiveSound, LedgerSound, Holds
  <1>7. InboxSound' BY <1>1 DEF InboxSound, EmptyInbox
  <1> QED BY <1>4, <1>5, <1>6, <1>7 DEF Inv

LEMMA RecoverInv ==
  ASSUME Inv, Recover
  PROVE  Inv'
  <1>1. /\ outcome \in Outcomes /\ bodies \in [ Requests -> Nat ]
        /\ SmsSound(sms, outcome, bodies) /\ Reboot
    BY DEF Inv, TypeOK, Outcomes, Recover
  <1>2. sms.active = NoSms => sms.submitted = FALSE
    BY DEF Inv, PhasesAgree, SmsStates, TypeOK, SmsPart
  <1>3. CASE sms.active = NoSms /\ UNCHANGED <<sms, outcome>>
    BY <1>1, <1>2, <1>3, RebootInv
  <1>4. CASE Requeueable(sms) /\ sms' = Requeued(sms) /\ UNCHANGED outcome
    <2>1. /\ SmsSound(Requeued(sms), outcome, bodies)
          /\ Requeued(sms).active = NoSms /\ Requeued(sms).submitted = FALSE
      BY <1>1, <1>4, RequeuedSound
    <2> QED BY <2>1, <1>1, <1>4, RebootInv
  <1>5. CASE /\ sms.active # NoSms /\ ~Requeueable(sms)
             /\ sms' = Idle(sms)
             /\ Verdict(IF sms.submitted THEN "unknown" ELSE "failed")
    <2> DEFINE v == IF sms.submitted THEN "unknown" ELSE "failed"
    <2>1. /\ v \in {"sent", "failed", "unknown"}
          /\ v \in {"sent", "unknown"} => sms.submitted
      OBVIOUS
    <2>2. /\ outcome' \in Outcomes /\ SmsSound(Idle(sms), outcome', bodies)
          /\ Idle(sms).active = NoSms /\ Idle(sms).submitted = FALSE
      <3> HIDE DEF v
      <3>1. Verdict(v) BY <1>5 DEF v
      <3> QED BY <1>5, <2>1, <3>1, VerdictSound
    <2> QED BY <2>2, <1>1, <1>5, RebootInv
  <1> QED BY <1>3, <1>4, <1>5 DEF Recover

\* Outside the SMS states nothing is active and nothing is submitted.
LEMMA NothingActive ==
  ASSUME Inv, state \notin SmsStates
  PROVE  sms.active = NoSms /\ sms.submitted = FALSE
  BY DEF Inv, PhasesAgree, SmsStates, TypeOK, SmsPart

\* process_ready_ after a step that leaves requests and verdicts alone.
LEMMA DispatchQuiet ==
  ASSUME Inv, state \notin SmsStates, NEW w \in Want, NEW reg \in BOOLEAN,
         Dispatch(w, reg, sms), initialized' = TRUE, call' \in Calls,
         UNCHANGED <<outcome, bodies, hungUp>>
  PROVE  Inv'
  <1>1. /\ TypeOK /\ InboxSound /\ sms.active = NoSms /\ sms.submitted = FALSE
        /\ outcome' \in Outcomes /\ bodies' \in [ Requests -> Nat ] /\ hungUp' \in BOOLEAN
    BY NothingActive DEF Inv, TypeOK, Outcomes
  <1>2. SmsSound(sms, outcome', bodies') BY DEF Inv
  <1> QED BY <1>1, <1>2, DispatchInv

LEMMA WantTypes ==
  ASSUME NEW w \in Want
  PROVE  /\ [ w EXCEPT !.poll = TRUE ] \in Want
         /\ [ w EXCEPT !.smsPoll = TRUE ] \in Want
         /\ [ w EXCEPT !.smsPoll = FALSE ] \in Want
         /\ [ w EXCEPT !.disconnect = TRUE ] \in Want
         /\ [ w EXCEPT !.disconnect = FALSE ] \in Want
         /\ [ w EXCEPT !.connect = TRUE ] \in Want
         /\ [ w EXCEPT !.connect = FALSE ] \in Want
         /\ [ w EXCEPT !.dial = TRUE ] \in Want
         /\ [ w EXCEPT !.dial = FALSE ] \in Want
         /\ [ w EXCEPT !.ussd = TRUE ] \in Want
         /\ [ w EXCEPT !.ussd = FALSE ] \in Want
         /\ [ w EXCEPT !.disconnect = TRUE, !.dial = FALSE, !.connect = FALSE ] \in Want
  BY DEF Want

LEMMA CallTypes ==
  ASSUME NEW c \in Calls
  PROVE  /\ Ended(c) \in Calls /\ [ c EXCEPT !.seen = FALSE ] \in Calls
         /\ [ c EXCEPT !.state = 0 ] \in Calls /\ [ c EXCEPT !.state = 2 ] \in Calls
         /\ [ c EXCEPT !.state = 4, !.notified = FALSE ] \in Calls
         /\ [ c EXCEPT !.state = 4, !.notified = TRUE ] \in Calls
         /\ \A x \in CallStates : [ c EXCEPT !.seen = TRUE, !.state = x ] \in Calls
  BY DEF Calls, Ended

LEMMA InboxTypes ==
  ASSUME NEW x \in Inboxes
  PROVE  /\ EmptyInbox \in Inboxes /\ Finished(x) \in Inboxes
         /\ [ x EXCEPT !.pending = TRUE ] \in Inboxes
         /\ [ Finished(x) EXCEPT !.ignoreRest = TRUE ] \in Inboxes
         /\ \A i \in Slots : [ x EXCEPT !.index = i, !.hasMessage = TRUE,
                                        !.pending = FALSE ] \in Inboxes
  BY DEF Inboxes, Finished, EmptyInbox

----------------------------------------------------------------------------
(* One lemma per part of Next.                                             *)

LEMMA LoopInv ==
  ASSUME Inv, Loop \/ Prompt \/ Overflow \/ (\E s \in States : Deadline(s))
  PROVE  Inv'
  <1>1. CASE Loop
    <2>1. state = "READY" /\ state \notin SmsStates /\ state \notin Offline
      BY <1>1 DEF Loop, SmsStates, BodyStates, Offline, ProbeStates
    <2>2. /\ want \in Want /\ registered \in BOOLEAN /\ initialized = TRUE /\ call \in Calls
      BY <2>1 DEF Inv, TypeOK, PhasesAgree, Calls
    <2> QED BY <1>1, <2>1, <2>2, DispatchQuiet DEF Loop
  <1>2. CASE Prompt
    <2>1. /\ outcome \in Outcomes /\ bodies \in [ Requests -> Nat ]
          /\ SmsSound(sms, outcome, bodies) /\ sms.active # NoSms
          /\ state = "SMS_WAIT_PROMPT" /\ state' = "SMS_WAIT_RESULT"
          /\ sms' = [ sms EXCEPT !.submitted = TRUE ]
          /\ bodies' = [ bodies EXCEPT ![sms.active.id] = @ + 1 ]
          /\ UNCHANGED <<initialized, registered, creg, want, call, inbox, outcome, heard, hungUp>>
      BY <1>2 DEF Prompt, Inv, TypeOK, Outcomes
    <2>2. ~sms.submitted /\ sms.submitted \in BOOLEAN
      BY <2>1 DEF Inv, PhasesAgree, BodyStates, TypeOK, SmsPart
    <2>3. /\ SmsSound(sms', outcome', bodies') /\ bodies' \in [ Requests -> Nat ]
      BY <2>1, <2>2, SubmittedSound
    <2>4. /\ "SMS_WAIT_RESULT" \in States \ Offline
          /\ "SMS_WAIT_RESULT" \in SmsStates \cap BodyStates
          /\ "SMS_WAIT_PROMPT" \notin Offline
      BY DEF States, Offline, ProbeStates, SmsStates, BodyStates
    <2>5. sms'.active = sms.active /\ sms'.submitted = TRUE
      BY <2>1 DEF SmsSound, SmsPart
    <2>6. TypeOK' BY <2>1, <2>3, <2>4 DEF Inv, TypeOK, SmsSound
    <2>7. PhasesAgree' BY <2>1, <2>3, <2>4, <2>5 DEF Inv, PhasesAgree, SmsSound, Depth
    <2>8. SmsSound(sms, outcome, bodies)'
      BY <2>3 DEF SmsSound, Depth, QueueSound, ActiveSound, LedgerSound, Holds
    <2>9. InboxSound' BY <2>1 DEF Inv, InboxSound
    <2> QED BY <2>6, <2>7, <2>8, <2>9 DEF Inv
  <1>3. CASE Overflow BY <1>3, RecoverInv DEF Overflow
  <1>4. ASSUME NEW s \in States, Deadline(s) PROVE Inv'
    <2>1. CASE s # "BOOT_WAIT" BY <1>4, <2>1, RecoverInv DEF Deadline
    <2>2. CASE s = "BOOT_WAIT"
      <3>1. /\ state = "BOOT_WAIT" /\ state' = "WAIT_AT"
            /\ UNCHANGED <<initialized, registered, creg, want, call, inbox, sms, history>>
        BY <1>4, <2>2 DEF Deadline
      <3>2. /\ {"BOOT_WAIT", "WAIT_AT"} \subseteq States \cap Offline
            /\ {"BOOT_WAIT", "WAIT_AT"} \cap (SmsStates \cup BodyStates) = {}
        BY DEF States, Offline, ProbeStates, SmsStates, BodyStates
      <3>3. TypeOK' BY <3>1, <3>2 DEF Inv, TypeOK, history
      <3> QED BY <3>1, <3>2, <3>3, QuietInv DEF Inv, PhasesAgree, history
    <2> QED BY <2>1, <2>2
  <1> QED BY <1>1, <1>2, <1>3, <1>4

LEMMA OkInv ==
  ASSUME Inv, Ok
  PROVE  Inv'
  <1> USE DEF history
  <1>t. /\ want \in Want /\ registered \in BOOLEAN /\ call \in Calls /\ state \in States
        /\ outcome \in Outcomes /\ bodies \in [ Requests -> Nat ] /\ hungUp \in BOOLEAN
        /\ state \notin Offline => initialized = TRUE
    BY DEF Inv, TypeOK, PhasesAgree, Calls, Outcomes
  <1>1. CASE OkNextCommand
    <2>1. /\ state \in DOMAIN NextCommand /\ state' = NextCommand[state]
          /\ UNCHANGED <<initialized, registered, creg, want, call, inbox, sms, history>>
      BY <1>1 DEF OkNextCommand
    <2>2. /\ state' \in States
          /\ state' \in SmsStates <=> state \in SmsStates
          /\ state' \notin BodyStates /\ state \notin BodyStates
          /\ state' \in Offline <=> state \in Offline
          /\ state' \notin {"WAIT_SMS_LIST", "WAIT_SMS_DELETE"}
      BY <2>1 DEF NextCommand, States, Offline, ProbeStates, PollStates, SmsStates,
                  BodyStates, AfterSms, VoiceStates, UssdStates
    <2>3. TypeOK' BY <2>1, <2>2 DEF Inv, TypeOK
    <2> QED BY <2>1, <2>2, <2>3, QuietInv DEF Inv, PhasesAgree
  <1>2. CASE OkInitialized
    <2>1. state \notin SmsStates
      BY <1>2 DEF OkInitialized, SmsStates, BodyStates
    <2> QED BY <1>2, <1>t, <2>1, WantTypes, DispatchQuiet DEF OkInitialized, Initialized
  <1>3. CASE OkCreg
    <2> DEFINE reg == IF creg = "none" THEN registered ELSE creg = "home"
    <2>1. /\ state = "WAIT_CREG" /\ state \notin Offline /\ state \notin SmsStates
          /\ state \notin BodyStates
      BY <1>3 DEF OkCreg, SmsStates, BodyStates, Offline, ProbeStates
    <2>2. reg \in BOOLEAN BY <1>t
    <2>3. CASE reg
      <3>1. /\ state' = "WAIT_CSQ" /\ registered' = reg
            /\ UNCHANGED <<creg, want, inbox, sms, heard, initialized, call, outcome, bodies, hungUp>>
        BY <1>3, <2>3 DEF OkCreg
      <3>2. /\ "WAIT_CSQ" \in States \ Offline /\ "WAIT_CSQ" \notin SmsStates \cup BodyStates
        BY DEF States, Offline, ProbeStates, PollStates, SmsStates, BodyStates
      <3>3. TypeOK' BY <2>2, <3>1, <3>2 DEF Inv, TypeOK
      <3> QED BY <1>t, <2>1, <3>1, <3>2, <3>3, QuietInv
    <2>4. CASE ~reg
      <3>1. Dispatch(want, reg, sms) /\ UNCHANGED <<initialized, call, outcome, bodies, hungUp>>
        BY <1>3, <2>4 DEF OkCreg
      <3> QED BY <1>t, <2>1, <2>2, <3>1, DispatchQuiet
    <2> QED BY <2>3, <2>4
  <1>4. CASE OkCsq
    <2>1. /\ state = "WAIT_CSQ" /\ state' = "WAIT_SMS_LIST"
          /\ want' = [ want EXCEPT !.smsPoll = FALSE ]
          /\ inbox' = EmptyInbox /\ heard' = {}
          /\ UNCHANGED <<initialized, registered, creg, call, sms, outcome, bodies, hungUp>>
      BY <1>4 DEF OkCsq, StartSmsList
    <2>2. /\ {"WAIT_CSQ", "WAIT_SMS_LIST"} \subseteq States \ Offline
          /\ {"WAIT_CSQ", "WAIT_SMS_LIST"} \cap (SmsStates \cup BodyStates) = {}
      BY DEF States, Offline, ProbeStates, PollStates, SmsStates, BodyStates
    <2>3. want' \in Want /\ inbox' \in Inboxes
      BY <1>t, <2>1, WantTypes DEF EmptyInbox, Inboxes
    <2>4. TypeOK' BY <2>1, <2>2, <2>3 DEF Inv, TypeOK, Inboxes
    <2>5. InboxSound' BY <2>1 DEF InboxSound, EmptyInbox
    <2> QED BY <1>t, <2>1, <2>2, <2>4, <2>5, QuietInv
  <1>5. CASE OkDelete \/ OkDial
    <2>1. /\ state \in {"WAIT_SMS_DELETE", "DIAL_WAIT"} /\ state' = "WAIT_CALL_LIST"
          /\ want' \in Want /\ call' \in Calls
          /\ UNCHANGED <<initialized, registered, creg, inbox, sms, outcome, bodies, heard, hungUp>>
      <3>1. /\ [ call EXCEPT !.seen = FALSE ] \in Calls
            /\ [ [ call EXCEPT !.state = 2 ] EXCEPT !.seen = FALSE ] \in Calls
            /\ [ want EXCEPT !.dial = FALSE ] \in Want
        BY <1>t, CallTypes, WantTypes
      <3> QED BY <1>t, <1>5, <3>1 DEF OkDelete, OkDial, StartCallList
    <2>2. /\ {"WAIT_SMS_DELETE", "DIAL_WAIT", "WAIT_CALL_LIST"} \subseteq States \ Offline
          /\ {"WAIT_SMS_DELETE", "DIAL_WAIT", "WAIT_CALL_LIST"} \cap (SmsStates \cup BodyStates) = {}
      BY DEF States, Offline, ProbeStates, PollStates, SmsStates, BodyStates, VoiceStates
    <2>3. TypeOK' BY <2>1, <2>2 DEF Inv, TypeOK, Calls
    <2> QED BY <1>t, <2>1, <2>2, <2>3, QuietInv
  <1>6. CASE OkCallList \/ OkRestored \/ OkAnswer \/ OkHangup \/ OkUssd
    <2>1. state \notin SmsStates /\ state \notin Offline
      BY <1>6 DEF OkCallList, OkRestored, OkAnswer, OkHangup, OkUssd, SmsStates,
                  BodyStates, Offline, ProbeStates
    <2>2. PICK w \in Want :
            /\ Dispatch(w, registered, sms) /\ call' \in Calls
            /\ UNCHANGED <<initialized, outcome, bodies, hungUp>>
      <3>1. CASE OkCallList BY <1>t, <3>1, CallTypes DEF OkCallList
      <3>2. CASE OkRestored BY <1>t, <3>2 DEF OkRestored
      <3>3. CASE OkAnswer BY <1>t, <3>3, CallTypes, WantTypes DEF OkAnswer
      <3>4. CASE OkHangup BY <1>t, <3>4, CallTypes, WantTypes DEF OkHangup
      <3>5. CASE OkUssd BY <1>t, <3>5, WantTypes DEF OkUssd
      <3> QED BY <1>6, <3>1, <3>2, <3>3, <3>4, <3>5
    <2> QED BY <1>t, <2>1, <2>2, DispatchQuiet
  <1>7. CASE OkBody
    <2> DEFINE v == IF state = "SMS_WAIT_FINAL_OK" THEN "sent" ELSE "unknown"
    <2>1. /\ state \in BodyStates /\ state \in SmsStates /\ state \notin Offline
          /\ Verdict(v) /\ UNCHANGED <<initialized, call, bodies, hungUp>>
      BY <1>7 DEF OkBody, SmsStates, BodyStates, Offline, ProbeStates
    <2>2. v \in {"sent", "failed", "unknown"} OBVIOUS
    <2> HIDE DEF v
    <2>3. sms.active # NoSms /\ sms.submitted
      BY <2>1 DEF Inv, PhasesAgree
    <2>4. /\ outcome' \in Outcomes /\ SmsSound(Idle(sms), outcome', bodies)
          /\ Idle(sms).active = NoSms /\ Idle(sms).submitted = FALSE
      BY <2>1, <2>2, <2>3, VerdictSound
    <2>5. CASE sms.active.id \in Unicode
      <3>1. /\ state' = "SMS_WAIT_RESTORE_CHARSET" /\ sms' = Idle(sms)
            /\ UNCHANGED <<registered, creg, want, inbox, heard>>
        BY <1>7, <2>3, <2>5 DEF OkBody
      <3>2. /\ "SMS_WAIT_RESTORE_CHARSET" \in States \ Offline
            /\ "SMS_WAIT_RESTORE_CHARSET" \notin SmsStates \cup BodyStates
        BY DEF States, Offline, ProbeStates, PollStates, SmsStates, BodyStates, AfterSms
      <3>3. TypeOK'
        BY <2>1, <2>4, <3>1, <3>2 DEF Inv, TypeOK, Outcomes, SmsSound
      <3>4. PhasesAgree'
        BY <1>t, <2>1, <2>4, <3>1, <3>2 DEF PhasesAgree, SmsSound, Depth
      <3>5. SmsSound(sms, outcome, bodies)'
        BY <2>1, <2>4, <3>1 DEF SmsSound, Depth, QueueSound, ActiveSound, LedgerSound, Holds
      <3>6. InboxSound' BY <3>1 DEF Inv, InboxSound
      <3> QED BY <3>3, <3>4, <3>5, <3>6 DEF Inv
    <2>6. CASE sms.active.id \notin Unicode
      <3>1. Dispatch(want, registered, Idle(sms))
        BY <1>7, <2>6 DEF OkBody
      <3>2. /\ SmsSound(Idle(sms), outcome', bodies') /\ TypeOK /\ InboxSound
            /\ initialized' = TRUE
            /\ call' \in Calls /\ bodies' \in [ Requests -> Nat ] /\ hungUp' \in BOOLEAN
        BY <1>t, <2>1, <2>4 DEF Inv
      <3> QED BY <1>t, <2>4, <3>1, <3>2, DispatchInv
    <2> QED BY <2>5, <2>6
  <1> QED BY <1>1, <1>2, <1>3, <1>4, <1>5, <1>6, <1>7 DEF Ok

LEMMA ErrorInv ==
  ASSUME Inv, Error
  PROVE  Inv'
  <1>t. /\ want \in Want /\ registered \in BOOLEAN /\ call \in Calls /\ state \in States
        /\ outcome \in Outcomes /\ bodies \in [ Requests -> Nat ] /\ hungUp \in BOOLEAN
        /\ state \notin Offline => initialized = TRUE
    BY DEF Inv, TypeOK, PhasesAgree, Calls, Outcomes
  <1>1. CASE ErrorCmee
    <2>1. /\ state = "WAIT_CMEE" /\ state' = "WAIT_CUSD_ENABLE"
          /\ UNCHANGED <<initialized, registered, creg, want, call, inbox, sms, history>>
      BY <1>1 DEF ErrorCmee
    <2>2. /\ {"WAIT_CMEE", "WAIT_CUSD_ENABLE"} \subseteq States \cap Offline
          /\ {"WAIT_CMEE", "WAIT_CUSD_ENABLE"} \cap (SmsStates \cup BodyStates) = {}
      BY DEF States, Offline, ProbeStates, SmsStates, BodyStates
    <2>3. TypeOK' BY <2>1, <2>2 DEF Inv, TypeOK, history
    <2> QED BY <2>1, <2>2, <2>3, QuietInv DEF Inv, PhasesAgree, history
  <1>2. CASE ErrorCusd
    <2>1. state \notin SmsStates
      BY <1>2 DEF ErrorCusd, SmsStates, BodyStates
    <2> QED BY <1>2, <1>t, <2>1, WantTypes, DispatchQuiet DEF ErrorCusd, Initialized
  <1>3. CASE ErrorSms
    <2>1. state \in SmsStates /\ Verdict("failed") /\ sms' = Idle(sms) /\ Reboot
      BY <1>3 DEF ErrorSms
    <2>2. sms.active # NoSms BY <2>1 DEF Inv, PhasesAgree
    <2>3. /\ outcome' \in Outcomes /\ SmsSound(Idle(sms), outcome', bodies)
          /\ Idle(sms).active = NoSms /\ Idle(sms).submitted = FALSE
      BY <2>1, <2>2, VerdictSound
    <2> QED BY <2>1, <2>3, RebootInv
  <1>4. CASE ErrorRequest
    <2>1. state \notin SmsStates /\ state \notin Offline
      BY <1>4 DEF ErrorRequest, VoiceStates, UssdStates, SmsStates, BodyStates,
                  Offline, ProbeStates
    <2>2. [ want EXCEPT ![FlagOf[state]] = FALSE ] \in Want
      BY <1>4, <1>t DEF ErrorRequest, VoiceStates, UssdStates, FlagOf, Want
    <2> QED BY <1>4, <1>t, <2>1, <2>2, DispatchQuiet DEF ErrorRequest
  <1>5. CASE ErrorPoll
    <2>1. state \notin SmsStates /\ state \notin Offline
      BY <1>5 DEF ErrorPoll, PollStates, SmsStates, BodyStates, Offline, ProbeStates
    <2> QED BY <1>5, <1>t, <2>1, DispatchQuiet DEF ErrorPoll
  <1>6. CASE ErrorOther BY <1>6, RecoverInv DEF ErrorOther
  <1> QED BY <1>1, <1>2, <1>3, <1>4, <1>5, <1>6 DEF Error

LEMMA ListingInv ==
  ASSUME Inv, Listing
  PROVE  Inv'
  <1>t. /\ call \in Calls /\ inbox \in Inboxes /\ state \in States /\ heard \subseteq Slots
        /\ state \notin Offline => initialized = TRUE
    BY DEF Inv, TypeOK, PhasesAgree, Calls, Inboxes
  <1>l. /\ {"WAIT_SMS_LIST", "WAIT_SMS_DELETE", "WAIT_CALL_LIST"} \subseteq States \ Offline
        /\ {"WAIT_SMS_LIST", "WAIT_SMS_DELETE", "WAIT_CALL_LIST"}
             \cap (SmsStates \cup BodyStates) = {}
    BY DEF States, Offline, ProbeStates, PollStates, SmsStates, BodyStates
  <1>1. CASE ListError BY <1>1, RecoverInv DEF ListError
  <1>2. ASSUME /\ state = "WAIT_SMS_LIST" /\ UNCHANGED want /\ ListUnchanged
               /\ state' \in {"WAIT_SMS_LIST", "WAIT_SMS_DELETE", "WAIT_CALL_LIST"}
               /\ call' \in Calls /\ inbox' \in Inboxes /\ heard' \subseteq Slots
               /\ InboxSound'
        PROVE  Inv'
    <2>1. UNCHANGED <<initialized, registered, creg, sms, outcome, bodies, hungUp, want>>
      BY <1>2 DEF ListUnchanged
    <2>2. TypeOK' BY <1>2, <1>l, <2>1 DEF Inv, TypeOK, Calls, Inboxes
    <2> QED BY <1>2, <1>t, <1>l, <2>1, <2>2, QuietInv
  <1>m. /\ inbox.hasMessage => inbox.index \in Slots /\ inbox.index # 0
        /\ state = "WAIT_SMS_LIST" => (inbox.delete # 0 => inbox.delete \in heard)
    BY <1>t DEF Inv, InboxSound, Inboxes
  <1>3. CASE ListText
    <2>1. inbox' \in Inboxes BY <1>3, <1>t, InboxTypes DEF ListText
    <2>2. InboxSound' BY <1>3, <1>t, <1>m DEF ListText, InboxSound, Inboxes
    <2> QED BY <1>2, <1>3, <1>t, <2>1, <2>2 DEF ListText
  <1>4. ASSUME NEW i \in Slots \cup {0}, ListHeader(i) PROVE Inv'
    <2>1. CASE /\ ~inbox.hasMessage /\ inbox.delete = 0 /\ i # 0
               /\ inbox' = [ inbox EXCEPT !.index = i, !.hasMessage = TRUE,
                                          !.pending = FALSE ]
               /\ UNCHANGED heard
      <3>1. inbox' \in Inboxes BY <1>t, <2>1, InboxTypes
      <3>2. /\ state = "WAIT_SMS_LIST" /\ UNCHANGED <<state, want, call>> /\ ListUnchanged
        BY <1>4 DEF ListHeader
      <3>3. InboxSound' BY <1>t, <2>1, <3>2 DEF InboxSound, Inboxes
      <3> QED BY <1>2, <1>t, <2>1, <3>1, <3>2, <3>3
    <2>2. CASE /\ inbox.hasMessage /\ ~inbox.ignoreRest
               /\ inbox' = [ Finished(inbox) EXCEPT !.ignoreRest = TRUE ]
               /\ heard' = heard \cup {inbox.index}
      <3>1. inbox' \in Inboxes BY <1>t, <2>2, InboxTypes
      <3>2. /\ state = "WAIT_SMS_LIST" /\ UNCHANGED <<state, want, call>> /\ ListUnchanged
        BY <1>4 DEF ListHeader
      <3>3. InboxSound' BY <1>t, <2>2, <3>2 DEF InboxSound, Inboxes, Finished
      <3> QED BY <1>2, <1>t, <1>m, <2>2, <3>1, <3>2, <3>3
    <2> QED BY <1>4, <2>1, <2>2 DEF ListHeader
  <1>5. CASE ListOk
    <2>1. CASE ~(~inbox.hasMessage /\ inbox.delete = 0)
      <3>1. /\ state = "WAIT_SMS_LIST" /\ state' = "WAIT_SMS_DELETE"
            /\ UNCHANGED <<want, call>> /\ ListUnchanged
            /\ \/ /\ inbox.hasMessage
                  /\ inbox' = Finished(inbox) /\ heard' = heard \cup {inbox.index}
               \/ inbox.delete # 0 /\ UNCHANGED <<inbox, heard>> /\ ~inbox.hasMessage
        BY <1>5, <2>1 DEF ListOk
      <3>2. inbox' \in Inboxes BY <1>t, <3>1, InboxTypes
      <3>3. heard' \subseteq Slots BY <1>t, <1>m, <3>1
      <3>4. InboxSound' BY <1>t, <1>m, <3>1 DEF InboxSound, Inboxes, Finished
      <3> QED BY <1>2, <1>t, <3>1, <3>2, <3>3, <3>4
    <2>2. CASE ~inbox.hasMessage /\ inbox.delete = 0
      <3>1. StartCallList(call) /\ UNCHANGED <<want, inbox>> /\ state = "WAIT_SMS_LIST"
        BY <1>5, <2>2 DEF ListOk
      <3>2. call' \in Calls BY <1>t, <3>1, CallTypes DEF StartCallList
      <3>3. state' = "WAIT_CALL_LIST" /\ UNCHANGED history
        BY <3>1 DEF StartCallList
      <3>4. InboxSound' BY <2>2, <3>1, <3>3 DEF InboxSound
      <3> QED
        BY <1>2, <1>t, <3>1, <3>2, <3>3, <3>4 DEF StartCallList, ListUnchanged, history
    <2> QED BY <2>1, <2>2
  <1> QED BY <1>1, <1>3, <1>4, <1>5 DEF Listing

LEMMA UnsolicitedInv ==
  ASSUME Inv, Unsolicited
  PROVE  Inv'
  <1>t. /\ want \in Want /\ registered \in BOOLEAN /\ call \in Calls /\ state \in States
        /\ state \notin Offline => initialized = TRUE
    BY DEF Inv, TypeOK, PhasesAgree, Calls
  <1>1. CASE ModemRestarted BY <1>1, RecoverInv DEF ModemRestarted
  <1>2. ASSUME NEW c \in Calls, CallUpdate(c) PROVE Inv'
    <2>1. /\ call' = c
          /\ UNCHANGED <<state, initialized, registered, creg, want, inbox, sms, history>>
      BY <1>2 DEF CallUpdate
    <2>2. TypeOK' BY <1>2, <2>1 DEF Inv, TypeOK, Calls, history
    <2> QED BY <2>1, <2>2, QuietInv DEF Inv, PhasesAgree, history
  <1>3. CASE Ring \/ Clip
    BY <1>2, <1>3, <1>t, CallTypes DEF Ring, Clip
  <1>4. CASE \E stat \in CallStates : ClccLine(stat)
    BY <1>2, <1>4, <1>t, CallTypes DEF ClccLine
  <1>5. CASE CallEnded
    <2>1. Ended(call) \in Calls BY <1>t, CallTypes
    <2>2. CASE state \notin VoiceStates
      BY <1>2, <1>5, <2>1, <2>2 DEF CallEnded
    <2>3. CASE state \in VoiceStates
      <3>1. /\ call' = Ended(call)
            /\ Dispatch([ want EXCEPT ![FlagOf[state]] = FALSE ], registered, sms)
            /\ UNCHANGED <<initialized, outcome, bodies, hungUp>>
        BY <1>5, <2>3 DEF CallEnded
      <3>2. /\ state \notin SmsStates /\ state \notin Offline
            /\ [ want EXCEPT ![FlagOf[state]] = FALSE ] \in Want
        BY <1>t, <2>3 DEF VoiceStates, SmsStates, BodyStates, Offline, ProbeStates,
                          FlagOf, Want
      <3> QED BY <1>t, <2>1, <3>1, <3>2, DispatchQuiet
    <2> QED BY <2>2, <2>3
  <1>6. CASE SmsWaiting
    <2>1. /\ want' = [ want EXCEPT !.smsPoll = TRUE ]
          /\ UNCHANGED <<state, initialized, registered, creg, call, inbox, sms, history>>
      BY <1>6 DEF SmsWaiting
    <2>2. want' \in Want BY <1>t, <2>1, WantTypes
    <2>3. TypeOK' BY <2>1, <2>2 DEF Inv, TypeOK, history
    <2> QED BY <2>1, <2>3, QuietInv DEF Inv, PhasesAgree, history
  <1>7. CASE \E home \in BOOLEAN : CregLine(home)
    <2>1. /\ creg' \in {"none", "home", "off"} /\ registered' \in BOOLEAN
          /\ UNCHANGED <<state, initialized, want, call, inbox, sms, history>>
      BY <1>7 DEF CregLine, Inv, TypeOK
    <2>2. TypeOK' BY <2>1 DEF Inv, TypeOK, history
    <2> QED BY <2>1, <2>2, QuietInv DEF Inv, PhasesAgree, history
  <1>8. CASE CmgsLine
    <2>1. /\ state = "SMS_WAIT_RESULT" /\ state' = "SMS_WAIT_FINAL_OK"
          /\ UNCHANGED <<initialized, registered, creg, want, call, inbox, sms, history>>
      BY <1>8 DEF CmgsLine
    <2>2. {"SMS_WAIT_RESULT", "SMS_WAIT_FINAL_OK"}
            \subseteq (States \ Offline) \cap SmsStates \cap BodyStates
      BY DEF States, Offline, ProbeStates, PollStates, SmsStates, BodyStates
    <2>3. TypeOK' BY <2>1, <2>2 DEF Inv, TypeOK, history
    <2> QED BY <1>t, <2>1, <2>2, <2>3, QuietInv DEF history
  <1> QED BY <1>1, <1>3, <1>4, <1>5, <1>6, <1>7, <1>8 DEF Unsolicited

\* A handler of the public API: the new SMS part z keeps the active request.
LEMMA SubmitInv ==
  ASSUME Inv, NEW w \in Want, NEW z, Submit(w, z), SmsSound(z, outcome', bodies),
         z.active = sms.active, z.submitted = sms.submitted, outcome' \in Outcomes,
         UNCHANGED <<initialized, call, bodies>>, hungUp' \in BOOLEAN
  PROVE  Inv'
  <1>t. /\ registered \in BOOLEAN /\ call \in Calls /\ TypeOK /\ InboxSound
        /\ bodies \in [ Requests -> Nat ]
        /\ state \notin Offline => initialized = TRUE
    BY DEF Inv, TypeOK, PhasesAgree, Calls
  <1>1. CASE state = "READY"
    <2>1. state \notin SmsStates /\ state \notin Offline
      BY <1>1 DEF SmsStates, BodyStates, Offline, ProbeStates
    <2>2. z.active = NoSms /\ z.submitted = FALSE
      BY <2>1, NothingActive
    <2>3. Dispatch(w, registered, z) BY <1>1 DEF Submit
    <2>4. SmsSound(z, outcome', bodies') OBVIOUS
    <2> QED BY <1>t, <2>1, <2>2, <2>3, <2>4, DispatchInv
  <1>2. CASE state # "READY"
    <2>1. /\ want' = w /\ sms' = z
          /\ UNCHANGED <<state, registered, creg, inbox, heard, initialized, call, bodies>>
      BY <1>2 DEF Submit
    <2>2. TypeOK' BY <1>t, <2>1 DEF TypeOK, Outcomes, SmsSound
    <2>3. PhasesAgree'
      <3>1. (Depth(sms) <= Capacity)' BY <2>1 DEF SmsSound, Depth
      <3>2. sms'.active = sms.active /\ sms'.submitted = sms.submitted BY <2>1
      <3> QED BY <2>1, <3>1, <3>2 DEF Inv, PhasesAgree
    <2>4. SmsSound(sms, outcome, bodies)'
      <3>1. SmsSound(z, outcome', bodies) /\ sms' = z /\ bodies' = bodies BY <2>1
      <3> QED BY <3>1
    <2>5. InboxSound' BY <1>t, <2>1 DEF InboxSound
    <2> QED BY <2>2, <2>3, <2>4, <2>5 DEF Inv
  <1> QED BY <1>1, <1>2

LEMMA ApiInv ==
  ASSUME Inv, Api
  PROVE  Inv'
  <1>t. /\ want \in Want /\ hungUp \in BOOLEAN /\ outcome \in Outcomes
        /\ bodies \in [ Requests -> Nat ] /\ SmsSound(sms, outcome, bodies)
    BY DEF Inv, TypeOK, Outcomes
  <1>1. CASE Update \/ SendUssd \/ Dial \/ Connect
    <2>1. PICK w \in Want :
            /\ Submit(w, sms) /\ hungUp' \in BOOLEAN
            /\ UNCHANGED <<initialized, call, outcome, bodies>>
      <3>1. CASE Update BY <1>t, <3>1, WantTypes DEF Update
      <3>2. CASE SendUssd BY <1>t, <3>2, WantTypes DEF SendUssd
      <3>3. CASE Dial BY <1>t, <3>3, WantTypes DEF Dial
      <3>4. CASE Connect BY <1>t, <3>4, WantTypes DEF Connect
      <3> QED BY <1>1, <3>1, <3>2, <3>3, <3>4
    <2>2. SmsSound(sms, outcome', bodies) /\ outcome' \in Outcomes BY <1>t, <2>1
    <2> QED BY <2>1, <2>2, SubmitInv
  <1>2. CASE Disconnect
    <2>1. hungUp' = TRUE /\ UNCHANGED <<initialized, call, outcome, bodies>>
      BY <1>2 DEF Disconnect
    <2>2. CASE state \notin Interruptible
      <3>1. /\ Submit([ want EXCEPT !.disconnect = TRUE ], sms)
            /\ [ want EXCEPT !.disconnect = TRUE ] \in Want
        BY <1>2, <1>t, <2>2, WantTypes DEF Disconnect
      <3>2. SmsSound(sms, outcome', bodies) /\ outcome' \in Outcomes BY <1>t, <2>1
      <3> QED BY <2>1, <3>1, <3>2, SubmitInv
    <2>3. CASE state \in Interruptible
      <3>1. /\ state' = "HANGUP_WAIT" /\ want' \in Want
            /\ UNCHANGED <<registered, creg, inbox, sms, heard>>
        BY <1>2, <1>t, <2>3, WantTypes DEF Disconnect
      <3>2. /\ "HANGUP_WAIT" \in States \ Offline
            /\ "HANGUP_WAIT" \notin SmsStates \cup BodyStates
            /\ state \notin SmsStates \cup BodyStates \cup Offline
        BY <2>3 DEF Interruptible, States, Offline, ProbeStates, PollStates, SmsStates,
                    BodyStates, VoiceStates
      <3>3. TypeOK' BY <2>1, <3>1, <3>2 DEF Inv, TypeOK
      <3>4. initialized' = TRUE BY <2>1, <3>2 DEF Inv, TypeOK, PhasesAgree
      <3> QED BY <2>1, <3>1, <3>2, <3>3, <3>4, QuietInv
    <2> QED BY <2>2, <2>3
  <1>3. ASSUME NEW r \in Requests, SendSms(r) PROVE Inv'
    <2>1. outcome[r] = "none" /\ UNCHANGED <<initialized, call, bodies, hungUp>>
      BY <1>3 DEF SendSms
    <2>2. CASE r \in Invalid \/ Depth(sms) >= Capacity
      <3>1. /\ outcome' = [ outcome EXCEPT ![r] = "failed" ]
            /\ UNCHANGED <<state, registered, creg, want, inbox, sms, heard>>
        BY <1>3, <2>2 DEF SendSms
      <3>2. outcome' \in Outcomes /\ \A z \in Requests : z # r => outcome'[z] = outcome[z]
        BY <1>t, <3>1 DEF Outcomes
      <3>3. outcome'[r] = "failed" /\ bodies[r] = 0
        BY <1>t, <2>1, <3>1 DEF Outcomes, SmsSound, LedgerSound
      <3>4. QueueSound(sms.queue, outcome', bodies)
        <4>1. \A i \in DOMAIN sms.queue : sms.queue[i].id \in Requests
                                          /\ sms.queue[i].id # r
          BY <1>t, <2>1, PartTypes DEF SmsSound, QueueSound
        <4> QED BY <1>t, <3>2, <4>1 DEF SmsSound, QueueSound
      <3>5. ActiveSound(sms, outcome', bodies)
        <4>1. sms.active # NoSms => sms.active.id \in Requests /\ sms.active.id # r
          BY <1>t, <2>1, PartTypes DEF SmsSound, ActiveSound
        <4> QED BY <1>t, <3>2, <4>1 DEF SmsSound, ActiveSound
      <3>6. LedgerSound(sms, outcome', bodies)
        BY <1>t, <3>2, <3>3 DEF SmsSound, LedgerSound
      <3>7. SmsSound(sms, outcome, bodies)'
        <4>1. sms' = sms /\ bodies' = bodies BY <2>1, <3>1
        <4>2. SmsSound(sms, outcome', bodies) BY <1>t, <3>4, <3>5, <3>6 DEF SmsSound
        <4> QED BY <4>1, <4>2
      <3>8. TypeOK' BY <2>1, <3>1, <3>2 DEF Inv, TypeOK, Outcomes
      <3>9. PhasesAgree' /\ InboxSound'
        BY <2>1, <3>1 DEF Inv, PhasesAgree, InboxSound, Depth
      <3> QED BY <3>7, <3>8, <3>9 DEF Inv
    <2>3. CASE ~(r \in Invalid \/ Depth(sms) >= Capacity)
      <3> DEFINE z == [ sms EXCEPT !.queue = Append(@, [ id |-> r, attempts |-> 0 ]) ]
      <3>1. outcome' = [ outcome EXCEPT ![r] = "open" ] /\ Submit(want, z)
        BY <1>3, <2>3 DEF SendSms
      <3>2. Depth(sms) < Capacity
        <4>1. Depth(sms) \in Nat BY <1>t, DepthType DEF SmsSound
        <4> QED BY <2>3, <4>1, CapacityAssumption
      <3>3. outcome' \in Outcomes BY <1>t, <3>1 DEF Outcomes
      <3>4. /\ SmsSound(z, outcome', bodies)
            /\ z.active = sms.active /\ z.submitted = sms.submitted
        <4>1. /\ SmsSound(z, [ outcome EXCEPT ![r] = "open" ], bodies)
              /\ z.active = sms.active /\ z.submitted = sms.submitted
          BY <1>t, <2>1, <3>2, AppendedSound
        <4> QED BY <3>1, <4>1
      <3> HIDE DEF z
      <3> QED BY <1>t, <2>1, <3>1, <3>3, <3>4, SubmitInv
    <2> QED BY <2>2, <2>3
  <1> QED BY <1>1, <1>2, <1>3 DEF Api

LEMMA InitInv == Init => Inv
  <1> SUFFICES ASSUME Init PROVE Inv
    OBVIOUS
  <1>1. /\ sms = [ queue |-> <<>>, active |-> NoSms, submitted |-> FALSE ]
        /\ state = "BOOT_WAIT" /\ initialized = FALSE
    BY DEF Init
  <1>2. "BOOT_WAIT" \in States \cap Offline /\ "BOOT_WAIT" \notin SmsStates \cup BodyStates
    BY DEF States, Offline, ProbeStates, SmsStates, BodyStates
  <1>3. sms \in SmsPart BY <1>1 DEF SmsPart
  <1>4. TypeOK
    BY <1>2, <1>3 DEF Init, TypeOK, Want, EmptyInbox
  <1>5. Depth(sms) = 0 /\ 0 <= Capacity
    BY <1>1, CapacityAssumption DEF Depth
  <1>6. PhasesAgree BY <1>1, <1>2, <1>5 DEF PhasesAgree
  <1>7. DOMAIN sms.queue = {} BY <1>1
  <1>8. SmsSound(sms, outcome, bodies)
    BY <1>1, <1>3, <1>5, <1>7 DEF Init, SmsSound, QueueSound, ActiveSound, LedgerSound
  <1>9. InboxSound BY DEF Init, InboxSound, EmptyInbox
  <1> QED BY <1>4, <1>6, <1>8, <1>9 DEF Inv

LEMMA NextInv == Inv /\ [Next]_vars => Inv'
  <1> SUFFICES ASSUME Inv, [Next]_vars PROVE Inv'
    OBVIOUS
  <1>1. CASE UNCHANGED vars
    <2>1. TypeOK' BY <1>1 DEF Inv, TypeOK, vars, driver, history
    <2> QED BY <1>1, <2>1, QuietInv DEF Inv, PhasesAgree, vars, driver, history
  <1>2. CASE Next
    BY <1>2, LoopInv, OkInv, ErrorInv, ListingInv, UnsolicitedInv, ApiInv DEF Next
  <1> QED BY <1>1, <1>2

----------------------------------------------------------------------------
(* The theorems.                                                           *)

\* Inv is an invariant of the driver.
THEOREM Invariance == Spec => []Inv
  BY InitInv, NextInv, PTL DEF Spec

\* Every variable keeps its type in every reachable state of every instance.
THEOREM TypeCorrect == Spec => []TypeOK
  <1>1. Inv => TypeOK BY DEF Inv
  <1> QED BY <1>1, Invariance, PTL

\* Bookkeeping and protocol state agree, and the queue respects its capacity.
THEOREM PhasesAlwaysAgree == Spec => []PhasesAgree
  <1>1. Inv => PhasesAgree BY DEF Inv
  <1> QED BY <1>1, Invariance, PTL

\* No interleaving of answers, deadlines, restarts and retries sends the text of
\* a request to the network twice.
THEOREM NeverTwice == Spec => []AtMostOneBody
  <1>1. ASSUME Inv, NEW r \in Requests PROVE bodies[r] <= 1
    <2>1. bodies[r] = 0 \/ bodies[r] = 1
      BY <1>1 DEF Inv, SmsSound, LedgerSound
    <2> QED BY <2>1
  <1>2. Inv => AtMostOneBody BY <1>1 DEF AtMostOneBody
  <1> QED BY <1>2, Invariance, PTL

\* "sent" and "unknown" are verdicts about a text that went out; queued requests
\* have not been submitted.
THEOREM VerdictsHonest == Spec => []HonestVerdicts
  <1>1. Inv => HonestVerdicts
    <2> SUFFICES ASSUME Inv PROVE HonestVerdicts
      OBVIOUS
    <2>1. /\ sms \in SmsPart /\ QueueSound(sms.queue, outcome, bodies)
          /\ ActiveSound(sms, outcome, bodies) /\ LedgerSound(sms, outcome, bodies)
      BY DEF Inv, SmsSound
    <2>2. \A r \in Requests : outcome[r] \in {"sent", "unknown"} => bodies[r] > 0
      BY <2>1 DEF LedgerSound
    <2>3. \A i \in DOMAIN sms.queue : bodies[sms.queue[i].id] = 0
      BY <2>1 DEF QueueSound
    <2>4. sms.active # NoSms => (bodies[sms.active.id] > 0 <=> sms.submitted)
      <3>1. CASE sms.submitted BY <2>1, <3>1 DEF ActiveSound
      <3>2. CASE ~sms.submitted BY <2>1, <3>2 DEF ActiveSound
      <3> QED BY <3>1, <3>2
    <2> QED BY <2>2, <2>3, <2>4 DEF HonestVerdicts
  <1> QED BY <1>1, Invariance, PTL

\* Every accepted request without a verdict is in the queue or being sent, once.
THEOREM HeldOnce == Spec => []EachHeldOnce
  <1>1. Inv => EachHeldOnce
    BY DEF Inv, SmsSound, QueueSound, ActiveSound, LedgerSound, Holds, EachHeldOnce
  <1> QED BY <1>1, Invariance, PTL

\* The attempts of a request never exceed the configured limit.
THEOREM AttemptsAreBounded == Spec => []AttemptsBounded
  <1>1. Inv => AttemptsBounded
    BY DEF Inv, SmsSound, QueueSound, ActiveSound, AttemptsBounded
  <1> QED BY <1>1, Invariance, PTL

\* The protocol's phases, the place of each request and its attempts, together.
THEOREM RequestsAreKept == Spec => []RequestsKept
  BY PhasesAlwaysAgree, HeldOnce, AttemptsAreBounded, PTL DEF RequestsKept

\* A message is deleted from the SIM only after the callback received it.
THEOREM DeletedAfterHeard == Spec => []DeletedWasHeard
  <1>1. Inv => DeletedWasHeard BY DEF Inv, InboxSound, DeletedWasHeard
  <1> QED BY <1>1, Invariance, PTL

\* A request for new work never disturbs an SMS exchange with the modem: the step
\* in which a flag is raised keeps the protocol state and the SMS part.
THEOREM NotPreempted == Spec => NoPreemption
  <1> DEFINE Raised == \E f \in DOMAIN want : want'[f] /\ ~want[f]
             Kept   == state' = state /\ sms' = sms
  <1>1. ASSUME Inv, [Next]_vars, state \in SmsStates, Raised PROVE Kept
    <2>t. want \in Want /\ registered \in BOOLEAN
      BY <1>1 DEF Inv, TypeOK
    <2>1. CASE UNCHANGED want BY <2>1, <1>1
    <2>2. CASE Recover BY <2>1, <2>2 DEF Recover, Reboot
    <2>3. ASSUME NEW w \in Want, NEW reg, NEW s, Dispatch(w, reg, s),
                 \A f \in DOMAIN want : w[f] => want[f]
          PROVE  Kept
      <3>1. \A f \in DOMAIN want : want'[f] => w[f]
        BY <2>3, <2>t DEF Dispatch, Want
      <3> QED BY <3>1, <2>3, <1>1
    <2>4. state \notin {"READY", "BOOT_WAIT"} \cup ProbeStates \cup PollStates \cup AfterSms
                         \cup VoiceStates \cup UssdStates
      BY <1>1 DEF SmsStates, BodyStates, ProbeStates, PollStates, AfterSms, VoiceStates,
                  UssdStates
    <2>5. CASE Loop \/ Prompt \/ Overflow \/ (\E s \in States : Deadline(s))
      BY <2>1, <2>2, <2>4, <2>5 DEF Loop, Prompt, Overflow, Deadline
    <2>6. CASE Ok
      <3>1. CASE OkBody BY <2>1, <2>3, <2>t, <3>1 DEF OkBody
      <3>2. CASE OkNextCommand BY <2>1, <3>2 DEF OkNextCommand
      <3> QED
        BY <2>4, <2>6, <3>1, <3>2 DEF Ok, OkInitialized, OkCreg, OkCsq, OkDelete, OkCallList,
          OkRestored, OkDial, OkAnswer, OkHangup, OkUssd, ProbeStates, PollStates, AfterSms,
          VoiceStates, UssdStates
    <2>7. CASE Error
      <3>1. CASE ErrorSms BY <2>1, <3>1 DEF ErrorSms, Reboot
      <3>2. CASE ErrorOther BY <2>2, <3>2 DEF ErrorOther
      <3> QED
        BY <2>4, <2>7, <3>1, <3>2 DEF Error, ErrorCmee, ErrorCusd, ErrorRequest, ErrorPoll,
          ProbeStates, PollStates
    <2>8. CASE Listing
      BY <2>4, <2>8 DEF Listing, ListText, ListHeader, ListOk, ListError, PollStates
    <2>9. CASE Unsolicited
      <3>1. CASE SmsWaiting BY <3>1 DEF SmsWaiting
      <3>2. CASE CallEnded BY <2>1, <2>4, <3>2 DEF CallEnded, CallUpdate
      <3> QED
        BY <2>1, <2>2, <2>9, <3>1, <3>2 DEF Unsolicited, ModemRestarted, Ring, Clip, CmgsLine,
          CregLine, ClccLine, CallUpdate
    <2>10. CASE Api
      <3>1. CASE \E q \in Requests : SendSms(q)
        BY <2>1, <2>4, <3>1 DEF SendSms, Submit
      <3>2. CASE Update \/ SendUssd \/ Dial \/ Connect
        BY <2>4, <3>2 DEF Update, SendUssd, Dial, Connect, Submit
      <3>3. CASE Disconnect
        BY <2>4, <3>3 DEF Disconnect, Submit, Interruptible, VoiceStates
      <3> QED BY <2>10, <3>1, <3>2, <3>3 DEF Api
    <2> QED BY <1>1, <2>1, <2>5, <2>6, <2>7, <2>8, <2>9, <2>10 DEF Next, vars, driver
  <1>2. Inv /\ [Next]_vars => [ Raised /\ state \in SmsStates => Kept ]_vars
    BY <1>1
  <1> QED BY <1>2, Invariance, PTL DEF Spec, NoPreemption

----------------------------------------------------------------------------
(* Sim800l implements SmsTransport under the mapping                       *)
(*   pending <- Pending(sms), submitted <- sms.submitted, verdict <- outcome*)
(* Activation and requeueing move a request between the queue and the      *)
(* active place without changing Pending, so they are stutters; Prompt is  *)
(* Submit; a verdict is Resolve; send_sms is Accept or Reject.             *)

(* What the SMS helpers do to the abstract queue.                          *)

LEMMA IdsType ==
  ASSUME NEW q \in Seq(SmsRequest)
  PROVE  /\ Ids(q) \in Seq(Requests) /\ Len(Ids(q)) = Len(q) /\ Len(q) \in Nat
         /\ \A i \in 1..Len(q) : Ids(q)[i] = q[i].id
  <1>1. Len(q) \in Nat /\ \A i \in 1..Len(q) : q[i] \in SmsRequest
    OBVIOUS
  <1>2. \A e \in SmsRequest : e.id \in Requests BY DEF SmsRequest
  <1>3. Ids(q) \in [ 1..Len(q) -> Requests ] BY <1>1, <1>2 DEF Ids
  <1>4. Ids(q) \in Seq(Requests) BY <1>1, <1>3, SeqDef
  <1>5. DOMAIN Ids(q) = 1..Len(q) BY DEF Ids
  <1>6. Len(Ids(q)) = Len(q) BY <1>1, <1>4, <1>5, LenProperties
  <1> QED BY <1>1, <1>4, <1>6 DEF Ids

LEMMA PendingType ==
  ASSUME NEW s \in SmsPart
  PROVE  Pending(s) \in Seq(Requests) /\ Len(Pending(s)) = Depth(s)
  <1>1. /\ s.queue \in Seq(SmsRequest) /\ Ids(s.queue) \in Seq(Requests)
        /\ Len(Ids(s.queue)) = Len(s.queue) /\ Len(s.queue) \in Nat
    BY PartTypes, IdsType
  <1>2. CASE s.active = NoSms BY <1>1, <1>2 DEF Pending, Depth
  <1>3. CASE s.active # NoSms
    <2>1. <<s.active.id>> \in Seq(Requests) /\ Len(<<s.active.id>>) = 1
      BY <1>3, PartTypes
    <2>2. /\ <<s.active.id>> \o Ids(s.queue) \in Seq(Requests)
          /\ Len(<<s.active.id>> \o Ids(s.queue)) = 1 + Len(s.queue)
      BY <2>1, <1>1, ConcatProperties
    <2> QED BY <2>2, <1>1, <1>3 DEF Pending, Depth
  <1> QED BY <1>2, <1>3

\* A non-empty queue of ids is the first one followed by the rest.
LEMMA ConsIds ==
  ASSUME NEW q \in Seq(SmsRequest), Len(q) > 0
  PROVE  Ids(q) = <<Head(q).id>> \o Ids(Tail(q))
  <1> DEFINE h == Head(q)
             t == Tail(q)
             l == <<h.id>> \o Ids(t)
             n == Len(q)
  <1>1. /\ n \in Nat /\ n > 0 /\ h = q[1] /\ h \in SmsRequest /\ h.id \in Requests
        /\ t \in Seq(SmsRequest) /\ Len(t) = n - 1
        /\ \A i \in 1..(n - 1) : t[i] = q[i + 1]
    <2>1. h = q[1] /\ h \in SmsRequest /\ t \in Seq(SmsRequest) /\ Len(t) = n - 1
      OBVIOUS
    <2>2. \A i \in 1..(n - 1) : t[i] = q[i + 1] OBVIOUS
    <2> QED BY <2>1, <2>2 DEF SmsRequest
  <1>2. /\ Ids(q) \in Seq(Requests) /\ Len(Ids(q)) = n
        /\ \A i \in 1..n : Ids(q)[i] = q[i].id
    BY IdsType
  <1>3. /\ Ids(t) \in Seq(Requests) /\ Len(Ids(t)) = n - 1
        /\ \A i \in 1..(n - 1) : Ids(t)[i] = t[i].id
    BY <1>1, IdsType
  <1>4. /\ <<h.id>> \in Seq(Requests) /\ Len(<<h.id>>) = 1 /\ <<h.id>>[1] = h.id
    BY <1>1
  <1>5. /\ l \in Seq(Requests) /\ Len(l) = 1 + (n - 1)
        /\ \A i \in 1..(1 + (n - 1)) : l[i] = IF i <= 1 THEN <<h.id>>[i] ELSE Ids(t)[i - 1]
    BY <1>3, <1>4, ConcatProperties
  <1> HIDE DEF l, h, t, n
  <1>6. ASSUME NEW i \in 1..n PROVE Ids(q)[i] = l[i]
    <2>1. CASE i = 1 BY <2>1, <1>1, <1>2, <1>4, <1>5
    <2>2. CASE i # 1
      <3>1. i - 1 \in 1..(n - 1) /\ i - 1 + 1 = i BY <1>1, <2>2
      <3>2. Ids(t)[i - 1] = q[i].id BY <3>1, <1>1, <1>3
      <3> QED BY <3>1, <3>2, <2>2, <1>1, <1>2, <1>5
    <2> QED BY <2>1, <2>2
  <1>7. Len(l) = n BY <1>1, <1>5
  <1>8. Ids(q) = l BY <1>2, <1>5, <1>6, <1>7, SeqEqual
  <1> QED BY <1>8 DEF l, h, t

LEMMA PendingActivated ==
  ASSUME NEW s \in SmsPart, s.active = NoSms, Len(s.queue) > 0
  PROVE  Pending(Activated(s)) = Pending(s)
  <1> DEFINE a == [ Head(s.queue) EXCEPT !.attempts = @ + 1 ]
  <1>1. /\ s.queue \in Seq(SmsRequest) /\ Head(s.queue) \in SmsRequest
    BY PartTypes
  <1>2. a \in SmsRequest /\ a.id = Head(s.queue).id
    BY <1>1 DEF SmsRequest
  <1>3. a # NoSms BY <1>2, NoSmsAssumption
  <1>4. Pending(Activated(s)) = <<Head(s.queue).id>> \o Ids(Tail(s.queue))
    BY <1>2, <1>3 DEF Activated, Pending
  <1>5. Pending(s) = Ids(s.queue) BY DEF Pending
  <1> QED BY <1>1, <1>4, <1>5, ConsIds

LEMMA PendingRequeued ==
  ASSUME NEW s \in SmsPart, s.active # NoSms
  PROVE  Pending(Requeued(s)) = Pending(s)
  <1> DEFINE q == <<s.active>> \o s.queue
  <1>1. s.queue \in Seq(SmsRequest) /\ s.active \in SmsRequest
    BY PartTypes
  <1>2. <<s.active>> \in Seq(SmsRequest) /\ Len(<<s.active>>) = 1
    BY <1>1
  <1>3. q \in Seq(SmsRequest) /\ q # << >> /\ Len(q) > 0
    BY <1>1, <1>2
  <1>4. Head(q) = s.active /\ Tail(q) = s.queue
    BY <1>1, <1>2
  <1>5. Pending(Requeued(s)) = Ids(q) BY DEF Requeued, Pending
  <1>6. Ids(q) = <<s.active.id>> \o Ids(s.queue) BY <1>3, <1>4, ConsIds
  <1> QED BY <1>5, <1>6 DEF Pending

LEMMA PendingIdle ==
  ASSUME NEW s \in SmsPart, s.active # NoSms
  PROVE  /\ Pending(s) # << >> /\ Head(Pending(s)) = s.active.id
         /\ Pending(Idle(s)) = Tail(Pending(s))
  <1>1. /\ s.queue \in Seq(SmsRequest) /\ Ids(s.queue) \in Seq(Requests)
        /\ s.active.id \in Requests
    BY PartTypes, IdsType
  <1>2. Pending(s) = <<s.active.id>> \o Ids(s.queue) BY DEF Pending
  <1>3. Pending(Idle(s)) = Ids(s.queue)
    BY DEF Pending, Idle, SmsPart
  <1> DEFINE l == <<s.active.id>> \o Ids(s.queue)
  <1>4. l # << >> /\ Head(l) = s.active.id /\ Tail(l) = Ids(s.queue)
    BY <1>1
  <1> QED BY <1>2, <1>3, <1>4

LEMMA IdsAppended ==
  ASSUME NEW q \in Seq(SmsRequest), NEW e \in SmsRequest
  PROVE  Ids(Append(q, e)) = Append(Ids(q), e.id)
  <1> DEFINE n == Len(q)
             l == Ids(Append(q, e))
             m == Append(Ids(q), e.id)
  <1>1. /\ Append(q, e) \in Seq(SmsRequest) /\ Len(Append(q, e)) = n + 1 /\ n \in Nat
        /\ \A i \in 1..n : Append(q, e)[i] = q[i]
        /\ Append(q, e)[n + 1] = e /\ e.id \in Requests
    BY DEF SmsRequest
  <1>2. /\ Ids(q) \in Seq(Requests) /\ Len(Ids(q)) = n
        /\ \A i \in 1..n : Ids(q)[i] = q[i].id
    BY IdsType
  <1>3. /\ l \in Seq(Requests) /\ Len(l) = n + 1
        /\ \A i \in 1..(n + 1) : l[i] = Append(q, e)[i].id
    BY <1>1, IdsType
  <1>4. /\ m \in Seq(Requests) /\ Len(m) = n + 1
        /\ \A i \in 1..n : m[i] = Ids(q)[i]
        /\ m[n + 1] = e.id
    BY <1>1, <1>2
  <1> HIDE DEF l, m, n
  <1>5. ASSUME NEW i \in 1..(n + 1) PROVE l[i] = m[i]
    <2>1. CASE i = n + 1 BY <2>1, <1>1, <1>3, <1>4
    <2>2. CASE i \in 1..n BY <2>2, <1>1, <1>2, <1>3, <1>4
    <2> QED BY <2>1, <2>2, <1>1
  <1>6. l = m BY <1>3, <1>4, <1>5, SeqEqual
  <1> QED BY <1>6 DEF l, m

LEMMA PendingAppended ==
  ASSUME NEW s \in SmsPart, NEW e \in SmsRequest
  PROVE  Pending([ s EXCEPT !.queue = Append(@, e) ]) = Append(Pending(s), e.id)
  <1> DEFINE x == [ s EXCEPT !.queue = Append(@, e) ]
  <1>1. /\ s.queue \in Seq(SmsRequest) /\ Ids(s.queue) \in Seq(Requests)
        /\ e.id \in Requests
    BY PartTypes, IdsType DEF SmsRequest
  <1>2. x.queue = Append(s.queue, e) /\ x.active = s.active
    BY DEF SmsPart
  <1>3. Ids(x.queue) = Append(Ids(s.queue), e.id) BY <1>1, <1>2, IdsAppended
  <1> HIDE DEF x
  <1>4. CASE s.active = NoSms BY <1>2, <1>3, <1>4 DEF Pending
  <1>5. CASE s.active # NoSms
    <2>1. s.active.id \in Requests BY <1>5, PartTypes
    <2>2. <<s.active.id>> \o Append(Ids(s.queue), e.id)
            = Append(<<s.active.id>> \o Ids(s.queue), e.id)
      BY <2>1, <1>1
    <2> QED BY <2>2, <1>2, <1>3, <1>5 DEF Pending
  <1> QED BY <1>4, <1>5 DEF x

----------------------------------------------------------------------------
(* Steps.                                                                  *)

\* The abstract state does not change.
Stutter == Pending(sms') = Pending(sms) /\ sms'.submitted = sms.submitted
             /\ outcome' = outcome

LEMMA StutterStep ==
  ASSUME Stutter
  PROVE  [Transport!Next]_(Transport!vars)
  BY DEF Stutter, Transport!vars

\* process_ready_ only moves a request from the queue to the active place.
LEMMA DispatchPending ==
  ASSUME NEW w \in Want, NEW reg \in BOOLEAN, NEW s \in SmsPart,
         s.active = NoSms, s.submitted = FALSE, Dispatch(w, reg, s)
  PROVE  Pending(sms') = Pending(s) /\ sms'.submitted = FALSE
  <1> DEFINE c == Chosen(w, reg, s)
  <1>1. sms' = IF c = "SMS_WAIT_CMGF" THEN Activated(s) ELSE s
    BY DEF Dispatch
  <1>2. c = "SMS_WAIT_CMGF" => Len(s.queue) > 0 BY ChosenState
  <1>3. Activated(s).submitted = FALSE BY DEF Activated
  <1> HIDE DEF c
  <1>4. CASE c = "SMS_WAIT_CMGF" BY <1>1, <1>2, <1>3, <1>4, PendingActivated
  <1>5. CASE c # "SMS_WAIT_CMGF" BY <1>1, <1>5
  <1> QED BY <1>4, <1>5

LEMMA ResolveStep ==
  ASSUME Inv, NEW v \in {"sent", "failed", "unknown"}, sms.active # NoSms, Verdict(v),
         v \in {"sent", "unknown"} => sms.submitted,
         Pending(sms') = Pending(Idle(sms)), sms'.submitted = FALSE
  PROVE  [Transport!Next]_(Transport!vars)
  <1>1. sms \in SmsPart BY DEF Inv, TypeOK
  <1>2. outcome' = [ outcome EXCEPT ![sms.active.id] = v ] BY VerdictSound
  <1>3. /\ Pending(sms) # << >> /\ Head(Pending(sms)) = sms.active.id
        /\ Pending(sms') = Tail(Pending(sms))
    BY <1>1, PendingIdle
  <1>4. Transport!Resolve(v) BY <1>2, <1>3 DEF Transport!Resolve
  <1> QED BY <1>4 DEF Transport!Next

LEMMA RecoverStep ==
  ASSUME Inv, Recover
  PROVE  [Transport!Next]_(Transport!vars)
  <1>1. sms \in SmsPart BY DEF Inv, TypeOK
  <1>2. CASE sms.active = NoSms /\ UNCHANGED <<sms, outcome>>
    BY <1>2, StutterStep DEF Stutter
  <1>3. CASE Requeueable(sms) /\ sms' = Requeued(sms) /\ UNCHANGED outcome
    <2>1. Pending(Requeued(sms)) = Pending(sms) /\ Requeued(sms).submitted = FALSE
      BY <1>1, <1>3, PendingRequeued DEF Requeueable, Requeued
    <2>2. sms.submitted = FALSE BY <1>1, <1>3 DEF Requeueable, SmsPart
    <2> QED BY <2>1, <2>2, <1>3, StutterStep DEF Stutter
  <1>4. CASE /\ sms.active # NoSms /\ ~Requeueable(sms)
             /\ sms' = Idle(sms)
             /\ Verdict(IF sms.submitted THEN "unknown" ELSE "failed")
    <2> DEFINE v == IF sms.submitted THEN "unknown" ELSE "failed"
    <2>1. v \in {"sent", "failed", "unknown"} /\ (v \in {"sent", "unknown"} => sms.submitted)
      OBVIOUS
    <2>2. Verdict(v) BY <1>4
    <2>3. Idle(sms).submitted = FALSE BY <1>1 DEF Idle, SmsPart
    <2> HIDE DEF v
    <2> QED BY <1>4, <2>1, <2>2, <2>3, ResolveStep
  <1> QED BY <1>2, <1>3, <1>4 DEF Recover

\* process_ready_ with unchanged verdicts while no request is active.
LEMMA DispatchStep ==
  ASSUME Inv, state \notin SmsStates, NEW w \in Want, NEW reg \in BOOLEAN,
         Dispatch(w, reg, sms), UNCHANGED outcome
  PROVE  [Transport!Next]_(Transport!vars)
  <1>1. sms \in SmsPart /\ sms.active = NoSms /\ sms.submitted = FALSE
    BY NothingActive DEF Inv, TypeOK
  <1>2. Pending(sms') = Pending(sms) /\ sms'.submitted = FALSE
    BY <1>1, DispatchPending
  <1> QED BY <1>1, <1>2, StutterStep DEF Stutter

\* A public handler that leaves the SMS part z.
LEMMA SubmitPending ==
  ASSUME Inv, NEW w \in Want, NEW z \in SmsPart, Submit(w, z),
         z.active = sms.active, z.submitted = sms.submitted
  PROVE  Pending(sms') = Pending(z) /\ sms'.submitted = sms.submitted
  <1>1. registered \in BOOLEAN BY DEF Inv, TypeOK
  <1>2. CASE state = "READY"
    <2>1. z.active = NoSms /\ z.submitted = FALSE
      BY <1>2, NothingActive DEF SmsStates, BodyStates
    <2> QED BY <1>1, <1>2, <2>1, DispatchPending DEF Submit
  <1>3. CASE state # "READY" BY <1>3 DEF Submit
  <1> QED BY <1>2, <1>3

LEMMA LoopStep ==
  ASSUME Inv, Loop \/ Prompt \/ Overflow \/ (\E s \in States : Deadline(s))
  PROVE  [Transport!Next]_(Transport!vars)
  <1>t. want \in Want /\ registered \in BOOLEAN /\ sms \in SmsPart
    BY DEF Inv, TypeOK
  <1>1. CASE Loop
    BY <1>1, <1>t, DispatchStep DEF Loop, SmsStates, BodyStates
  <1>2. CASE Prompt
    <2>1. /\ sms.active # NoSms /\ ~sms.submitted /\ UNCHANGED outcome
          /\ sms' = [ sms EXCEPT !.submitted = TRUE ]
      BY <1>2 DEF Prompt, Inv, PhasesAgree, BodyStates
    <2>2. /\ sms'.submitted = TRUE /\ sms'.queue = sms.queue /\ sms'.active = sms.active
      BY <2>1, <1>t DEF SmsPart
    <2>3. Pending(sms') = Pending(sms) BY <2>2 DEF Pending
    <2>4. Pending(sms) # << >> BY <2>1, <1>t, PendingIdle
    <2>5. Transport!Submit BY <2>1, <2>2, <2>3, <2>4 DEF Transport!Submit
    <2> QED BY <2>5 DEF Transport!Next
  <1>3. CASE Overflow BY <1>3, RecoverStep DEF Overflow
  <1>4. CASE \E s \in States : Deadline(s)
    <2>1. CASE Recover BY <2>1, RecoverStep
    <2>2. CASE ~Recover
      <3>1. UNCHANGED sms /\ UNCHANGED outcome BY <1>4, <2>2 DEF Deadline, history
      <3> QED BY <3>1, StutterStep DEF Stutter
    <2> QED BY <2>1, <2>2
  <1> QED BY <1>1, <1>2, <1>3, <1>4

LEMMA OkStep ==
  ASSUME Inv, Ok
  PROVE  [Transport!Next]_(Transport!vars)
  <1>t. want \in Want /\ registered \in BOOLEAN /\ sms \in SmsPart
    BY DEF Inv, TypeOK
  <1>1. CASE UNCHANGED <<sms, outcome>>
    BY <1>1, StutterStep DEF Stutter
  <1>2. CASE OkNextCommand \/ OkCsq \/ OkDelete \/ OkDial
    BY <1>1, <1>2 DEF OkNextCommand, OkCsq, OkDelete, OkDial, StartCallList, history
  <1>3. CASE OkInitialized \/ OkCreg \/ OkCallList \/ OkRestored \/ OkAnswer \/ OkHangup
               \/ OkUssd
    <2>1. state \notin SmsStates
      BY <1>3 DEF OkInitialized, OkCreg, OkCallList, OkRestored, OkAnswer, OkHangup, OkUssd,
                  SmsStates, BodyStates
    <2>2. ASSUME NEW w \in Want, NEW reg \in BOOLEAN, Dispatch(w, reg, sms), UNCHANGED outcome
          PROVE  [Transport!Next]_(Transport!vars)
      BY <2>1, <2>2, DispatchStep
    <2>3. CASE OkInitialized BY <2>2, <2>3, <1>t, WantTypes DEF OkInitialized, Initialized
    <2>4. CASE OkCreg
      <3>1. (IF creg = "none" THEN registered ELSE creg = "home") \in BOOLEAN BY <1>t
      <3> QED BY <2>2, <2>4, <1>t, <1>1, <3>1 DEF OkCreg
    <2>5. CASE OkCallList BY <2>2, <2>5, <1>t DEF OkCallList
    <2>6. CASE OkRestored BY <2>2, <2>6, <1>t DEF OkRestored
    <2>7. CASE OkAnswer BY <2>2, <2>7, <1>t, WantTypes DEF OkAnswer
    <2>8. CASE OkHangup BY <2>2, <2>8, <1>t, WantTypes DEF OkHangup
    <2>9. CASE OkUssd BY <2>2, <2>9, <1>t, WantTypes DEF OkUssd
    <2> QED BY <1>3, <2>3, <2>4, <2>5, <2>6, <2>7, <2>8, <2>9
  <1>4. CASE OkBody
    <2> DEFINE v == IF state = "SMS_WAIT_FINAL_OK" THEN "sent" ELSE "unknown"
    <2>1. /\ v \in {"sent", "failed", "unknown"} /\ Verdict(v)
          /\ sms.active # NoSms /\ sms.submitted
      BY <1>4 DEF OkBody, Inv, PhasesAgree, SmsStates
    <2>2. Pending(sms') = Pending(Idle(sms)) /\ sms'.submitted = FALSE
      <3>1. /\ Idle(sms) \in SmsPart /\ Idle(sms).active = NoSms
            /\ Idle(sms).submitted = FALSE
        BY <1>t DEF Idle, SmsPart
      <3>2. CASE sms' = Idle(sms) BY <3>1, <3>2
      <3>3. CASE Dispatch(want, registered, Idle(sms))
        BY <3>1, <3>3, <1>t, DispatchPending
      <3> QED BY <1>4, <3>2, <3>3 DEF OkBody
    <2> HIDE DEF v
    <2> QED BY <2>1, <2>2, ResolveStep
  <1> QED BY <1>2, <1>3, <1>4 DEF Ok

LEMMA ErrorStep ==
  ASSUME Inv, Error
  PROVE  [Transport!Next]_(Transport!vars)
  <1>t. want \in Want /\ registered \in BOOLEAN /\ sms \in SmsPart
    BY DEF Inv, TypeOK
  <1>1. CASE ErrorCmee
    BY <1>1, StutterStep DEF ErrorCmee, Stutter, history
  <1>2. CASE ErrorCusd
    BY <1>2, <1>t, WantTypes, DispatchStep DEF ErrorCusd, Initialized, SmsStates, BodyStates
  <1>3. CASE ErrorSms
    <2>1. /\ Verdict("failed") /\ sms' = Idle(sms) /\ sms.active # NoSms
      BY <1>3 DEF ErrorSms, Inv, PhasesAgree
    <2>2. sms'.submitted = FALSE BY <2>1, <1>t DEF Idle, SmsPart
    <2> QED BY <2>1, <2>2, ResolveStep
  <1>4. CASE ErrorRequest
    <2>1. /\ state \notin SmsStates
          /\ [ want EXCEPT ![FlagOf[state]] = FALSE ] \in Want
      BY <1>4, <1>t DEF ErrorRequest, VoiceStates, UssdStates, SmsStates, BodyStates,
                        FlagOf, Want
    <2> QED BY <1>4, <1>t, <2>1, DispatchStep DEF ErrorRequest
  <1>5. CASE ErrorPoll
    BY <1>5, <1>t, DispatchStep DEF ErrorPoll, PollStates, SmsStates, BodyStates
  <1>6. CASE ErrorOther BY <1>6, RecoverStep DEF ErrorOther
  <1> QED BY <1>1, <1>2, <1>3, <1>4, <1>5, <1>6 DEF Error

LEMMA LineStep ==
  ASSUME Inv, Listing \/ Unsolicited
  PROVE  [Transport!Next]_(Transport!vars)
  <1>t. want \in Want /\ registered \in BOOLEAN /\ sms \in SmsPart
    BY DEF Inv, TypeOK
  <1>1. CASE UNCHANGED <<sms, outcome>>
    BY <1>1, StutterStep DEF Stutter
  <1>2. CASE Recover BY <1>2, RecoverStep
  <1>3. CASE Listing
    BY <1>1, <1>2, <1>3 DEF Listing, ListText, ListHeader, ListOk, ListError,
                            ListUnchanged, StartCallList, history
  <1>4. CASE CallEnded /\ state \in VoiceStates
    <2>1. /\ state \notin SmsStates
          /\ [ want EXCEPT ![FlagOf[state]] = FALSE ] \in Want
      BY <1>4, <1>t DEF VoiceStates, SmsStates, BodyStates, FlagOf, Want
    <2> QED BY <1>4, <1>t, <2>1, DispatchStep DEF CallEnded
  <1>5. CASE Unsolicited /\ ~(CallEnded /\ state \in VoiceStates)
    BY <1>1, <1>2, <1>5 DEF Unsolicited, ModemRestarted, SmsWaiting, Ring, Clip, CallEnded,
                            CmgsLine, CregLine, ClccLine, CallUpdate, history
  <1> QED BY <1>3, <1>4, <1>5

LEMMA ApiStep ==
  ASSUME Inv, Api
  PROVE  [Transport!Next]_(Transport!vars)
  <1>t. /\ want \in Want /\ sms \in SmsPart /\ SmsSound(sms, outcome, bodies)
        /\ outcome \in Outcomes
    BY DEF Inv, TypeOK, Outcomes
  <1>1. ASSUME NEW w \in Want, Submit(w, sms), UNCHANGED outcome
        PROVE  [Transport!Next]_(Transport!vars)
    BY <1>1, <1>t, SubmitPending, StutterStep DEF Stutter
  <1>2. CASE Update \/ SendUssd \/ Dial \/ Connect
    <2>1. CASE Update BY <1>1, <1>t, <2>1, WantTypes DEF Update
    <2>2. CASE SendUssd BY <1>1, <1>t, <2>2, WantTypes DEF SendUssd
    <2>3. CASE Dial BY <1>1, <1>t, <2>3, WantTypes DEF Dial
    <2>4. CASE Connect BY <1>1, <1>t, <2>4, WantTypes DEF Connect
    <2> QED BY <1>2, <2>1, <2>2, <2>3, <2>4
  <1>3. CASE Disconnect
    <2>1. CASE state \in Interruptible
      BY <1>3, <2>1, StutterStep DEF Disconnect, Stutter
    <2>2. CASE state \notin Interruptible
      BY <1>1, <1>3, <1>t, <2>2, WantTypes DEF Disconnect
    <2> QED BY <2>1, <2>2
  <1>4. ASSUME NEW r \in Requests, SendSms(r)
        PROVE  [Transport!Next]_(Transport!vars)
    <2>1. outcome[r] = "none" BY <1>4 DEF SendSms
    <2>2. CASE r \in Invalid \/ Depth(sms) >= Capacity
      <3>1. Transport!Reject(r) BY <1>4, <2>1, <2>2 DEF SendSms, Transport!Reject
      <3> QED BY <3>1 DEF Transport!Next
    <2>3. CASE ~(r \in Invalid \/ Depth(sms) >= Capacity)
      <3> DEFINE e == [ id |-> r, attempts |-> 0 ]
                 z == [ sms EXCEPT !.queue = Append(@, e) ]
      <3>1. outcome' = [ outcome EXCEPT ![r] = "open" ] /\ Submit(want, z)
        BY <1>4, <2>3 DEF SendSms
      <3>2. /\ z \in SmsPart /\ z.active = sms.active /\ z.submitted = sms.submitted
            /\ e \in SmsRequest /\ e.id = r
        <4>1. e \in SmsRequest /\ e.id = r BY DEF SmsRequest
        <4>2. Append(sms.queue, e) \in Seq(SmsRequest) BY <4>1, <1>t, PartTypes
        <4> QED BY <4>1, <4>2, <1>t DEF SmsPart
      <3>3. Pending(z) = Append(Pending(sms), r)
        BY <1>t, <3>2, PendingAppended
      <3>4. Len(Pending(sms)) < Capacity
        <4>1. Len(Pending(sms)) = Depth(sms) /\ Depth(sms) \in Nat
          BY <1>t, PendingType, DepthType
        <4> QED BY <2>3, <4>1, CapacityAssumption
      <3> HIDE DEF z
      <3>5. Pending(sms') = Append(Pending(sms), r) /\ sms'.submitted = sms.submitted
        BY <1>t, <3>1, <3>2, <3>3, SubmitPending
      <3>6. Transport!Accept(r) BY <2>1, <3>1, <3>4, <3>5 DEF Transport!Accept
      <3> QED BY <3>6 DEF Transport!Next
    <2> QED BY <2>2, <2>3
  <1> QED BY <1>2, <1>3, <1>4 DEF Api

----------------------------------------------------------------------------

\* The driver implements the transport its users may rely on: first in, first
\* out, at most one submission per request, exactly one verdict.
THEOREM Refinement == Spec => ImplementsTransport
  <1>1. Init => Transport!Init
    <2> SUFFICES ASSUME Init PROVE Transport!Init
      OBVIOUS
    <2>1. /\ sms.active = NoSms /\ sms.submitted = FALSE /\ sms.queue = << >>
          /\ outcome = [ r \in Requests |-> "none" ]
      BY DEF Init
    <2>2. Pending(sms) = << >>
      <3>1. Ids(<< >>) = << >> BY DEF Ids
      <3> QED BY <2>1, <3>1 DEF Pending
    <2> QED BY <2>1, <2>2 DEF Transport!Init
  <1>2. Inv /\ [Next]_vars => [Transport!Next]_(Transport!vars)
    <2> SUFFICES ASSUME Inv, [Next]_vars PROVE [Transport!Next]_(Transport!vars)
      OBVIOUS
    <2>1. CASE UNCHANGED vars
      BY <2>1, StutterStep DEF Stutter, vars, driver, history
    <2>2. CASE Next
      BY <2>2, LoopStep, OkStep, ErrorStep, LineStep, ApiStep DEF Next
    <2> QED BY <2>1, <2>2
  <1> QED BY <1>1, <1>2, Invariance, PTL DEF Spec, ImplementsTransport, Transport!Spec
=============================================================================
