------------------------------ MODULE SmsRules ------------------------------
(***************************************************************************)
(* The SMS command rules of the Home Assistant integration                 *)
(* (sms_commands.py, SmsCommandRuleEngine): rate limits, PIN failures and  *)
(* lock-out, one-time confirmation codes, cooldown and execution.          *)
(*                                                                         *)
(* Grain: a task of _async_process_sms runs from one await that suspends   *)
(* it to the next.  An acquisition of the free lock does not suspend.      *)
(*                                                                         *)
(* Abstracted: texts (a message is a command for a rule or a code), the    *)
(* statistics, the services called.  Rules and options change by a reload  *)
(* only, which begins with a new engine.                                   *)
(***************************************************************************)
EXTENDS Integers, Sequences, FiniteSets

CONSTANTS
  Messages,       \* the SMS that may arrive
  Senders,        \* canonical numbers
  Rules,
  PinRules,       \* those that need a PIN
  ChallengeRules, \* challenge_required
  ReportRules,    \* action = report_state, which calls no service
  Codes,          \* values of a confirmation code
  Window,         \* CONF_SMS_SECURITY_WINDOW_S
  GlobalLimit,    \* CONF_SMS_SECURITY_GLOBAL_LIMIT
  SenderLimit,    \* CONF_SMS_SECURITY_SENDER_LIMIT
  FailureLimit,   \* CONF_SMS_SECURITY_PIN_FAILURE_LIMIT
  Lockout,        \* CONF_SMS_SECURITY_LOCKOUT_S
  Cooldown,       \* cooldown_s of each rule
  Ttl,            \* challenge_ttl_s
  Uptime,         \* monotonic() when the engine starts
  MaxTime,        \* bound on time
  None            \* no sender, rule or message

Never == -1

ASSUME SetsAssumption  == /\ None \notin Messages \cup Senders \cup Rules /\ IsFiniteSet(Messages)
                          /\ PinRules \subseteq Rules /\ ChallengeRules \subseteq Rules
                          /\ ReportRules \subseteq Rules
ASSUME TimesAssumption == /\ {Window, GlobalLimit, SenderLimit, FailureLimit, Lockout, Ttl} \subseteq Nat \ {0}
                          /\ Cooldown \in [ Rules -> Nat ] /\ Uptime \in Nat /\ MaxTime \in Nat

VARIABLES
  now,      \* monotonic()
  msgs,     \* the locals of each task, and when it was counted, failed, started and ended
  queue,    \* the waiters of _execution_lock
  attempts, \* _global_attempts and _sender_attempts: the messages that still count
  failures, \* _pin_failures: the messages that still count
  locked,   \* _locked_until
  lastRun,  \* _last_rule_run
  pending   \* _pending_challenges

limits == <<attempts, failures, locked>>
vars   == <<now, msgs, queue, limits, lastRun, pending>>

New == [ pc |-> "new", sender |-> None, rule |-> None, pin |-> FALSE, parent |-> None,
         spentAt |-> Never, failedAt |-> Never, startAt |-> Never, endAt |-> Never ]

Init ==
  /\ now = Uptime /\ msgs = [ m \in Messages |-> New ] /\ queue = <<>>
  /\ attempts = {} /\ failures = {} /\ locked = [ s \in Senders |-> 0 ]
  /\ lastRun = [ key \in Senders \X Rules |-> 0 ] /\ pending = {}

----------------------------------------------------------------------------
(* Limits.                                                                 *)

\* _prune: what still counts of the attempts, and of the failures of a sender.
Counting == { m \in attempts : now - msgs[m].spentAt < Window }

Failing(s) == { m \in failures : msgs[m].sender = s /\ now - msgs[m].failedAt < Window }

\* Mutant of Allowed: a sender is not limited.
MutantAllowed(s) == Cardinality(Counting) < GlobalLimit

\* _consume_rate_limit says yes.
Allowed(s) ==
  /\ Cardinality(Counting) < GlobalLimit
  /\ Cardinality({ m \in Counting : msgs[m].sender = s }) < SenderLimit

IsLocked(s) == locked[s] > now

\* Mutant of RecordFailure: one failure more before the sender is locked out.
MutantRecordFailure(m, s) ==
  LET others == { n \in failures : msgs[n].sender # s }
      mine   == Failing(s) \cup {m}
  IN IF Cardinality(mine) > FailureLimit
     THEN locked' = [ locked EXCEPT ![s] = now + Lockout ] /\ failures' = others
     ELSE failures' = others \cup mine /\ UNCHANGED locked

\* _record_pin_failure for message m of sender s.
RecordFailure(m, s) ==
  LET others == { n \in failures : msgs[n].sender # s }
      mine   == Failing(s) \cup {m}
  IN IF Cardinality(mine) >= FailureLimit
     THEN /\ locked' = [ locked EXCEPT ![s] = now + Lockout ]
          /\ failures' = others
     ELSE failures' = others \cup mine /\ UNCHANGED locked

----------------------------------------------------------------------------
(* Execution.                                                              *)

Holding == { m \in Messages : msgs[m].pc \in {"running", "replying", "failing"} }

\* _async_rule_failed: it ends at once unless the rule has a failure reply.
Failed(r, pc) == { [ r EXCEPT !.pc = pc ], [ r EXCEPT !.pc = "done" ] }

\* Mutant of Cooled: the end of the last run does not count.
MutantCooled(r) == now >= Cooldown[r.rule]

Cooled(r) == now - lastRun[<<r.sender, r.rule>>] >= Cooldown[r.rule]

\* The task with locals r has the execution lock: cooldown, conditions and targets.
Start(m, r) ==
  \/ /\ ~Cooled(r) /\ msgs' = [ msgs EXCEPT ![m] = [ r EXCEPT !.pc = "done" ] ]
     /\ UNCHANGED lastRun
  \/ /\ Cooled(r) /\ \E f \in Failed(r, "failing") : msgs' = [ msgs EXCEPT ![m] = f ]
     /\ UNCHANGED lastRun
  \/ /\ Cooled(r) /\ r.rule \notin ReportRules
     /\ msgs' = [ msgs EXCEPT ![m] = [ r EXCEPT !.pc = "running", !.startAt = now ] ]
     /\ UNCHANGED lastRun
  \/ /\ Cooled(r) /\ r.rule \in ReportRules
     /\ msgs' = [ msgs EXCEPT ![m] = [ r EXCEPT !.pc = "replying", !.startAt = now, !.endAt = now ] ]
     /\ lastRun' = [ lastRun EXCEPT ![<<r.sender, r.rule>>] = now ]

\* Mutant of Admit: no lock.
MutantAdmit(m, r) == Start(m, r) /\ UNCHANGED queue

\* async with self._execution_lock.
Admit(m, r) ==
  IF Holding = {} /\ queue = <<>>
  THEN Start(m, r) /\ UNCHANGED queue
  ELSE /\ queue' = Append(queue, m) /\ msgs' = [ msgs EXCEPT ![m] = [ r EXCEPT !.pc = "waiting" ] ]
       /\ UNCHANGED lastRun

\* The lock was released, and its first waiter goes on.
Granted ==
  /\ Holding = {} /\ queue # <<>>
  /\ Start(Head(queue), msgs[Head(queue)]) /\ queue' = Tail(queue)
  /\ UNCHANGED <<now, limits, pending>>

\* The services were called, and the entities reached their states.
Succeed(m) ==
  /\ msgs[m].pc = "running"
  /\ lastRun' = [ lastRun EXCEPT ![<<msgs[m].sender, msgs[m].rule>>] = now ]
  /\ \E pc \in {"replying", "done"} : msgs' = [ msgs EXCEPT ![m].pc = pc, ![m].endAt = now ]
  /\ UNCHANGED <<now, queue, limits, pending>>

\* A service raised or timed out, or an entity did not reach its state.
Fail(m) ==
  /\ msgs[m].pc = "running"
  /\ \E r \in Failed(msgs[m], "failing") : msgs' = [ msgs EXCEPT ![m] = r ]
  /\ UNCHANGED <<now, queue, limits, lastRun, pending>>

\* The reply was sent, or sending it failed.
Replied(m) ==
  /\ msgs[m].pc \in {"replying", "failing", "excusing"}
  /\ msgs' = [ msgs EXCEPT ![m].pc = "done" ]
  /\ UNCHANGED <<now, queue, limits, lastRun, pending>>

----------------------------------------------------------------------------
(* _async_process_sms up to its first await.                               *)

\* A message of a sender that is locked out.
Refused(m, s) ==
  /\ msgs[m].pc = "new" /\ IsLocked(s)
  /\ msgs' = [ msgs EXCEPT ![m].pc = "done", ![m].sender = s ]
  /\ UNCHANGED <<now, queue, limits, lastRun, pending>>

Of(s)      == { p \in pending : p.sender = s }
Expired(s) == { p \in Of(s) : p.expires <= now }

\* Mutant of Hits: a code never expires.
MutantHits(s, code) == { p \in Of(s) : p.code = code }

Hits(s, code) == { p \in Of(s) \ Expired(s) : p.code = code }

\* A code that confirms a pending command.  Which expired codes are met before it is
\* left open, and so is which of two equal codes is.
Confirm(m, s, code) ==
  /\ msgs[m].pc = "new" /\ ~IsLocked(s)
  /\ \E hit \in Hits(s, code), gone \in SUBSET Expired(s) :
       LET r == [ New EXCEPT !.sender = s, !.rule = hit.rule, !.parent = hit.by ] IN
       /\ pending' = pending \ ({hit} \cup gone)
       /\ IF Allowed(s)
          THEN attempts' = Counting \cup {m} /\ Admit(m, [ r EXCEPT !.spentAt = now ])
          ELSE /\ attempts' = Counting /\ msgs' = [ msgs EXCEPT ![m] = [ r EXCEPT !.pc = "done" ] ]
               /\ UNCHANGED <<queue, lastRun>>
  /\ UNCHANGED <<now, failures, locked>>

\* A code that confirms nothing: a failure if the sender has commands to confirm.
Guess(m, s, code) ==
  /\ msgs[m].pc = "new" /\ ~IsLocked(s) /\ Hits(s, code) = {}
  /\ pending' = pending \ Expired(s)
  /\ IF Of(s) = {}
     THEN UNCHANGED <<failures, locked>> /\ msgs' = [ msgs EXCEPT ![m].pc = "done", ![m].sender = s ]
     ELSE /\ RecordFailure(m, s)
          /\ msgs' = [ msgs EXCEPT ![m].pc = "done", ![m].sender = s, ![m].failedAt = now ]
  /\ UNCHANGED <<now, queue, attempts, lastRun>>

\* A command: the rate limit, then the PIN, then a confirmation code or the execution.
Command(m, s, rule, pin) ==
  /\ msgs[m].pc = "new" /\ ~IsLocked(s)
  /\ LET r == [ New EXCEPT !.sender = s, !.rule = rule, !.pin = pin, !.spentAt = now ]
         wrong == rule \in PinRules /\ ~pin
     IN
     /\ attempts' = IF Allowed(s) THEN Counting \cup {m} ELSE Counting
     /\ CASE ~Allowed(s) ->
               /\ msgs' = [ msgs EXCEPT ![m] = [ r EXCEPT !.pc = "done", !.spentAt = Never ] ]
               /\ UNCHANGED <<queue, failures, locked, lastRun, pending>>
          [] Allowed(s) /\ wrong ->
               /\ RecordFailure(m, s)
               /\ msgs' = [ msgs EXCEPT ![m] = [ r EXCEPT !.pc = "done", !.failedAt = now ] ]
               /\ UNCHANGED <<queue, lastRun, pending>>
          [] Allowed(s) /\ ~wrong /\ rule \in ChallengeRules ->
               /\ \E code \in Codes :
                    pending' = { p \in pending : p.sender # s \/ p.rule # rule }
                                 \cup { [ sender |-> s, rule |-> rule, code |-> code,
                                          expires |-> now + Ttl, by |-> m ] }
               /\ msgs' = [ msgs EXCEPT ![m] = [ r EXCEPT !.pc = "asking" ] ]
               /\ UNCHANGED <<queue, failures, locked, lastRun>>
          [] OTHER -> Admit(m, r) /\ UNCHANGED <<failures, locked, pending>>
  /\ UNCHANGED now

----------------------------------------------------------------------------

\* The code was sent.
Asked(m) ==
  /\ msgs[m].pc = "asking"
  /\ msgs' = [ msgs EXCEPT ![m].pc = "done" ]
  /\ UNCHANGED <<now, queue, limits, lastRun, pending>>

\* Sending the code failed: the command to confirm is dropped, whichever it is by now.
AskFailed(m) ==
  /\ msgs[m].pc = "asking"
  /\ pending' = { p \in pending : p.sender # msgs[m].sender \/ p.rule # msgs[m].rule }
  /\ \E r \in Failed(msgs[m], "excusing") : msgs' = [ msgs EXCEPT ![m] = r ]
  /\ UNCHANGED <<now, queue, limits, lastRun>>

\* async_stop cancels the tasks; the entry comes back with a new engine.
Reload ==
  /\ msgs' = [ m \in Messages |-> IF msgs[m].pc = "new" THEN New ELSE [ New EXCEPT !.pc = "done" ] ]
  /\ queue' = <<>> /\ attempts' = {} /\ failures' = {} /\ locked' = [ s \in Senders |-> 0 ]
  /\ lastRun' = [ key \in Senders \X Rules |-> 0 ] /\ pending' = {}
  /\ UNCHANGED now

Tick ==
  /\ now < MaxTime /\ now' = now + 1
  /\ UNCHANGED <<msgs, queue, limits, lastRun, pending>>

Next ==
  \/ \E m \in Messages, s \in Senders : Refused(m, s)
  \/ \E m \in Messages, s \in Senders, code \in Codes : Confirm(m, s, code) \/ Guess(m, s, code)
  \/ \E m \in Messages, s \in Senders, rule \in Rules, pin \in BOOLEAN : Command(m, s, rule, pin)
  \/ \E m \in Messages : Succeed(m) \/ Fail(m) \/ Replied(m) \/ Asked(m) \/ AskFailed(m)
  \/ Granted \/ Reload \/ Tick

Spec == Init /\ [][Next]_vars

----------------------------------------------------------------------------
(* Properties.                                                             *)

Times == Nat \cup {Never}

MessageRecord ==
  [ pc : {"new", "asking", "waiting", "running", "replying", "failing", "excusing", "done"},
    sender : Senders \cup {None}, rule : Rules \cup {None}, pin : BOOLEAN,
    parent : Messages \cup {None},
    spentAt : Times, failedAt : Times, startAt : Times, endAt : Times ]

Challenge == [ sender : Senders, rule : Rules, code : Codes, expires : Nat, by : Messages ]

\* The lock has one holder, and its queue holds each task that waits for it once.
LockAgrees ==
  /\ \A m, n \in Holding : m = n
  /\ \A m \in Messages : msgs[m].pc = "waiting" <=> \E i \in DOMAIN queue : queue[i] = m
  /\ \A i, k \in DOMAIN queue : queue[i] = queue[k] => i = k

\* The shape of the state, the agreement of the execution lock with the tasks, and one
\* open code for each sender and rule (the keys of _pending_challenges).
TypeOK ==
  /\ now \in Nat /\ msgs \in [ Messages -> MessageRecord ] /\ queue \in Seq(Messages)
  /\ attempts \subseteq Messages /\ failures \subseteq Messages
  /\ locked \in [ Senders -> Nat ] /\ lastRun \in [ Senders \X Rules -> Nat ]
  /\ pending \subseteq Challenge
  /\ \A p, q \in pending : p.sender = q.sender /\ p.rule = q.rule => p = q
  /\ LockAgrees

\* A rule is executed for a message only after all it demands: a PIN in the command, and,
\* if the rule demands it, a code that the same sender returned in time and that is used
\* for this message alone, however the tasks of several messages interleave.
Authorized ==
  \A m \in Messages : msgs[m].startAt # Never =>
    LET r       == msgs[m].rule
        command == IF r \in ChallengeRules THEN msgs[m].parent ELSE m
    IN
    /\ command \in Messages
    /\ msgs[command].sender = msgs[m].sender /\ msgs[command].rule = r
    /\ r \in PinRules => msgs[command].pin
    /\ r \in ChallengeRules => /\ msgs[m].spentAt < msgs[command].spentAt + Ttl
                               /\ \A n \in Messages \ {m} : msgs[n].parent # command

\* Between the end of one successful run of a rule for a sender and the start of another
\* lies its cooldown, also when both messages came at once (sms_commands.py:958-960).
CooldownKept ==
  \A m, n \in Messages :
    /\ m # n /\ msgs[m].endAt # Never /\ msgs[n].endAt # Never
    /\ msgs[m].sender = msgs[n].sender /\ msgs[m].rule = msgs[n].rule
    => LET wait == Cooldown[msgs[m].rule] IN
       \/ msgs[n].startAt >= msgs[m].endAt + wait
       \/ msgs[m].startAt >= msgs[n].endAt + wait

\* The messages that count and came within a window that begins with message m.
SpentFrom(m) ==
  { n \in Messages : /\ msgs[n].spentAt # Never
                     /\ msgs[m].spentAt <= msgs[n].spentAt
                     /\ msgs[n].spentAt < msgs[m].spentAt + Window }

\* No window, wherever it begins, holds more commands and confirmations than the global
\* limit, nor more of one sender than its limit (_consume_rate_limit).
RateKept ==
  \A m \in Messages : msgs[m].spentAt # Never =>
    /\ Cardinality(SpentFrom(m)) <= GlobalLimit
    /\ \A s \in Senders : Cardinality({ n \in SpentFrom(m) : msgs[n].sender = s }) <= SenderLimit

\* The failures of one sender, from that of message m on, within a window and a lock-out.
FailedFrom(m) ==
  { n \in Messages : /\ msgs[n].failedAt # Never /\ msgs[n].sender = msgs[m].sender
                     /\ msgs[m].failedAt <= msgs[n].failedAt
                     /\ msgs[n].failedAt < msgs[m].failedAt + Window
                     /\ msgs[n].failedAt < msgs[m].failedAt + Lockout }

\* Wrong PINs and wrong codes together: no more of them than the failure limit are looked
\* at within a window or a lock-out, whichever is shorter (_record_pin_failure,
\* _sender_is_locked).
GuessesSpaced ==
  \A m \in Messages : msgs[m].failedAt # Never => Cardinality(FailedFrom(m)) <= FailureLimit

=============================================================================
