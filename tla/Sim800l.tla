------------------------------ MODULE Sim800l ------------------------------
(***************************************************************************)
(* The serialized SIM800L driver of the ESPHome component                  *)
(* (src/esphome_components/sim800l/sim800l.cpp).  One AT command is in     *)
(* flight at a time: `state' says which answer is awaited.  The modem is   *)
(* the environment: any line of the protocol may arrive in any state, as   *)
(* late answers, unsolicited codes and restarts do on the real UART, and a *)
(* deadline may expire whenever a state has one.                           *)
(*                                                                         *)
(* Abstracted: bytes (a line, the '>' prompt or an overlong line is one    *)
(* input), timer values, texts and numbers, sensors, and USSD/CSQ answers, *)
(* which only feed callbacks and sensors.                                  *)
(***************************************************************************)
EXTENDS Integers, Sequences

CONSTANTS
  Requests,     \* every SMS request an automation may ever hand over
  Unicode,      \* those made through send_sms_unicode
  Invalid,      \* those validate_sms_ refuses
  Capacity,     \* SIM800L_SMS_QUEUE_CAPACITY, the active request included
  MaxAttempts,  \* SMS_PRE_SUBMIT_MAX_ATTEMPTS
  Slots,        \* SIM storage indices a +CMGL header can name
  CallStates,   \* <stat> values a +CLCC line can carry
  NoSms,        \* sms_active_ = false
  Traffic       \* what automations and network do in an instance, see Kinds

\* SMS and USSD requests, voice commands, incoming calls and ends of calls,
\* messages in the SIM.
Kinds == {"send", "ussd", "voice", "calls", "inbox"}

ASSUME TrafficAssumption  == Traffic \subseteq Kinds
ASSUME CapacityAssumption == Capacity \in Nat \ {0}
ASSUME AttemptsAssumption == MaxAttempts \in Nat \ {0}
ASSUME SlotsAssumption    == Slots \subseteq Nat \ {0}
ASSUME CallAssumption     == CallStates \subseteq Nat
ASSUME RequestAssumption  == Unicode \subseteq Requests /\ Invalid \subseteq Requests

VARIABLES
  state,        \* state_
  initialized,  \* initialized_
  registered,   \* registered_
  creg,         \* creg_seen_ and creg_registered_: "none", "home" or "off"
  want,         \* the *_requested_ and *_pending_ flags
  call,         \* call_state_, incoming_call_notified_, call_list_seen_
  inbox,        \* the CMGL parser
  sms,          \* sms_queue_, active_sms_, sms_body_submitted_
  outcome,      \* history: the verdict counted and published for a request
  bodies,       \* history: how often Ctrl-Z followed the body of a request
  heard,        \* history: slots given to the SMS callback in this listing
  hungUp        \* history: disconnect() was called after the last dial()

driver  == <<state, initialized, registered, creg, want, call, inbox, sms>>
history == <<outcome, bodies, heard, hungUp>>
vars    == <<driver, history>>

----------------------------------------------------------------------------
(* States, by the part of the protocol they belong to.                     *)

ProbeStates == {"WAIT_AT", "WAIT_ATE0", "WAIT_INIT_CMGF", "WAIT_INIT_CHARSET",
                "WAIT_INIT_CSMP", "WAIT_CLIP", "WAIT_CMEE", "WAIT_CUSD_ENABLE"}
PollStates  == {"WAIT_CREG", "WAIT_CSQ", "WAIT_SMS_LIST", "WAIT_SMS_DELETE",
                "WAIT_CALL_LIST"}
BodyStates  == {"SMS_WAIT_RESULT", "SMS_WAIT_FINAL_OK"}
SmsStates   == BodyStates \cup {"SMS_WAIT_CMGF", "SMS_WAIT_CHARSET",
                                "SMS_WAIT_CSMP", "SMS_WAIT_PROMPT"}
AfterSms    == {"SMS_WAIT_RESTORE_CHARSET", "SMS_WAIT_RESTORE_CSMP"}
VoiceStates == {"DIAL_WAIT", "ANSWER_WAIT", "HANGUP_WAIT"}
UssdStates  == {"USSD_WAIT_CHARSET", "USSD_WAIT_ACK"}
Offline     == ProbeStates \cup {"BOOT_WAIT"}
States      == Offline \cup {"READY"} \cup PollStates \cup SmsStates
                 \cup AfterSms \cup VoiceStates \cup UssdStates

\* process_ok_: the states in which OK only sends the next command.
NextCommand ==
  [ WAIT_AT |-> "WAIT_ATE0", WAIT_ATE0 |-> "WAIT_INIT_CMGF",
    WAIT_INIT_CMGF |-> "WAIT_INIT_CHARSET",
    WAIT_INIT_CHARSET |-> "WAIT_INIT_CSMP", WAIT_INIT_CSMP |-> "WAIT_CLIP",
    WAIT_CLIP |-> "WAIT_CMEE", WAIT_CMEE |-> "WAIT_CUSD_ENABLE",
    SMS_WAIT_CMGF |-> "SMS_WAIT_CHARSET", SMS_WAIT_CHARSET |-> "SMS_WAIT_CSMP",
    SMS_WAIT_CSMP |-> "SMS_WAIT_PROMPT",
    SMS_WAIT_RESTORE_CHARSET |-> "SMS_WAIT_RESTORE_CSMP",
    USSD_WAIT_CHARSET |-> "USSD_WAIT_ACK" ]

\* The pending flag a voice or USSD answer clears.
FlagOf == [ DIAL_WAIT |-> "dial", ANSWER_WAIT |-> "connect",
            HANGUP_WAIT |-> "disconnect",
            USSD_WAIT_CHARSET |-> "ussd", USSD_WAIT_ACK |-> "ussd" ]

Want == [ poll : BOOLEAN, smsPoll : BOOLEAN, disconnect : BOOLEAN,
          connect : BOOLEAN, dial : BOOLEAN, ussd : BOOLEAN ]

SmsRequest == [ id : Requests, attempts : Nat ]

SmsPart == [ queue : Seq(SmsRequest), active : SmsRequest \cup {NoSms},
             submitted : BOOLEAN ]

ASSUME NoSmsAssumption == NoSms \notin SmsRequest

EmptyInbox == [ index |-> 0, delete |-> 0, hasMessage |-> FALSE,
                pending |-> FALSE, ignoreRest |-> FALSE ]

\* Mutant of Idle: the submission flag outlives the request.
MutantIdle(s) == [ s EXCEPT !.active = NoSms ]

\* No request is active any more.
Idle(s) == [ s EXCEPT !.active = NoSms, !.submitted = FALSE ]

\* get_sms_queue_depth
Depth(s) == Len(s.queue) + (IF s.active = NoSms THEN 0 ELSE 1)

\* complete_active_sms_: the verdict counted and published, if one is active.
Verdict(v) ==
  outcome' = [ r \in Requests |->
                 IF sms.active # NoSms /\ r = sms.active.id THEN v ELSE outcome[r] ]

Init ==
  /\ state = "BOOT_WAIT" /\ initialized = FALSE /\ registered = FALSE
  /\ creg = "none"
  /\ want = [ poll |-> TRUE, smsPoll |-> FALSE, disconnect |-> FALSE,
              connect |-> FALSE, dial |-> FALSE, ussd |-> FALSE ]
  /\ call = [ state |-> 6, notified |-> FALSE, seen |-> FALSE ]
  /\ inbox = EmptyInbox
  /\ sms = [ queue |-> <<>>, active |-> NoSms, submitted |-> FALSE ]
  /\ outcome = [ r \in Requests |-> "none" ]
  /\ bodies = [ r \in Requests |-> 0 ]
  /\ heard = {} /\ hungUp = FALSE

----------------------------------------------------------------------------
(* Mutants of process_ready_ and of its parts.                             *)

\* A waiting message is fetched before a hang-up.
MutantChosen(w, reg, s) ==
  IF reg /\ w.smsPoll THEN "WAIT_SMS_LIST"
  ELSE IF w.disconnect THEN "HANGUP_WAIT"
  ELSE IF w.connect THEN "ANSWER_WAIT"
  ELSE IF reg /\ Depth(s) > 0 THEN "SMS_WAIT_CMGF"
  ELSE IF reg /\ w.dial THEN "DIAL_WAIT"
  ELSE IF reg /\ w.ussd THEN "USSD_WAIT_CHARSET"
  ELSE IF w.poll \/ Depth(s) > 0 \/ w.dial \/ w.ussd THEN "WAIT_CREG"
  ELSE "READY"

\* Attempts are counted down from an unsigned zero.
MutantActivated(s) ==
  [ queue |-> Tail(s.queue),
    active |-> [ Head(s.queue) EXCEPT !.attempts = @ - 1 ], submitted |-> FALSE ]

----------------------------------------------------------------------------
(* process_ready_: the highest-priority work, as the state it leads to.    *)

Chosen(w, reg, s) ==
  IF w.disconnect THEN "HANGUP_WAIT"
  ELSE IF w.connect THEN "ANSWER_WAIT"
  ELSE IF reg /\ w.smsPoll THEN "WAIT_SMS_LIST"
  ELSE IF reg /\ Depth(s) > 0 THEN "SMS_WAIT_CMGF"
  ELSE IF reg /\ w.dial THEN "DIAL_WAIT"
  ELSE IF reg /\ w.ussd THEN "USSD_WAIT_CHARSET"
  ELSE IF w.poll \/ Depth(s) > 0 \/ w.dial \/ w.ussd THEN "WAIT_CREG"
  ELSE "READY"

\* activate_next_sms_
Activated(s) ==
  IF s.active # NoSms THEN s
  ELSE [ queue |-> Tail(s.queue),
         active |-> [ Head(s.queue) EXCEPT !.attempts = @ + 1 ],
         submitted |-> FALSE ]

\* READY with the pending work w, registration reg and SMS part s, followed by
\* process_ready_.  Every caller has initialized_ set.
Dispatch(w, reg, s) ==
  LET c == Chosen(w, reg, s) IN
  /\ state' = c
  /\ registered' = reg
  /\ want' = [ w EXCEPT !.smsPoll = @ /\ c # "WAIT_SMS_LIST",
                        !.poll = @ /\ c # "WAIT_CREG" ]
  /\ sms' = IF c = "SMS_WAIT_CMGF" THEN Activated(s) ELSE s
  /\ inbox' = IF c = "WAIT_SMS_LIST" THEN EmptyInbox ELSE inbox
  /\ heard' = IF c = "WAIT_SMS_LIST" THEN {} ELSE heard
  /\ creg' = IF c = "WAIT_CREG" THEN "none" ELSE creg

\* Mutant of StartSmsList: the parser keeps what the last listing left.
MutantStartSmsList ==
  /\ state' = "WAIT_SMS_LIST"
  /\ want' = [ want EXCEPT !.smsPoll = FALSE ]
  /\ heard' = {} /\ UNCHANGED inbox

\* start_sms_list_ outside process_ready_
StartSmsList ==
  /\ state' = "WAIT_SMS_LIST"
  /\ want' = [ want EXCEPT !.smsPoll = FALSE ]
  /\ inbox' = EmptyInbox /\ heard' = {}

\* recover_: the parts that do not depend on the active request.
Reboot ==
  /\ state' = "BOOT_WAIT" /\ initialized' = FALSE /\ registered' = FALSE
  /\ inbox' = EmptyInbox
  /\ UNCHANGED <<creg, want, call, bodies, heard, hungUp>>

\* Mutants of Requeueable: a submitted body is no obstacle; one attempt too many.
MutantAfterBody(s) ==
  s.active # NoSms /\ s.active.attempts < MaxAttempts /\ Len(s.queue) < Capacity

MutantAttempts(s) ==
  /\ s.active # NoSms /\ ~s.submitted
  /\ s.active.attempts <= MaxAttempts /\ Len(s.queue) < Capacity

\* requeue_active_sms_ applies: no Ctrl-Z yet, an attempt and a slot are left.
Requeueable(s) ==
  /\ s.active # NoSms /\ ~s.submitted
  /\ s.active.attempts < MaxAttempts /\ Len(s.queue) < Capacity

\* Mutants of Requeued: the request is dropped; it goes to the end of the queue.
MutantDropped(s) == [ s EXCEPT !.active = NoSms ]

MutantToTail(s) ==
  [ queue |-> Append(s.queue, s.active), active |-> NoSms, submitted |-> FALSE ]

Requeued(s) ==
  [ queue |-> <<s.active>> \o s.queue, active |-> NoSms, submitted |-> FALSE ]

Recover ==
  /\ Reboot
  /\ \/ sms.active = NoSms /\ UNCHANGED <<sms, outcome>>
     \/ Requeueable(sms) /\ sms' = Requeued(sms) /\ UNCHANGED outcome
     \/ /\ sms.active # NoSms /\ ~Requeueable(sms)
        /\ sms' = Idle(sms)
        /\ Verdict(IF sms.submitted THEN "unknown" ELSE "failed")

----------------------------------------------------------------------------
(* loop(): deadlines, the trailing process_ready_, prompt and overlong line *)

\* Mutant of Expires: the prompt is awaited without a deadline.
MutantExpires(s) == s \notin {"READY", "SMS_WAIT_PROMPT"}

\* send_command_ and set_state_ arm a deadline in every state but READY.
Expires(s) == s # "READY"

\* process_deadline_
Deadline(s) ==
  /\ state = s /\ Expires(s)
  /\ IF s = "BOOT_WAIT"
     THEN state' = "WAIT_AT"
          /\ UNCHANGED <<initialized, registered, creg, want, call, inbox, sms, history>>
     ELSE Recover

\* The end of every loop() iteration.
Loop ==
  /\ state = "READY" /\ Chosen(want, registered, sms) # "READY"
  /\ Dispatch(want, registered, sms)
  /\ UNCHANGED <<initialized, call, outcome, bodies, hungUp>>

\* '>' at the start of a line: send_sms_body_ writes the text and Ctrl-Z.
Prompt ==
  /\ state = "SMS_WAIT_PROMPT" /\ sms.active # NoSms
  /\ state' = "SMS_WAIT_RESULT"
  /\ sms' = [ sms EXCEPT !.submitted = TRUE ]
  /\ bodies' = [ bodies EXCEPT ![sms.active.id] = @ + 1 ]
  /\ UNCHANGED <<initialized, registered, creg, want, call, inbox, outcome, heard, hungUp>>

\* A line longer than the read buffer has been discarded up to its LF.
Overflow == Recover

----------------------------------------------------------------------------
(* process_ok_, outside a CMGL listing.                                    *)

OkNextCommand ==
  /\ state \in DOMAIN NextCommand
  /\ state = "SMS_WAIT_CSMP" => sms.active # NoSms
  /\ state' = NextCommand[state]
  /\ UNCHANGED <<initialized, registered, creg, want, call, inbox, sms, history>>

\* The probe is over: poll as soon as nothing more urgent is pending.
Initialized ==
  /\ initialized' = TRUE
  /\ Dispatch([ want EXCEPT !.poll = TRUE ], registered, sms)
  /\ UNCHANGED <<call, outcome, bodies, hungUp>>

OkInitialized == state = "WAIT_CUSD_ENABLE" /\ Initialized

OkCreg ==
  LET reg == IF creg = "none" THEN registered ELSE creg = "home" IN
  /\ state = "WAIT_CREG"
  /\ IF reg
     THEN state' = "WAIT_CSQ" /\ registered' = reg
          /\ UNCHANGED <<creg, want, inbox, sms, heard>>
     ELSE Dispatch(want, reg, sms)
  /\ UNCHANGED <<initialized, call, outcome, bodies, hungUp>>

OkCsq ==
  /\ state = "WAIT_CSQ" /\ StartSmsList
  /\ UNCHANGED <<initialized, registered, creg, call, sms, outcome, bodies, hungUp>>

\* start_call_list_
StartCallList(c) ==
  /\ state' = "WAIT_CALL_LIST"
  /\ call' = [ c EXCEPT !.seen = FALSE ]
  /\ UNCHANGED <<initialized, registered, creg, sms, history>>

OkDelete ==
  /\ state = "WAIT_SMS_DELETE" /\ StartCallList(call) /\ UNCHANGED <<want, inbox>>

\* The call is over; the disconnected callback runs if it was not known.
Ended(c) == IF c.state = 6 THEN c ELSE [ c EXCEPT !.state = 6, !.notified = FALSE ]

OkCallList ==
  /\ state = "WAIT_CALL_LIST"
  /\ call' = IF call.seen THEN call ELSE Ended(call)
  /\ Dispatch(want, registered, sms)
  /\ UNCHANGED <<initialized, outcome, bodies, hungUp>>

\* complete_active_sms_ after the modem's final OK: only a +CMGS reference
\* seen before it proves that the network took the message.
OkBody ==
  /\ state \in BodyStates
  /\ Verdict(IF state = "SMS_WAIT_FINAL_OK" THEN "sent" ELSE "unknown")
  /\ IF sms.active # NoSms /\ sms.active.id \in Unicode
     THEN state' = "SMS_WAIT_RESTORE_CHARSET" /\ sms' = Idle(sms)
          /\ UNCHANGED <<registered, creg, want, inbox, heard>>
     ELSE Dispatch(want, registered, Idle(sms))
  /\ UNCHANGED <<initialized, call, bodies, hungUp>>

OkRestored ==
  /\ state = "SMS_WAIT_RESTORE_CSMP" /\ Dispatch(want, registered, sms)
  /\ UNCHANGED <<initialized, call, outcome, bodies, hungUp>>

OkDial ==
  /\ state = "DIAL_WAIT"
  /\ want' = [ want EXCEPT !.dial = FALSE ]
  /\ StartCallList([ call EXCEPT !.state = 2 ])
  /\ UNCHANGED inbox

\* ATA and ATH were obeyed; the pending USSD request was taken.
OkAnswer ==
  /\ state = "ANSWER_WAIT"
  /\ call' = [ call EXCEPT !.state = 0 ]
  /\ Dispatch([ want EXCEPT !.connect = FALSE ], registered, sms)
  /\ UNCHANGED <<initialized, outcome, bodies, hungUp>>

OkHangup ==
  /\ state = "HANGUP_WAIT"
  /\ call' = Ended(call)
  /\ Dispatch([ want EXCEPT !.disconnect = FALSE ], registered, sms)
  /\ UNCHANGED <<initialized, outcome, bodies, hungUp>>

OkUssd ==
  /\ state = "USSD_WAIT_ACK"
  /\ Dispatch([ want EXCEPT !.ussd = FALSE ], registered, sms)
  /\ UNCHANGED <<initialized, call, outcome, bodies, hungUp>>

----------------------------------------------------------------------------
(* process_error_: ERROR, +CME ERROR and +CMS ERROR outside a listing.     *)

ErrorCmee ==
  /\ state = "WAIT_CMEE" /\ state' = "WAIT_CUSD_ENABLE"
  /\ UNCHANGED <<initialized, registered, creg, want, call, inbox, sms, history>>

ErrorCusd == state = "WAIT_CUSD_ENABLE" /\ Initialized

\* The request is failed first, so recover_ finds none to requeue.
ErrorSms ==
  /\ state \in SmsStates /\ Verdict("failed") /\ sms' = Idle(sms) /\ Reboot

ErrorRequest ==
  /\ state \in VoiceStates \cup UssdStates
  /\ Dispatch([ want EXCEPT ![FlagOf[state]] = FALSE ], registered, sms)
  /\ UNCHANGED <<initialized, call, outcome, bodies, hungUp>>

ErrorPoll ==
  /\ state \in PollStates \ {"WAIT_SMS_LIST"}
  /\ Dispatch(want, FALSE, sms)
  /\ UNCHANGED <<initialized, call, outcome, bodies, hungUp>>

ErrorOther ==
  /\ state \in (Offline \cup AfterSms \cup {"READY"}) \ {"WAIT_CMEE", "WAIT_CUSD_ENABLE"}
  /\ Recover

----------------------------------------------------------------------------
(* process_sms_list_line_: every line while a CMGL listing is read.        *)

\* The first line after a header is message text whatever it looks like.
ExpectsText == inbox.hasMessage /\ ~inbox.pending /\ ~inbox.ignoreRest

\* finish_received_sms_: callback, then the slot is due for deletion.
Finished(b) == [ b EXCEPT !.delete = b.index, !.hasMessage = FALSE, !.pending = FALSE ]

ListUnchanged == UNCHANGED <<initialized, registered, creg, sms, outcome, bodies, hungUp>>

ListText ==
  /\ state = "WAIT_SMS_LIST" /\ ExpectsText
  /\ inbox' = [ inbox EXCEPT !.pending = TRUE ]
  /\ UNCHANGED <<state, want, call, heard>> /\ ListUnchanged

\* +CMGL:, with the slot it names, or 0 when parse_sms_header_ refuses it.
ListHeader(slot) ==
  /\ "inbox" \in Traffic /\ state = "WAIT_SMS_LIST" /\ ~ExpectsText
  /\ \/ /\ ~inbox.hasMessage /\ inbox.delete = 0 /\ slot # 0
        /\ inbox' = [ inbox EXCEPT !.index = slot, !.hasMessage = TRUE,
                                   !.pending = FALSE ]
        /\ UNCHANGED heard
     \/ /\ inbox.hasMessage /\ ~inbox.ignoreRest
        /\ inbox' = [ Finished(inbox) EXCEPT !.ignoreRest = TRUE ]
        /\ heard' = heard \cup {inbox.index}
  /\ UNCHANGED <<state, want, call>> /\ ListUnchanged

ListOk ==
  /\ state = "WAIT_SMS_LIST" /\ ~ExpectsText
  /\ \/ /\ inbox.hasMessage
        /\ state' = "WAIT_SMS_DELETE"
        /\ inbox' = Finished(inbox) /\ heard' = heard \cup {inbox.index}
        /\ UNCHANGED <<want, call>> /\ ListUnchanged
     \/ /\ ~inbox.hasMessage /\ inbox.delete # 0
        /\ state' = "WAIT_SMS_DELETE"
        /\ UNCHANGED <<want, call, inbox, heard>> /\ ListUnchanged
     \/ /\ ~inbox.hasMessage /\ inbox.delete = 0
        /\ StartCallList(call) /\ UNCHANGED <<want, inbox>>

ListError ==
  /\ state = "WAIT_SMS_LIST" /\ ~ExpectsText /\ ~inbox.hasMessage
  /\ Recover

----------------------------------------------------------------------------
(* process_urc_ and the answers to AT+CREG?, AT+CLCC and AT+CMGS.          *)

Outside == state # "WAIT_SMS_LIST"

\* RDY or NORMAL POWER DOWN
ModemRestarted == Outside /\ Recover

\* +CMTI: or SMS Ready
SmsWaiting ==
  /\ "inbox" \in Traffic /\ Outside
  /\ want' = [ want EXCEPT !.smsPoll = TRUE ]
  /\ UNCHANGED <<state, initialized, registered, creg, call, inbox, sms, history>>

CallUpdate(c) ==
  /\ call' = c
  /\ UNCHANGED <<state, initialized, registered, creg, want, inbox, sms, history>>

Ring ==
  /\ "calls" \in Traffic /\ Outside /\ call.state # 4
  /\ CallUpdate([ call EXCEPT !.state = 4, !.notified = FALSE ])

Clip ==
  /\ "calls" \in Traffic /\ Outside
  /\ CallUpdate([ call EXCEPT !.state = 4, !.notified = TRUE ])

\* NO CARRIER, BUSY, NO ANSWER, NO DIALTONE: also the answer to a voice command.
CallEnded ==
  /\ "calls" \in Traffic /\ Outside
  /\ \/ /\ state \in VoiceStates
        /\ call' = Ended(call)
        /\ Dispatch([ want EXCEPT ![FlagOf[state]] = FALSE ], registered, sms)
        /\ UNCHANGED <<initialized, outcome, bodies, hungUp>>
     \/ state \notin VoiceStates /\ CallUpdate(Ended(call))

CregLine(home) ==
  /\ Outside
  /\ IF state = "WAIT_CREG"
     THEN creg' = (IF home THEN "home" ELSE "off") /\ UNCHANGED registered
     ELSE registered' = home /\ UNCHANGED creg
  /\ UNCHANGED <<state, initialized, want, call, inbox, sms, history>>

ClccLine(stat) ==
  /\ state = "WAIT_CALL_LIST"
  /\ CallUpdate([ call EXCEPT !.seen = TRUE, !.state = stat ])

CmgsLine ==
  /\ state = "SMS_WAIT_RESULT" /\ state' = "SMS_WAIT_FINAL_OK"
  /\ UNCHANGED <<initialized, registered, creg, want, call, inbox, sms, history>>

----------------------------------------------------------------------------
(* The public API and the polling interval.  They run between two loop()   *)
(* iterations, and each iteration ends with process_ready_: READY then has *)
(* nothing due.                                                            *)

BetweenLoops == state = "READY" => Chosen(want, registered, sms) = "READY"

\* A handler that leaves the pending work w and the SMS part s and calls
\* process_ready_ when the driver is READY.
Submit(w, s) ==
  IF state = "READY" THEN Dispatch(w, registered, s)
  ELSE want' = w /\ sms' = s /\ UNCHANGED <<state, registered, creg, inbox, heard>>

\* enqueue_sms_ through send_sms or send_sms_unicode
SendSms(r) ==
  /\ "send" \in Traffic /\ BetweenLoops /\ outcome[r] = "none"
  /\ IF r \in Invalid \/ Depth(sms) >= Capacity
     THEN /\ outcome' = [ outcome EXCEPT ![r] = "failed" ]
          /\ UNCHANGED <<state, registered, creg, want, inbox, sms, heard>>
     ELSE /\ outcome' = [ outcome EXCEPT ![r] = "open" ]
          /\ Submit(want, [ sms EXCEPT !.queue = Append(@, [ id |-> r, attempts |-> 0 ]) ])
  /\ UNCHANGED <<initialized, call, bodies, hungUp>>

Update ==
  /\ BetweenLoops /\ Submit([ want EXCEPT !.poll = TRUE ], sms)
  /\ UNCHANGED <<initialized, call, outcome, bodies, hungUp>>

SendUssd ==
  /\ "ussd" \in Traffic /\ BetweenLoops /\ ~want.ussd
  /\ Submit([ want EXCEPT !.ussd = TRUE ], sms)
  /\ UNCHANGED <<initialized, call, outcome, bodies, hungUp>>

Dial ==
  /\ "voice" \in Traffic /\ BetweenLoops /\ ~want.dial
  /\ Submit([ want EXCEPT !.dial = TRUE ], sms)
  /\ hungUp' = FALSE
  /\ UNCHANGED <<initialized, call, outcome, bodies>>

Connect ==
  /\ "voice" \in Traffic /\ BetweenLoops
  /\ Submit([ want EXCEPT !.connect = TRUE ], sms)
  /\ UNCHANGED <<initialized, call, outcome, bodies, hungUp>>

\* Mutant of Interruptible: an SMS prompt may be interrupted as well.
MutantInterruptible == {"DIAL_WAIT", "ANSWER_WAIT", "SMS_WAIT_PROMPT"}

\* disconnect() aborts a voice command in these states at once.
Interruptible == {"DIAL_WAIT", "ANSWER_WAIT"}

Disconnect ==
  /\ "voice" \in Traffic /\ BetweenLoops
  /\ IF state \in Interruptible
     THEN /\ state' = "HANGUP_WAIT"
          /\ want' = [ want EXCEPT !.disconnect = TRUE, !.dial = FALSE, !.connect = FALSE ]
          /\ UNCHANGED <<registered, creg, inbox, sms, heard>>
     ELSE Submit([ want EXCEPT !.disconnect = TRUE ], sms)
  /\ hungUp' = TRUE
  /\ UNCHANGED <<initialized, call, outcome, bodies>>

----------------------------------------------------------------------------

Ok == \/ OkNextCommand \/ OkInitialized \/ OkCreg \/ OkCsq \/ OkDelete \/ OkCallList
      \/ OkBody \/ OkRestored \/ OkDial \/ OkAnswer \/ OkHangup \/ OkUssd

Error == ErrorCmee \/ ErrorCusd \/ ErrorSms \/ ErrorRequest \/ ErrorPoll \/ ErrorOther

Listing == ListText \/ (\E i \in Slots \cup {0} : ListHeader(i)) \/ ListOk \/ ListError

Unsolicited ==
  \/ ModemRestarted \/ SmsWaiting \/ Ring \/ Clip \/ CallEnded \/ CmgsLine
  \/ \E home \in BOOLEAN : CregLine(home)
  \/ \E stat \in CallStates : ClccLine(stat)

Api ==
  \/ \E r \in Requests : SendSms(r)
  \/ Update \/ SendUssd \/ Dial \/ Connect \/ Disconnect

Next ==
  \/ \E s \in States : Deadline(s)
  \/ Loop \/ Prompt \/ Overflow \/ Ok \/ Error \/ Listing \/ Unsolicited \/ Api

Spec == Init /\ [][Next]_vars

\* loop() runs for as long as the ESP does, so a state that is not left by an
\* answer is left by its deadline, and READY with work due is left.  BOOT_WAIT
\* is left out: noise on the line starts its delay again.  Nothing is assumed of
\* the modem, the network or the automations.
Fairness ==
  WF_vars(Loop) /\ \A s \in States \ {"BOOT_WAIT", "READY"} : WF_vars(Deadline(s))

FairSpec == Spec /\ Fairness

----------------------------------------------------------------------------
(* Correctness.                                                            *)

TypeOK ==
  /\ state \in States /\ initialized \in BOOLEAN /\ registered \in BOOLEAN
  /\ creg \in {"none", "home", "off"}
  /\ want \in Want
  /\ call \in [ state : CallStates \cup {0, 2, 4, 6}, notified : BOOLEAN, seen : BOOLEAN ]
  /\ inbox \in [ index : Slots \cup {0}, delete : Slots \cup {0},
                 hasMessage : BOOLEAN, pending : BOOLEAN, ignoreRest : BOOLEAN ]
  /\ sms \in SmsPart
  /\ outcome \in [ Requests -> {"none", "open", "sent", "failed", "unknown"} ]
  /\ bodies \in [ Requests -> Nat ]
  /\ heard \subseteq Slots /\ hungUp \in BOOLEAN

\* The SMS bookkeeping and the protocol state agree: a request is active exactly
\* while its commands run, its body is out exactly while the network's answer is
\* awaited, the modem is usable exactly after the probe, and the queue, the
\* active request included, never exceeds its capacity (sim800l.cpp:638-717).
PhasesAgree ==
  /\ sms.active # NoSms <=> state \in SmsStates
  /\ sms.submitted <=> state \in BodyStates
  /\ initialized <=> state \notin Offline
  /\ Depth(sms) <= Capacity

\* Whatever the modem answers, times out or restarts, and however often a request
\* is requeued, its text is followed by Ctrl-Z at most once (sim800l.cpp:135-144,
\* 617-625; README of the component: a timeout after Ctrl-Z is not retried).
AtMostOneBody == \A r \in Requests : bodies[r] <= 1

\* "sent" and "unknown" are only said of a request whose body went out, and a
\* request still queued has not been submitted (sim800l.cpp:337-360, 618-624).
HonestVerdicts ==
  /\ \A r \in Requests : outcome[r] \in {"sent", "unknown"} => bodies[r] > 0
  /\ \A i \in DOMAIN sms.queue : bodies[sms.queue[i].id] = 0
  /\ sms.active # NoSms => (bodies[sms.active.id] > 0 <=> sms.submitted)

\* No accepted request is lost or duplicated by queueing, activation, requeueing
\* and recovery: it is held in exactly one place until it has a verdict, and not
\* held afterwards (sim800l.cpp:638-717).
EachHeldOnce ==
  /\ \A i \in DOMAIN sms.queue : outcome[sms.queue[i].id] = "open"
  /\ \A i, j \in DOMAIN sms.queue : sms.queue[i].id = sms.queue[j].id => i = j
  /\ sms.active # NoSms =>
       /\ outcome[sms.active.id] = "open"
       /\ \A i \in DOMAIN sms.queue : sms.queue[i].id # sms.active.id
  /\ \A r \in Requests : outcome[r] = "open" =>
       \/ sms.active # NoSms /\ sms.active.id = r
       \/ \E i \in DOMAIN sms.queue : sms.queue[i].id = r

\* A request waiting in the queue has an attempt left, and the one being sent has
\* not used more than the limit (sim800l.cpp:620, 673).
AttemptsBounded ==
  /\ \A i \in DOMAIN sms.queue : sms.queue[i].attempts < MaxAttempts
  /\ sms.active # NoSms => sms.active.attempts <= MaxAttempts

\* The three together: what the driver promises of every accepted request.
RequestsKept == PhasesAgree /\ EachHeldOnce /\ AttemptsBounded

\* AT+CMGD only names a slot whose message was given to the callback in this very
\* listing, also when several messages are listed (sim800l.cpp:901-970).
DeletedWasHeard == state = "WAIT_SMS_DELETE" => inbox.delete \in heard

\* The request ids of a queue.
Ids(q) == [ i \in 1..Len(q) |-> q[i].id ]

\* The requests without a verdict: the active one, then the queue.
Pending(s) == IF s.active = NoSms THEN Ids(s.queue) ELSE <<s.active.id>> \o Ids(s.queue)

\* The driver implements the abstract transport: verdicts come in the order of
\* acceptance, one per request, and retries before Ctrl-Z are invisible
\* (sim800l.cpp:598-717).
Transport ==
  INSTANCE SmsTransport WITH
    pending <- Pending(sms), submitted <- sms.submitted, verdict <- outcome

ImplementsTransport == Transport!Spec

\* New work asked for by an automation or the modem never moves the driver while
\* an SMS is in flight (comment at sim800l.cpp:1124-1126).
NoPreemption ==
  [][ (\E f \in DOMAIN want : want'[f] /\ ~want[f]) /\ state \in SmsStates
        => state' = state /\ sms' = sms ]_vars

\* A hang-up request is served, or the modem is being restarted, whatever SMS,
\* listing, poll or USSD traffic is in the way (sim800l.cpp:528-531, 1121-1133).
HangupServed == want.disconnect ~> (~want.disconnect \/ state = "BOOT_WAIT")

\* The request being sent does not stay active for ever: a silent modem runs into
\* a deadline (sim800l.cpp:512-522, 617-625).
ActiveResolves ==
  \A r \in Requests : (sms.active # NoSms /\ sms.active.id = r)
                        ~> ~(sms.active # NoSms /\ sms.active.id = r)

\* After a hang-up no earlier dial() is carried out any more: "guarantee modem
\* disconnect cleanup" (src/qtronic_sms_gateway/CHANGELOG.md:18).
NoDialAfterHangup == state = "DIAL_WAIT" => ~hungUp
=============================================================================
