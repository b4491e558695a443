----------------------------- MODULE InboundSms -----------------------------
(***************************************************************************)
(* From the SIM card to the event sms_received: the driver publishes the   *)
(* sender and the text of a stored message as two text sensors and deletes *)
(* the message; the add-on pairs the two states again, ignores what it     *)
(* hears in the first 5 s of a connection (the ESP repeats its current     *)
(* states then), and drops a repetition within 2 s (gateway.py).           *)
(*                                                                         *)
(* Assumed of ESPHome: states arrive in order, and the current states of a *)
(* new subscriber within the 5 s.                                          *)
(***************************************************************************)
EXTENDS Naturals, Sequences

CONSTANTS
  Inbox,      \* the messages the SIM will get: a sequence of [from, text]
  MaxLosses   \* bound: lost connections and ESP restarts in an instance

VARIABLES
  arrived,    \* how many messages the network has delivered
  read,       \* how many of them are published and deleted
  deleting,   \* the message at the head is published and not yet deleted
  shown,      \* the sensors sms_sender and sms_message
  repeat,     \* sensors a new subscriber has still to get
  linked,     \* the add-on is connected
  air,        \* states under way: [role, value, old]
  known,      \* the add-on's copy of the two sensors
  warm,       \* now < _warmup_until
  lastSig,    \* _last_sms_signature while its 2 s last
  published,  \* history: how often each pair left the driver
  announced,  \* history: how often each pair was an sms_received event
  losses

device  == <<arrived, read, deleting, shown>>
addon   == <<known, warm, lastSig>>
link    == <<repeat, linked, air>>
vars    == <<device, addon, link, published, announced, losses>>

Pairs == { Inbox[i] : i \in DOMAIN Inbox }
SmsRoles == {"from", "text"}
Empty == [ from |-> "", text |-> "" ]
Mixed == [ from : { p.from : p \in Pairs } \cup {""}, text : { p.text : p \in Pairs } \cup {""} ]

Init ==
  /\ arrived = 0 /\ read = 0 /\ deleting = FALSE /\ shown = Empty
  /\ repeat = {} /\ linked = FALSE /\ air = <<>>
  /\ known = Empty /\ warm = FALSE /\ lastSig = Empty
  /\ published = [ p \in Pairs |-> 0 ] /\ announced = [ p \in Mixed |-> 0 ]
  /\ losses = 0

Arrive ==
  /\ arrived < Len(Inbox) /\ arrived' = arrived + 1
  /\ UNCHANGED <<read, deleting, shown, addon, link, published, announced, losses>>

State(role, value, old) == [ role |-> role, value |-> value, old |-> old ]

\* finish_received_sms_: on_sms_received publishes the sender, then the text.
Publish ==
  /\ read < arrived /\ ~deleting /\ deleting' = TRUE
  /\ LET m == Inbox[read + 1] IN
     /\ shown' = m /\ published' = [ published EXCEPT ![m] = @ + 1 ]
     /\ air' = IF ~linked THEN air
               ELSE air \o <<State("from", m.from, FALSE), State("text", m.text, FALSE)>>
  /\ UNCHANGED <<arrived, read, addon, repeat, linked, announced, losses>>

\* AT+CMGD; a message that could not be deleted is read again.
Delete ==
  /\ deleting /\ deleting' = FALSE /\ read' \in {read, read + 1}
  /\ read' = read => losses < MaxLosses
  /\ losses' = IF read' = read THEN losses + 1 ELSE losses
  /\ UNCHANGED <<arrived, shown, addon, link, published, announced>>

\* Mutant of WarmUp: a new connection is listened to at once.
MutantWarmUp == warm' = FALSE

WarmUp == warm' = TRUE

\* _async_on_connect
Connect ==
  /\ ~linked /\ linked' = TRUE /\ repeat' = SmsRoles /\ WarmUp
  /\ UNCHANGED <<device, known, lastSig, air, published, announced, losses>>

\* The current state of a sensor that has one, for a new subscriber.
Repeat(role) ==
  /\ role \in repeat /\ repeat' = repeat \ {role}
  /\ air' = IF shown = Empty THEN air ELSE Append(air, State(role, shown[role], TRUE))
  /\ UNCHANGED <<device, addon, linked, published, announced, losses>>

Cut ==
  /\ linked' = FALSE /\ repeat' = {} /\ air' = <<>> /\ warm' = FALSE
  /\ losses < MaxLosses /\ losses' = losses + 1

\* _async_on_disconnect
Disconnect ==
  /\ linked /\ Cut
  /\ UNCHANGED <<device, known, lastSig, published, announced>>

\* The ESP restarts: its sensors have no state, the SIM keeps what was not deleted.
Reboot ==
  /\ Cut /\ shown' = Empty /\ deleting' = FALSE
  /\ UNCHANGED <<arrived, read, known, lastSig, published, announced>>

WarmUpEnds ==
  /\ warm /\ warm' = FALSE
  /\ repeat = {} /\ \A i \in DOMAIN air : ~air[i].old
  /\ UNCHANGED <<device, known, lastSig, link, published, announced, losses>>

DebounceEnds ==
  /\ lastSig # Empty /\ lastSig' = Empty
  /\ UNCHANGED <<device, known, warm, link, published, announced, losses>>

\* _handle_state_callback: the text completes a pair, with the sender known by then.
Receive ==
  /\ air # <<>> /\ air' = Tail(air)
  /\ LET pair == [ known EXCEPT ![Head(air).role] = Head(air).value ]
         news == /\ ~warm /\ Head(air).role = "text" /\ pair.from # ""
                 /\ pair # lastSig IN
     /\ known' = pair
     /\ lastSig' = IF news THEN pair ELSE lastSig
     /\ announced' = IF news THEN [ announced EXCEPT ![pair] = @ + 1 ] ELSE announced
  /\ UNCHANGED <<device, warm, repeat, linked, published, losses>>

Next ==
  \/ Arrive \/ Publish \/ Delete \/ Connect \/ (\E r \in SmsRoles : Repeat(r))
  \/ Disconnect \/ Reboot \/ WarmUpEnds \/ DebounceEnds \/ Receive

Spec == Init /\ [][Next]_vars

----------------------------------------------------------------------------

TypeOK ==
  /\ arrived \in 0 .. Len(Inbox) /\ read \in 0 .. arrived /\ deleting \in BOOLEAN
  /\ shown \in Mixed /\ known \in Mixed /\ lastSig \in Mixed
  /\ repeat \subseteq SmsRoles /\ linked \in BOOLEAN /\ warm \in BOOLEAN
  /\ \A i \in DOMAIN air : air[i].role \in SmsRoles
  /\ published \in [ Pairs -> Nat ] /\ announced \in [ Mixed -> Nat ]
  /\ losses \in 0 .. MaxLosses

\* An event sms_received pairs the sender and the text of one message, and there are
\* never more of them than times the driver read that message: what the ESP repeats
\* after a reconnection is no second SMS, although sender and text travel apart.
InboundTrue ==
  \A p \in Mixed : announced[p] > 0 => p \in Pairs /\ announced[p] <= published[p]
=============================================================================
