-------------------------------- MODULE Addon --------------------------------
(***************************************************************************)
(* Parts of the add-on side by side: calls, hang-up and cancellation       *)
(* (CallControl, Reached), the MQTT bridge that asks for them              *)
(* (MqttCommands) and mirrors the gateway's state (MqttState), the copying *)
(* of the integration at its start (ComponentSync), an SMS job with a      *)
(* store that may fail (Outbox), and what the add-on makes of the driver's *)
(* sensors: verdicts on segments (SmsConfirmation) and received messages   *)
(* (InboundSms).  A behaviour is about one of them; the variables of the   *)
(* others stay as they are.                                                *)
(***************************************************************************)
EXTENDS Reached

CONSTANTS
  CallCommands, Queries, MaxTasks,                                        \* MqttCommands
  Roles, Available, Depth, QueueLimit, Topics, MaxChanges, MaxOutages,    \* MqttState
  Versions, MaxDeaths,                                                    \* ComponentSync
  SmsJobs, SmsRecipients, Parts, MaxAttempts, MaxStops, SmsStoreFails,    \* Outbox
  Segments, Slots, MaxDrops,                                              \* SmsConfirmation
  Inbox, MaxLosses                                                        \* InboundSms

VARIABLES
  part,
  task, reader, chosen, stopping, doomed, before,
  current, queue, runner, snapshot, inHand, answer, retained, wanted, configs,
  recorded, changes, outages, dropped, overtaken, drifted, stranded,
  image, pc, notice, deaths, target, marker, temp, running, check, issue,
  rows, created, worker, mutex, marked, cancel, available, stops, executed, settled,
  acked, late,
  pending, submitted, verdict, sensor, dump, up, calls, states, next, awaiting, heard,
  credited, drops, clean,
  arrived, read, deleting, displayed, repeat, linked, air, known, warm, lastSig,
  published, announced, losses

Commands == INSTANCE MqttCommands WITH Calls <- CallCommands

Mirror == INSTANCE MqttState

Sync == INSTANCE ComponentSync

Orders == INSTANCE Outbox WITH
  Jobs <- SmsJobs, Recipients <- SmsRecipients, StoreFails <- SmsStoreFails, lock <- mutex

Verdicts == INSTANCE SmsConfirmation WITH waiting <- awaiting

Received == INSTANCE InboundSms WITH shown <- displayed

ASSUME BoundsAssumption ==
  /\ {MaxChanges, MaxOutages, MaxDeaths, Segments, MaxDrops, MaxLosses} \subseteq Nat
  /\ {QueueLimit, Versions} \subseteq Nat \ {0}
ASSUME RolesAssumption == Depth \in Roles
ASSUME OrdersAssumption ==
  /\ {SmsRecipients, Parts, MaxAttempts} \subseteq Nat \ {0} /\ MaxStops \in Nat
  /\ SmsStoreFails \in BOOLEAN /\ SmsJobs \cap {All, NoJob} = {}
ASSUME InboxAssumption ==
  /\ Inbox \in Seq(Received!Pairs)
  /\ \A p \in Received!Pairs : p = [ from |-> p.from, text |-> p.text ]

commands == <<task, reader, chosen, stopping, doomed, before>>
mirror   == <<current, queue, runner, snapshot, inHand, answer, retained, wanted, configs,
              recorded, changes, outages, dropped, overtaken, drifted, stranded>>
sync     == <<image, pc, notice, deaths, target, marker, temp, running, check, issue>>
orders   == <<rows, created, worker, mutex, marked, cancel, available, stops, executed,
              settled, acked, late>>
segments == <<pending, submitted, verdict, sensor, dump, up, calls, states, next, awaiting,
              heard, credited, drops, clean>>
received == <<arrived, read, deleting, displayed, repeat, linked, air, known, warm, lastSig,
              published, announced, losses>>

addon    == <<part, reached, commands, mirror, sync, orders, segments, received>>

AddonInit ==
  /\ part \in {"calls", "commands", "mirror", "sync", "orders", "segments", "received"}
  /\ ReachedInit /\ Commands!Init /\ Mirror!Init /\ Sync!Init /\ Orders!Init /\ Verdicts!Init
  /\ Received!Init
  /\ part # "mirror" => wanted = {}

\* Commands, changes, outages, segments and messages of an instance come to an end.
AddonNext ==
  /\ \/ /\ part = "calls" /\ ReachedNext
        /\ UNCHANGED <<commands, mirror, sync, orders, segments, received>>
     \/ /\ part = "commands" /\ (Commands!Next \/ UNCHANGED commands)
        /\ UNCHANGED <<reached, mirror, sync, orders, segments, received>>
     \/ /\ part = "mirror" /\ (Mirror!Next \/ UNCHANGED mirror)
        /\ UNCHANGED <<reached, commands, sync, orders, segments, received>>
     \/ /\ part = "sync" /\ Sync!Next
        /\ UNCHANGED <<reached, commands, mirror, orders, segments, received>>
     \/ /\ part = "orders" /\ Orders!Next
        /\ UNCHANGED <<reached, commands, mirror, sync, segments, received>>
     \/ /\ part = "segments" /\ (Verdicts!Next \/ UNCHANGED segments)
        /\ UNCHANGED <<reached, commands, mirror, sync, orders, received>>
     \/ /\ part = "received" /\ (Received!Next \/ UNCHANGED received)
        /\ UNCHANGED <<reached, commands, mirror, sync, orders, segments>>
  /\ UNCHANGED part

AddonSpec == AddonInit /\ [][AddonNext]_addon

\* No command received before a hang-up or a stop is left when it is through (MqttCommands).
NoneLeft == part = "commands" => Commands!TypeOK /\ Commands!NoneLeft

\* With nothing left to publish, the retained states are the gateway's (MqttState).
RetainedSettles == part = "mirror" => Mirror!TypeOK /\ Mirror!RetainedSettles

\* After discovery no unwanted configuration is retained (MqttState).
NoOrphans == part = "mirror" => Mirror!NoOrphans

\* A sync that is through leaves the whole integration of the image (ComponentSync).
TargetWhole == part = "sync" => Sync!TypeOK /\ Sync!TargetWhole

\* A row is "sending" only while the worker has its job, through store errors that end the
\* worker or a cancellation half-way (Outbox).
SendingHeld == part = "orders" => Orders!TypeOK /\ Orders!OneSending

\* A segment sent while nothing was outstanding, on a connection that lasts, is credited
\* with its own verdict or none (SmsConfirmation).
CleanCredit == part = "segments" => Verdicts!TypeOK /\ Verdicts!CleanCredit

\* sms_received is about one message, once for each time the driver read it (InboundSms).
InboundTrue == part = "received" => Received!TypeOK /\ Received!InboundTrue
=============================================================================
