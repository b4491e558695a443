------------------------------ MODULE MqttState ------------------------------
(***************************************************************************)
(* What the MQTT bridge of the add-on leaves behind on the broker          *)
(* (mqtt_bridge.py): the retained value of each state and the retained     *)
(* discovery configurations.  Changes of the gateway go through a bounded  *)
(* queue; each connection announces, publishes discovery and a snapshot,   *)
(* and then runs two coroutines, one for the queue and one for commands,   *)
(* which may publish a second snapshot.                                    *)
(*                                                                         *)
(* Grain: one publication per step (each awaits the broker); Available is  *)
(* the retained availability topic, the other roles are state topics.  One *)
(* of them, Depth, is the depth of the outbox: the gateway counts it again *)
(* at its own times, without an event, and the bridge publishes it after   *)
(* the events of messages and calls, with the value it then has.           *)
(***************************************************************************)
EXTENDS Naturals, Sequences, FiniteSets

CONSTANTS
  Roles, Available, Depth,
  QueueLimit,   \* 200 in the code
  Topics,       \* discovery topics that some configuration publishes
  MaxChanges, MaxOutages  \* bounds: changes and events; lost connections and restarts

VARIABLES
  current,     \* gateway.snapshot(): the value of each role
  queue,       \* _event_queue
  runner,      \* where _runner is
  snapshot,    \* values _publish_snapshot has still to publish, on connecting
  inHand,      \* the event _event_loop publishes, if any
  answer,      \* values the snapshot of request_status has still to publish
  retained,    \* on the broker: the value of each role
  wanted,      \* the discovery topics of this configuration
  configs,     \* on the broker: retained discovery configurations
  recorded,    \* metadata mqtt_discovery_topics
  changes, outages,
  dropped,     \* history: an event was dropped since the snapshot was taken
  overtaken,   \* history: an event was published inside the snapshot of a request
  drifted,     \* history: the depth changed, and nothing that publishes it came after
  stranded     \* history: configurations published by a run that did not record them

loops     == <<inHand, answer>>
discovery == <<wanted, configs, recorded, stranded>>
vars == <<current, queue, runner, snapshot, loops, retained, discovery,
          changes, outages, dropped, overtaken, drifted>>

Event(r, v) == [ role |-> r, value |-> v ]
Values == BOOLEAN
NoValues == [ r \in {} |-> TRUE ]
Without(f, r) == [ x \in DOMAIN f \ {r} |-> f[x] ]

Init ==
  /\ current = [ r \in Roles |-> FALSE ] /\ queue = <<>>
  /\ runner = "down" /\ snapshot = NoValues /\ inHand = <<>> /\ answer = NoValues
  /\ retained = [ r \in Roles |-> FALSE ]
  /\ wanted \in SUBSET Topics /\ configs = {} /\ recorded = {} /\ stranded = {}
  /\ changes = 0 /\ outages = 0
  /\ dropped = FALSE /\ overtaken = FALSE /\ drifted = FALSE

----------------------------------------------------------------------------
(* The gateway.                                                            *)

\* _on_gateway_event: a full queue loses its oldest event.
Enqueue(e) ==
  LET rest == IF Len(queue) = QueueLimit THEN Tail(queue) ELSE queue IN
  queue' = Append(rest, e) /\ dropped' = (dropped \/ Len(queue) = QueueLimit)

Happens == changes < MaxChanges /\ changes' = changes + 1

\* A state or the availability changes, and an event says so.
Change(r) ==
  /\ Happens /\ r # Depth
  /\ current' = [ current EXCEPT ![r] = ~@ ] /\ Enqueue(Event(r, ~current[r]))
  /\ UNCHANGED <<runner, snapshot, loops, retained, discovery, outages, overtaken, drifted>>

\* _outbox_depth_cache is read from the store again; that emits nothing.
Recount ==
  /\ Happens
  /\ current' = [ current EXCEPT ![Depth] = ~@ ] /\ drifted' = TRUE
  /\ UNCHANGED <<queue, runner, snapshot, loops, retained, discovery, outages, dropped, overtaken>>

\* An event of a message or a call, which carries no depth.
Notify ==
  /\ Happens /\ drifted' = FALSE /\ Enqueue(Event(Depth, TRUE))
  /\ UNCHANGED <<current, runner, snapshot, loops, retained, discovery, outages, overtaken>>

----------------------------------------------------------------------------
(* _runner: availability, discovery, snapshot, subscriptions.              *)

Connect ==
  /\ runner = "down" /\ runner' = "discovery"
  /\ retained' = [ retained EXCEPT ![Available] = TRUE ]
  /\ UNCHANGED <<current, queue, snapshot, loops, discovery, changes, outages, dropped,
                 overtaken, drifted>>

\* Mutant of AfterConfigs: the topics are recorded without a look at the last ones.
MutantAfterConfigs == "recording"

AfterConfigs == "stale"

\* _publish_discovery, one configuration after the other.
PublishConfig ==
  /\ runner = "discovery"
  /\ \/ \E t \in wanted \ configs : configs' = configs \cup {t} /\ UNCHANGED runner
     \/ wanted \subseteq configs /\ runner' = AfterConfigs /\ UNCHANGED configs
  /\ UNCHANGED <<current, queue, snapshot, loops, retained, wanted, recorded, stranded,
                 changes, outages, dropped, overtaken, drifted>>

\* _sync_discovery_tombstones: an empty payload removes a configuration.
Tombstone ==
  /\ runner = "stale"
  /\ \/ \E t \in (recorded \ wanted) \cap configs : configs' = configs \ {t} /\ UNCHANGED runner
     \/ (recorded \ wanted) \cap configs = {} /\ runner' = "recording" /\ UNCHANGED configs
  /\ UNCHANGED <<current, queue, snapshot, loops, retained, wanted, recorded, stranded,
                 changes, outages, dropped, overtaken, drifted>>

\* Mutant of Taken: connecting publishes no states.
MutantTaken == NoValues

\* _publish_snapshot reads every state at once and publishes one by one.
Taken == current

\* metadata_set, the control states, and the snapshot of the connection.
Record ==
  /\ runner = "recording" /\ runner' = "snapshot"
  /\ recorded' = wanted /\ snapshot' = Taken /\ dropped' = FALSE /\ overtaken' = FALSE
  /\ drifted' = FALSE
  /\ UNCHANGED <<current, queue, loops, retained, wanted, configs, stranded, changes, outages>>

PublishSnapshot ==
  /\ runner = "snapshot"
  /\ \/ \E r \in DOMAIN snapshot :
          /\ retained' = [ retained EXCEPT ![r] = snapshot[r] ]
          /\ snapshot' = Without(snapshot, r) /\ UNCHANGED runner
     \/ snapshot = NoValues /\ runner' = "live" /\ UNCHANGED <<retained, snapshot>>
  /\ UNCHANGED <<current, queue, loops, discovery, changes, outages, dropped,
                 overtaken, drifted>>

\* The broker publishes the will "offline" when the connection breaks or the add-on is
\* killed.  After an exception or an orderly stop the client is disconnected before the
\* finally clause publishes "offline", so that the topic keeps its value.
Down ==
  /\ retained' \in {retained, [ retained EXCEPT ![Available] = FALSE ]}
  /\ runner' = "down" /\ snapshot' = NoValues /\ inHand' = <<>> /\ answer' = NoValues
  /\ outages < MaxOutages /\ outages' = outages + 1
  /\ stranded' = IF runner \in {"discovery", "stale", "recording"}
                 THEN stranded \cup (configs \ recorded) ELSE stranded
  /\ UNCHANGED <<current, configs, recorded, changes, dropped, overtaken, drifted>>

\* The connection ends; _runner tries again after 5 s.
Break == runner # "down" /\ Down /\ UNCHANGED <<queue, wanted>>

\* The add-on ends and starts with another configuration.
Restart == Down /\ queue' = <<>> /\ wanted' \in SUBSET Topics

----------------------------------------------------------------------------
(* The two coroutines of a connection.                                     *)

TakeEvent ==
  /\ runner = "live" /\ inHand = <<>> /\ queue # <<>>
  /\ inHand' = <<Head(queue)>> /\ queue' = Tail(queue)
  /\ UNCHANGED <<current, runner, snapshot, answer, retained, discovery, changes, outages,
                 dropped, overtaken, drifted>>

\* Mutant of Published: the depth is that of an earlier time.
MutantPublished(e) == IF e.role = Depth THEN retained[Depth] ELSE e.value

\* An event of a state carries its value; the depth is read when it is published.
Published(e) == IF e.role = Depth THEN current[Depth] ELSE e.value

PublishEvent ==
  /\ runner = "live" /\ inHand # <<>> /\ inHand' = <<>>
  /\ LET e == inHand[1] IN
     /\ retained' = [ retained EXCEPT ![e.role] = Published(e) ]
     /\ overtaken' = (overtaken \/ e.role \in DOMAIN answer)
     /\ drifted' = (drifted /\ e.role # Depth)
  /\ UNCHANGED <<current, queue, runner, snapshot, answer, discovery, changes, outages, dropped>>

\* request_status in _command_loop
Request ==
  /\ runner = "live" /\ answer = NoValues /\ answer' = current /\ drifted' = FALSE
  /\ UNCHANGED <<current, queue, runner, snapshot, inHand, retained, discovery, changes, outages,
                 dropped, overtaken>>

PublishAnswer ==
  /\ runner = "live"
  /\ \E r \in DOMAIN answer :
       /\ retained' = [ retained EXCEPT ![r] = answer[r] ] /\ answer' = Without(answer, r)
  /\ UNCHANGED <<current, queue, runner, snapshot, inHand, discovery, changes, outages,
                 dropped, overtaken, drifted>>

Next ==
  \/ \E r \in Roles : Change(r)
  \/ Recount \/ Notify
  \/ Connect \/ PublishConfig \/ Tombstone \/ Record \/ PublishSnapshot \/ Break \/ Restart
  \/ TakeEvent \/ PublishEvent \/ Request \/ PublishAnswer

Spec == Init /\ [][Next]_vars

----------------------------------------------------------------------------

TypeOK ==
  /\ current \in [ Roles -> Values ] /\ retained \in [ Roles -> Values ]
  /\ Len(queue) <= QueueLimit /\ \A i \in DOMAIN queue : queue[i].role \in Roles
  /\ runner \in {"down", "discovery", "stale", "recording", "snapshot", "live"}
  /\ DOMAIN snapshot \subseteq Roles /\ DOMAIN answer \subseteq Roles
  /\ \A i \in DOMAIN inHand : inHand[i].role \in Roles
  /\ \A s \in {wanted, configs, recorded, stranded} : s \subseteq Topics
  /\ changes \in 0 .. MaxChanges /\ outages \in 0 .. MaxOutages
  /\ dropped \in BOOLEAN /\ overtaken \in BOOLEAN /\ drifted \in BOOLEAN

Settled == runner = "live" /\ queue = <<>> /\ inHand = <<>> /\ answer = NoValues

\* Once the bridge has nothing left to publish, the retained states are the gateway's,
\* whatever was lost or queued during outages; unless the queue overflowed on this
\* connection, or the snapshot of a request overwrote a newer state with an older one.  The
\* depth of the outbox is the one there was at the last event of a message or a call, or at
\* the last snapshot: it has drifted when the gateway has counted another one since.
RetainedSettles ==
  Settled /\ ~dropped /\ ~overtaken =>
    \A r \in Roles : retained[r] = current[r] \/ (r = Depth /\ drifted)

\* After discovery, the broker keeps no configuration that is not wanted any more,
\* however often earlier connections broke; except what a broken connection had
\* published before it was recorded.
NoOrphans == runner \in {"snapshot", "live"} => configs \ stranded \subseteq wanted
=============================================================================
