----------------------------- MODULE AddonProofs -----------------------------
(***************************************************************************)
(* Safety of the parts that Addon puts side by side, for any number of     *)
(* commands, states, versions, outages, deaths, jobs, segments and         *)
(* messages.  Each part has an inductive invariant of its own; the SMS     *)
(* job takes its from OutboxProofs.  Calls are proved in CallControlProofs.*)
(***************************************************************************)
EXTENDS Addon, FiniteSetTheorems, TLAPS

----------------------------------------------------------------------------
(* Commands: tasks beside the coroutine that reads commands (MqttCommands). *)

\* A command that was there when a hang-up or a stop began, and is left.
TasksLeft == before \cap Commands!Alive

TasksBegun == \A c \in before : task[c] # "none"

\* Where a hang-up stands: what is left is what the reading coroutine waits for.
HangUpStands ==
  stopping = "no" =>
    /\ before \subseteq CallCommands
    /\ reader \in {"off", "idle", "cancel"} => TasksLeft = {}
    /\ reader = "gather" => TasksLeft \subseteq chosen

\* Where a stop stands.
StopStands ==
  /\ stopping = "tasks" => TasksLeft \subseteq doomed
  /\ stopping \in {"runner", "done"} => TasksLeft = {}

TasksTaskTypes == [ Commands!Commands -> {"none", "created", "running", "canceled", "ended"} ]

TasksTypes ==
  /\ task \in TasksTaskTypes
  /\ reader \in {"off", "idle", "hangup", "cancel", "gather"}
  /\ stopping \in {"no", "hangup", "calls", "tasks", "runner", "done"}
  /\ chosen \subseteq Commands!Commands /\ doomed \subseteq Commands!Commands
       /\ before \subseteq Commands!Commands

TasksInv == TasksTypes /\ TasksBegun /\ HangUpStands /\ StopStands

----------------------------------------------------------------------------

\* A step of one task, of those that were there, that brings nothing back.
TasksFewer ==
  /\ task' \in TasksTaskTypes
  /\ TasksLeft' \subseteq TasksLeft
  /\ TasksBegun'

\* Cancelling tasks brings none back and forgets none.
LEMMA CanceledIs ==
  ASSUME TasksTypes, NEW tasks, Commands!Canceled(tasks)
  PROVE  /\ task' \in TasksTaskTypes
         /\ Commands!Alive' \subseteq Commands!Alive
         /\ \A c \in Commands!Commands : task[c] # "none" => task'[c] # "none"
<1>1. \A c \in Commands!Commands :
        /\ task'[c] \in {"none", "created", "running", "canceled", "ended"}
        /\ Commands!Live(c)' => Commands!Live(c)
        /\ task[c] # "none" => task'[c] # "none"
  BY DEF Commands!Canceled, TasksTypes, TasksTaskTypes, Commands!Live
<1>2. task' \in TasksTaskTypes
  BY <1>1 DEF Commands!Canceled, TasksTaskTypes
<1> QED BY <1>1, <1>2 DEF Commands!Alive

\* The steps of the tasks, scheduling a new one included.
LEMMA TaskStep ==
  ASSUME TasksTypes, TasksBegun, NEW c \in Commands!Commands,
           Commands!Schedule(c) \/ Commands!Begin(c) \/ Commands!Finish(c)
  PROVE  TasksFewer /\ UNCHANGED <<reader, chosen, stopping, doomed, before>>
<1>1. UNCHANGED <<reader, chosen, stopping, doomed, before>>
  BY DEF Commands!Schedule, Commands!Begin, Commands!Finish
<1>2. PICK s \in {"created", "running", "ended"} : task' = [ task EXCEPT ![c] = s ]
  BY DEF Commands!Schedule, Commands!Begin, Commands!Finish
<1>3. c \in before => task[c] # "none"
  BY DEF TasksBegun
<1>4. c \in before => Commands!Live(c) \/ s = "ended"
  BY <1>3 DEF Commands!Schedule, Commands!Begin, Commands!Finish, Commands!Live
<1>5. \A x \in before : Commands!Live(x)' => Commands!Live(x)
  BY <1>1, <1>2, <1>3 DEF Commands!Schedule, Commands!Begin, Commands!Finish, Commands!Live,
     TasksTypes, TasksTaskTypes
<1>6. task' \in TasksTaskTypes
  BY <1>2 DEF TasksTypes, TasksTaskTypes
<1>7. TasksBegun'
  BY <1>1, <1>2 DEF TasksBegun, TasksTypes, TasksTaskTypes
<1> QED BY <1>1, <1>5, <1>6, <1>7 DEF TasksFewer, TasksLeft, Commands!Alive

----------------------------------------------------------------------------

LEMMA TasksInvInit == Commands!Init => TasksInv
  BY DEF Commands!Init, TasksInv, TasksTypes, TasksTaskTypes, TasksBegun, HangUpStands,
     StopStands, TasksLeft

LEMMA AliveIs == Commands!Alive \subseteq Commands!Commands
  /\ Commands!CallTasks \subseteq Commands!Commands
  BY DEF Commands!Alive, Commands!CallTasks

LEMMA TasksInvNext == TasksInv /\ [Commands!Next]_Commands!vars => TasksInv'
<1> SUFFICES ASSUME TasksInv, [Commands!Next]_Commands!vars PROVE TasksInv'
  OBVIOUS
<1> USE DEF TasksInv
<1>1. ASSUME NEW c \in Commands!Commands,
               Commands!Schedule(c) \/ Commands!Begin(c) \/ Commands!Finish(c) PROVE TasksInv'
  <2>1. TasksFewer /\ UNCHANGED <<reader, chosen, stopping, doomed, before>>
    BY <1>1, TaskStep
  <2> QED BY <2>1 DEF TasksFewer, TasksTypes, TasksTaskTypes, HangUpStands, StopStands
<1>2. CASE Commands!Connect
  BY <1>2 DEF Commands!Connect, TasksTypes, TasksTaskTypes, TasksBegun, HangUpStands,
     StopStands, TasksLeft, Commands!Alive, Commands!Live
<1>3. CASE Commands!HangUpSet
  <2>1. Commands!Alive \subseteq Commands!Commands
          /\ \A c \in Commands!Alive : task[c] # "none"
    BY DEF Commands!Alive, Commands!Live
  <2>2. before' = before \/ (stopping = "no" /\ before' = CallCommands \cap Commands!Alive)
    BY <1>3 DEF Commands!HangUpSet
  <2>3. TasksTypes' /\ TasksBegun'
    BY <1>3, <2>1, <2>2 DEF Commands!HangUpSet, TasksTypes, TasksTaskTypes, TasksBegun
  <2>4. HangUpStands' /\ StopStands'
    BY <1>3 DEF Commands!HangUpSet, HangUpStands, StopStands, TasksLeft, Commands!Alive,
       Commands!Live
  <2> QED BY <2>3, <2>4
<1>4. CASE Commands!HungUp
  <2>1. /\ task' \in TasksTaskTypes
        /\ Commands!Alive' \subseteq Commands!Alive
             /\ \A c \in Commands!Commands : task[c] # "none" => task'[c] # "none"
    BY <1>4, CanceledIs DEF Commands!HungUp
  <2>2. TasksTypes' /\ TasksBegun'
    BY <1>4, <2>1, AliveIs DEF Commands!HungUp, TasksTypes, TasksTaskTypes, TasksBegun
  <2>3. HangUpStands' /\ StopStands'
    BY <1>4, <2>1 DEF Commands!HungUp, Commands!CallTasks, HangUpStands, StopStands, TasksLeft
  <2> QED BY <2>2, <2>3
<1>5. ASSUME NEW t \in SUBSET Commands!Alive, Commands!Cancel(t) PROVE TasksInv'
  BY <1>5 DEF Commands!Cancel, TasksTypes, TasksTaskTypes, TasksBegun, HangUpStands,
     StopStands, TasksLeft, Commands!Alive, Commands!Live
<1>6. CASE Commands!DoneCancel
  <2>1. /\ task' \in TasksTaskTypes
        /\ Commands!Alive' \subseteq Commands!Alive
             /\ \A c \in Commands!Commands : task[c] # "none" => task'[c] # "none"
    BY <1>6, CanceledIs DEF Commands!DoneCancel
  <2>2. TasksTypes' /\ TasksBegun'
    BY <1>6, <2>1 DEF Commands!DoneCancel, TasksTypes, TasksTaskTypes, TasksBegun
  <2>3. HangUpStands' /\ StopStands'
    BY <1>6, <2>1 DEF Commands!DoneCancel, HangUpStands, StopStands, TasksLeft
  <2> QED BY <2>2, <2>3
<1>7. CASE Commands!Gathered
  BY <1>7 DEF Commands!Gathered, TasksTypes, TasksTaskTypes, TasksBegun, HangUpStands,
     StopStands, TasksLeft, Commands!Alive, Commands!Live
<1>8. CASE Commands!Lose
  BY <1>8 DEF Commands!Lose, TasksTypes, TasksTaskTypes, TasksBegun, HangUpStands,
     StopStands, TasksLeft, Commands!Alive, Commands!Live
<1>9. CASE Commands!Stop
  <2>1. Commands!Alive \subseteq Commands!Commands
          /\ \A c \in Commands!Alive : task[c] # "none"
    BY DEF Commands!Alive, Commands!Live
  <2>2. CASE CallCommands \cap Commands!Alive # {}
    BY <1>9, <2>1, <2>2 DEF Commands!Stop, TasksTypes, TasksTaskTypes, TasksBegun,
       HangUpStands, StopStands
  <2>3. CASE CallCommands \cap Commands!Alive = {}
    <3>1. /\ task' \in TasksTaskTypes
          /\ Commands!Alive' \subseteq Commands!Alive
               /\ \A c \in Commands!Commands : task[c] # "none" => task'[c] # "none"
      BY <1>9, <2>3, CanceledIs DEF Commands!Stop
    <3>2. TasksTypes' /\ TasksBegun'
      BY <1>9, <2>1, <2>3, <3>1 DEF Commands!Stop, TasksTypes, TasksTaskTypes, TasksBegun
    <3> QED BY <1>9, <2>3, <3>1, <3>2 DEF Commands!Stop, HangUpStands, StopStands, TasksLeft
  <2> QED BY <2>2, <2>3
<1>10. CASE Commands!StopHungUp
  <2>1. /\ task' \in TasksTaskTypes
        /\ Commands!Alive' \subseteq Commands!Alive
             /\ \A c \in Commands!Commands : task[c] # "none" => task'[c] # "none"
    BY <1>10, CanceledIs DEF Commands!StopHungUp
  <2> QED BY <1>10, <2>1, AliveIs DEF Commands!StopHungUp, TasksTypes, TasksTaskTypes,
        TasksBegun, HangUpStands, StopStands
<1>11. CASE Commands!StopCalls
  <2>1. /\ task' \in TasksTaskTypes
        /\ Commands!Alive' \subseteq Commands!Alive
             /\ \A c \in Commands!Commands : task[c] # "none" => task'[c] # "none"
    BY <1>11, CanceledIs DEF Commands!StopCalls
  <2> QED BY <1>11, <2>1, AliveIs DEF Commands!StopCalls, TasksTypes, TasksTaskTypes,
        TasksBegun, HangUpStands, StopStands, TasksLeft
<1>12. CASE Commands!StopTasks
  BY <1>12 DEF Commands!StopTasks, TasksTypes, TasksTaskTypes, TasksBegun, HangUpStands,
     StopStands, TasksLeft, Commands!Alive, Commands!Live
<1>13. CASE Commands!StopRunner
  BY <1>13 DEF Commands!StopRunner, TasksTypes, TasksTaskTypes, TasksBegun, HangUpStands,
     StopStands, TasksLeft, Commands!Alive, Commands!Live
<1>14. CASE UNCHANGED Commands!vars
  BY <1>14 DEF Commands!vars, TasksTypes, TasksTaskTypes, TasksBegun, HangUpStands,
     StopStands, TasksLeft, Commands!Alive, Commands!Live
<1> QED
  BY <1>1, <1>2, <1>3, <1>4, <1>5, <1>6, <1>7, <1>8, <1>9, <1>10, <1>11, <1>12, <1>13,
     <1>14 DEF Commands!Next

LEMMA TasksEnded == TasksInv => Commands!TypeOK /\ Commands!NoneLeft
  BY DEF TasksInv, TasksTypes, TasksTaskTypes, HangUpStands, StopStands, Commands!TypeOK,
     Commands!NoneLeft, TasksLeft

----------------------------------------------------------------------------
(* The retained state and the configurations on the broker (MqttState).     *)

GatewayEvents == [ role : Roles, value : Mirror!Values ]

InQueue(r) == \E i \in DOMAIN queue : queue[i].role = r
InHand(r)  == inHand # <<>> /\ inHand[1].role = r

\* The newest event of a state that is queued carries the state the gateway has now.
NewestTrue(r) == r # Depth =>
  \A i \in DOMAIN queue :
    queue[i].role = r /\ (\A k \in DOMAIN queue : k > i => queue[k].role # r)
      => queue[i].value = current[r]

\* So does the event that is being published, when no newer one waits.
HandTrue(r) ==
  r # Depth /\ ~dropped /\ InHand(r) /\ ~InQueue(r) => inHand[1].value = current[r]

\* Without an event under way, what is on the broker, or will be by a snapshot, is current;
\* but for a depth that has drifted.
BrokerTrue(r) ==
  (drifted => r # Depth) /\ ~dropped /\ ~overtaken /\ ~InQueue(r) /\ ~InHand(r) /\ runner \in {"snapshot", "live"} =>
    /\ r \notin DOMAIN snapshot \cup DOMAIN answer => retained[r] = current[r]
    /\ r \in DOMAIN snapshot => snapshot[r] = current[r]
    /\ r \in DOMAIN answer => answer[r] = current[r]

MirrorTypes ==
  /\ current \in [ Roles -> Mirror!Values ] /\ retained \in [ Roles -> Mirror!Values ]
  /\ queue \in Seq(GatewayEvents) /\ Len(queue) <= QueueLimit
  /\ inHand = <<>> \/ (\E e \in GatewayEvents : inHand = <<e>>)
  /\ runner \in {"down", "discovery", "stale", "recording", "snapshot", "live"}
  /\ runner # "live" => inHand = <<>> /\ answer = Mirror!NoValues
  /\ runner # "snapshot" => snapshot = Mirror!NoValues
  /\ DOMAIN snapshot \subseteq Roles /\ DOMAIN answer \subseteq Roles
  /\ \A r \in DOMAIN snapshot : snapshot[r] \in Mirror!Values
  /\ \A r \in DOMAIN answer : answer[r] \in Mirror!Values
  /\ wanted \subseteq Topics /\ configs \subseteq Topics
  /\ recorded \subseteq Topics /\ stranded \subseteq Topics
  /\ changes \in 0 .. MaxChanges /\ outages \in 0 .. MaxOutages
  /\ dropped \in BOOLEAN /\ overtaken \in BOOLEAN /\ drifted \in BOOLEAN

\* What is on the broker is recorded, is about to be, or is known to be stranded.
ConfigsKnown ==
  /\ runner \in {"snapshot", "live"} => wanted = recorded
  /\ runner = "recording" => (recorded \ wanted) \cap configs = {}
  /\ configs \ stranded \subseteq
       recorded \cup (IF runner \in {"discovery", "stale", "recording"} THEN wanted ELSE {})

StatesTrue == \A r \in Roles : NewestTrue(r) /\ HandTrue(r) /\ BrokerTrue(r)

MirrorInv == MirrorTypes /\ ConfigsKnown /\ StatesTrue

LEMMA NoValuesIs == DOMAIN Mirror!NoValues = {} /\ \A f : f = Mirror!NoValues => DOMAIN f = {}
  BY DEF Mirror!NoValues

LEMMA MirrorInit ==
  ASSUME MaxChanges \in Nat, MaxOutages \in Nat, QueueLimit \in Nat \ {0},
           Mirror!Init PROVE MirrorInv
<1>1. MirrorTypes
  <2>1. <<>> \in Seq(GatewayEvents) /\ Len(<<>>) = 0
    OBVIOUS
  <2>2. current \in [ Roles -> Mirror!Values ] /\ retained \in [ Roles -> Mirror!Values ]
    BY DEF Mirror!Init, Mirror!Values
  <2>3. DOMAIN snapshot = {} /\ DOMAIN answer = {}
    BY NoValuesIs DEF Mirror!Init
  <2>4. queue \in Seq(GatewayEvents) /\ Len(queue) <= QueueLimit
    <3>1. queue = <<>>
      BY DEF Mirror!Init
    <3> QED BY <2>1, <3>1
  <2>5. /\ wanted \subseteq Topics /\ configs \subseteq Topics
        /\ recorded \subseteq Topics /\ stranded \subseteq Topics
    BY DEF Mirror!Init
  <2>6. changes \in 0 .. MaxChanges /\ outages \in 0 .. MaxOutages
    BY DEF Mirror!Init
  <2>7. /\ inHand = <<>> /\ answer = Mirror!NoValues /\ snapshot = Mirror!NoValues
             /\ runner = "down"
        /\ dropped \in BOOLEAN /\ overtaken \in BOOLEAN /\ drifted \in BOOLEAN
    BY DEF Mirror!Init
  <2> QED BY <2>2, <2>3, <2>4, <2>5, <2>6, <2>7 DEF MirrorTypes
<1> QED BY <1>1 DEF Mirror!Init, MirrorInv, ConfigsKnown, StatesTrue, NewestTrue, HandTrue,
      BrokerTrue, InHand

LEMMA WithoutIs ==
  ASSUME NEW f, NEW r
  PROVE  /\ DOMAIN Mirror!Without(f, r) = DOMAIN f \ {r}
         /\ \A x \in DOMAIN f \ {r} : Mirror!Without(f, r)[x] = f[x]
  BY DEF Mirror!Without

\* Steps that leave events, states and snapshots as they are.
LEMMA MirrorFrame ==
  ASSUME StatesTrue, UNCHANGED <<current, queue, snapshot, inHand, answer, retained, dropped,
           overtaken, drifted>>,
         runner' \in {"snapshot", "live"} => runner \in {"snapshot", "live"}
  PROVE  StatesTrue'
  BY DEF StatesTrue, NewestTrue, HandTrue, BrokerTrue, InQueue, InHand

\* An event is queued: the one of a state carries the value the state then has.
LEMMA QueuedStep ==
  ASSUME QueueLimit \in Nat \ {0}, MirrorInv, NEW e \in GatewayEvents, Mirror!Enqueue(e),
         current' \in [ Roles -> Mirror!Values ],
         \A x \in Roles \ {e.role} : current'[x] = current[x],
         e.role # Depth => current'[e.role] = e.value,
         changes' \in 0 .. MaxChanges, drifted' \in BOOLEAN,
         drifted /\ ~drifted' => e.role = Depth,
         UNCHANGED <<runner, snapshot, inHand, answer, retained, wanted, configs, recorded,
           stranded, outages, overtaken>>
  PROVE  MirrorInv'
<1> USE DEF MirrorInv
<1> DEFINE rest == IF Len(queue) = QueueLimit THEN Tail(queue) ELSE queue
           r == e.role
<1>1. r \in Roles
  BY DEF GatewayEvents
<1>2. /\ rest \in Seq(GatewayEvents) /\ Len(rest) < QueueLimit
      /\ \A i \in 1 .. Len(rest) :
           \E k \in 1 .. Len(queue) : rest[i] = queue[k] /\ Len(queue) - k = Len(rest) - i
  BY DEF MirrorTypes
<1>3. queue' = Append(rest, e)
  BY DEF Mirror!Enqueue
<1>5. r # Depth => current'[r] = e.value
  OBVIOUS
<1> HIDE DEF rest
<1>6. /\ queue' \in Seq(GatewayEvents) /\ Len(queue') = Len(rest) + 1
      /\ queue'[Len(rest) + 1] = e /\ \A i \in 1 .. Len(rest) : queue'[i] = rest[i]
  BY <1>1, <1>2, <1>3
<1>7. MirrorTypes'
  BY <1>2, <1>6 DEF Mirror!Enqueue, MirrorTypes
<1>8. ConfigsKnown'
  BY DEF ConfigsKnown
<1>9. InQueue(r)'
  BY <1>1, <1>6 DEF InQueue
<1>10. NewestTrue(r)'
  BY <1>1, <1>5, <1>6 DEF NewestTrue
<1>11. ASSUME NEW x \in Roles \ {r} PROVE (NewestTrue(x) /\ HandTrue(x) /\ BrokerTrue(x))'
  <2>1. NewestTrue(x) /\ HandTrue(x) /\ BrokerTrue(x)
    BY DEF StatesTrue
  <2>2. NewestTrue(x)'
    <3> SUFFICES ASSUME NEW i \in DOMAIN queue', queue'[i].role = x, x # Depth,
                        \A k \in DOMAIN queue' : k > i => queue'[k].role # x
                 PROVE  queue'[i].value = current[x]
      BY DEF NewestTrue
    <3>1. i \in 1 .. Len(rest)
      BY <1>1, <1>6
    <3>2. PICK k \in 1 .. Len(queue) : rest[i] = queue[k] /\ Len(queue) - k = Len(rest) - i
      BY <1>2, <3>1
    <3>3. ASSUME NEW j \in DOMAIN queue, j > k PROVE queue[j].role # x
      <4>a. Len(queue) \in Nat /\ Len(rest) \in Nat /\ DOMAIN queue = 1 .. Len(queue)
        BY <1>2 DEF MirrorTypes
      <4>1. j - (Len(queue) - Len(rest)) \in 1 .. Len(rest)
              /\ j - (Len(queue) - Len(rest)) > i
        BY <3>1, <3>2, <3>3, <4>a
      <4> DEFINE p == j - (Len(queue) - Len(rest))
      <4>2. PICK q \in 1 .. Len(queue) : rest[p] = queue[q] /\ Len(queue) - q = Len(rest) - p
        BY <1>2, <4>1
      <4>3. q = j
        BY <1>2, <4>1, <4>2 DEF MirrorTypes
      <4>4. queue'[p].role # x
        BY <1>6, <4>1
      <4> QED BY <1>6, <4>1, <4>2, <4>3, <4>4
    <3>4. queue[k].role = x /\ k \in DOMAIN queue
      BY <1>6, <3>1, <3>2 DEF MirrorTypes
    <3>5. queue[k].value = current[x]
      BY <2>1, <3>3, <3>4 DEF NewestTrue
    <3> QED BY <1>6, <3>1, <3>2, <3>5
  <2>3. ~dropped' => ~dropped /\ rest = queue
    BY DEF Mirror!Enqueue, rest
  <2>4. ~dropped' => (InQueue(x) => InQueue(x)')
    BY <1>6, <2>3 DEF InQueue, MirrorTypes
  <2>5. drifted' \/ ~drifted \/ x # Depth
    OBVIOUS
  <2> QED BY <2>1, <2>2, <2>3, <2>4, <2>5 DEF HandTrue, BrokerTrue, InHand
<1>12. HandTrue(r)' /\ BrokerTrue(r)'
  BY <1>9 DEF HandTrue, BrokerTrue
<1> QED BY <1>7, <1>8, <1>10, <1>11, <1>12 DEF StatesTrue

LEMMA ChangeStep ==
  ASSUME MaxChanges \in Nat, QueueLimit \in Nat \ {0}, MirrorInv, NEW r \in Roles,
           Mirror!Change(r)
  PROVE  MirrorInv'
<1> DEFINE e == Mirror!Event(r, ~current[r])
<1>1. e \in GatewayEvents /\ e.role = r /\ e.value = ~current[r]
  BY DEF Mirror!Event, GatewayEvents, Mirror!Values
<1>2. current' = [ current EXCEPT ![r] = ~@ ] /\ Mirror!Enqueue(e) /\ r # Depth
  BY DEF Mirror!Change
<1>3. current' \in [ Roles -> Mirror!Values ] /\ current'[r] = e.value
        /\ \A x \in Roles \ {r} : current'[x] = current[x]
  BY <1>1, <1>2 DEF MirrorInv, MirrorTypes, Mirror!Values
<1>4. changes' \in 0 .. MaxChanges /\ drifted' = drifted /\ drifted \in BOOLEAN
  BY DEF Mirror!Change, Mirror!Happens, MirrorInv, MirrorTypes
<1>5. UNCHANGED <<runner, snapshot, inHand, answer, retained, wanted, configs, recorded,
        stranded, outages, overtaken>>
  BY DEF Mirror!Change, Mirror!loops, Mirror!discovery
<1> HIDE DEF e
<1> QED BY <1>1, <1>2, <1>3, <1>4, <1>5, QueuedStep

LEMMA NotifyStep ==
  ASSUME MaxChanges \in Nat, QueueLimit \in Nat \ {0}, Depth \in Roles, MirrorInv,
           Mirror!Notify
  PROVE  MirrorInv'
<1> DEFINE e == Mirror!Event(Depth, TRUE)
<1>1. e \in GatewayEvents /\ e.role = Depth
  BY DEF Mirror!Event, GatewayEvents, Mirror!Values
<1>2. current' = current /\ Mirror!Enqueue(e)
  BY DEF Mirror!Notify
<1>3. changes' \in 0 .. MaxChanges /\ current \in [ Roles -> Mirror!Values ]
  BY DEF Mirror!Notify, Mirror!Happens, MirrorInv, MirrorTypes
<1>a. ~drifted' /\ drifted' \in BOOLEAN
  BY DEF Mirror!Notify
<1>4. UNCHANGED <<runner, snapshot, inHand, answer, retained, wanted, configs, recorded,
        stranded, outages, overtaken>>
  BY DEF Mirror!Notify, Mirror!loops, Mirror!discovery
<1> HIDE DEF e
<1> QED BY <1>1, <1>2, <1>3, <1>a, <1>4, QueuedStep

\* A new depth concerns no event, and what is on the broker has drifted.
LEMMA RecountStep ==
  ASSUME MaxChanges \in Nat, Depth \in Roles, MirrorInv, Mirror!Recount PROVE MirrorInv'
<1> USE DEF MirrorInv
<1>1. current' \in [ Roles -> Mirror!Values ]
        /\ \A x \in Roles \ {Depth} : current'[x] = current[x]
  BY DEF Mirror!Recount, MirrorTypes, Mirror!Values
<1>2. UNCHANGED <<queue, runner, snapshot, inHand, answer, retained, wanted, configs, recorded,
        stranded, outages, dropped, overtaken>> /\ drifted'
  BY DEF Mirror!Recount, Mirror!loops, Mirror!discovery
<1>3. changes' \in 0 .. MaxChanges /\ drifted' \in BOOLEAN
  BY DEF Mirror!Recount, Mirror!Happens, MirrorTypes
<1>4. MirrorTypes' /\ ConfigsKnown'
  BY <1>1, <1>2, <1>3 DEF MirrorTypes, ConfigsKnown
<1>5. ASSUME NEW r \in Roles PROVE (NewestTrue(r) /\ HandTrue(r) /\ BrokerTrue(r))'
  <2>1. r # Depth => current'[r] = current[r]
    BY <1>1
  <2>2. InQueue(r)' = InQueue(r) /\ InHand(r)' = InHand(r)
    BY <1>2 DEF InQueue, InHand
  <2> QED BY <1>2, <2>1, <2>2 DEF StatesTrue, NewestTrue, HandTrue, BrokerTrue
<1> QED BY <1>4, <1>5 DEF StatesTrue

LEMMA MirrorConnectStep == ASSUME MirrorInv, Mirror!Connect PROVE MirrorInv'
<1> USE DEF MirrorInv
<1>1. retained' \in [ Roles -> Mirror!Values ]
  BY DEF Mirror!Connect, MirrorTypes, Mirror!Values
<1>2. MirrorTypes' /\ ConfigsKnown'
  BY <1>1 DEF Mirror!Connect, MirrorTypes, ConfigsKnown, Mirror!loops, Mirror!discovery
<1>3. StatesTrue'
  BY DEF Mirror!Connect, StatesTrue, NewestTrue, HandTrue, BrokerTrue, InQueue, InHand,
     Mirror!loops
<1> QED BY <1>2, <1>3

LEMMA PublishConfigStep == ASSUME MirrorInv, Mirror!PublishConfig PROVE MirrorInv'
<1> USE DEF MirrorInv
<1>1. runner' \in {"discovery", "stale"}
  BY DEF Mirror!PublishConfig, Mirror!AfterConfigs
<1>2. StatesTrue'
  BY <1>1, MirrorFrame DEF Mirror!PublishConfig, Mirror!loops
<1>3. MirrorTypes' /\ ConfigsKnown'
  BY <1>1 DEF Mirror!PublishConfig, MirrorTypes, ConfigsKnown, Mirror!loops
<1> QED BY <1>2, <1>3

LEMMA TombstoneStep == ASSUME MirrorInv, Mirror!Tombstone PROVE MirrorInv'
<1> USE DEF MirrorInv
<1>1. StatesTrue'
  BY MirrorFrame DEF Mirror!Tombstone, Mirror!loops
<1>2. MirrorTypes' /\ ConfigsKnown'
  BY DEF Mirror!Tombstone, MirrorTypes, ConfigsKnown, Mirror!loops
<1> QED BY <1>1, <1>2

LEMMA RecordStep == ASSUME MirrorInv, Mirror!Record PROVE MirrorInv'
<1> USE DEF MirrorInv
<1>1. MirrorTypes'
  BY DEF Mirror!Record, Mirror!Taken, MirrorTypes, Mirror!loops
<1>2. ConfigsKnown'
  BY DEF Mirror!Record, ConfigsKnown
<1>3. DOMAIN snapshot' = Roles /\ DOMAIN answer' = {}
  BY NoValuesIs DEF Mirror!Record, Mirror!Taken, MirrorTypes, Mirror!loops
<1>4. StatesTrue'
  BY <1>3 DEF Mirror!Record, Mirror!Taken, MirrorTypes, StatesTrue, NewestTrue, HandTrue,
     BrokerTrue, InQueue, InHand, Mirror!loops
<1> QED BY <1>1, <1>2, <1>4

LEMMA PublishSnapshotStep == ASSUME MirrorInv, Mirror!PublishSnapshot PROVE MirrorInv'
<1> USE DEF MirrorInv
<1>1. ASSUME NEW r \in DOMAIN snapshot, retained' = [ retained EXCEPT ![r] = snapshot[r] ],
             snapshot' = Mirror!Without(snapshot, r), runner' = runner
      PROVE  MirrorInv'
  <2>1. retained' \in [ Roles -> Mirror!Values ] /\ retained'[r] = snapshot[r] /\ r \in Roles
        /\ \A x \in Roles \ {r} : retained'[x] = retained[x]
    BY <1>1 DEF MirrorTypes
  <2>2. DOMAIN snapshot' = DOMAIN snapshot \ {r}
          /\ \A x \in DOMAIN snapshot' : snapshot'[x] = snapshot[x]
    BY <1>1, WithoutIs
  <2>3. MirrorTypes'
    BY <1>1, <2>1, <2>2 DEF Mirror!PublishSnapshot, MirrorTypes, Mirror!loops,
       Mirror!discovery
  <2>4. ConfigsKnown'
    BY <1>1 DEF Mirror!PublishSnapshot, ConfigsKnown, Mirror!discovery
  <2>5. DOMAIN answer = {}
    BY NoValuesIs DEF Mirror!PublishSnapshot, MirrorTypes
  <2>6. StatesTrue'
    BY <1>1, <2>1, <2>2, <2>5 DEF Mirror!PublishSnapshot, StatesTrue, NewestTrue, HandTrue,
       BrokerTrue, InQueue, InHand, Mirror!loops
  <2> QED BY <2>3, <2>4, <2>6
<1>2. CASE snapshot = Mirror!NoValues /\ runner' = "live" /\ UNCHANGED <<retained, snapshot>>
  <2>1. StatesTrue'
    BY <1>2, MirrorFrame DEF Mirror!PublishSnapshot, Mirror!loops
  <2>2. MirrorTypes' /\ ConfigsKnown'
    BY <1>2 DEF Mirror!PublishSnapshot, MirrorTypes, ConfigsKnown, Mirror!loops,
       Mirror!discovery
  <2> QED BY <2>1, <2>2
<1> QED BY <1>1, <1>2 DEF Mirror!PublishSnapshot

\* The connection is lost, and the queue is kept or the add-on starts anew.
LEMMA DownStep ==
  ASSUME MaxOutages \in Nat, QueueLimit \in Nat, MirrorInv, Mirror!Down,
         \/ queue' = queue /\ wanted' = wanted
         \/ queue' = <<>> /\ wanted' \in SUBSET Topics
  PROVE  MirrorInv'
<1> USE DEF MirrorInv
<1>1. retained' \in [ Roles -> Mirror!Values ]
  BY DEF Mirror!Down, MirrorTypes, Mirror!Values
<1>2. queue' \in Seq(GatewayEvents) /\ Len(queue') <= QueueLimit
  <2>1. <<>> \in Seq(GatewayEvents) /\ Len(<<>>) = 0
    OBVIOUS
  <2>2. CASE queue' = <<>>
    BY <2>1, <2>2
  <2>3. CASE queue' = queue
    BY <2>3 DEF MirrorTypes
  <2> QED BY <2>2, <2>3
<1>3. DOMAIN snapshot' = {} /\ DOMAIN answer' = {} /\ inHand' = <<>> /\ runner' = "down"
  BY NoValuesIs DEF Mirror!Down
<1>4. stranded' \subseteq Topics /\ configs \ stranded' \subseteq recorded
  BY DEF Mirror!Down, MirrorTypes, ConfigsKnown
<1>5. outages' \in 0 .. MaxOutages
  BY DEF Mirror!Down, MirrorTypes
<1>6. MirrorTypes'
  BY <1>1, <1>2, <1>3, <1>4, <1>5 DEF Mirror!Down, MirrorTypes
<1>7. ConfigsKnown'
  BY <1>3, <1>4 DEF Mirror!Down, ConfigsKnown
<1>8. StatesTrue'
  BY <1>3 DEF Mirror!Down, StatesTrue, NewestTrue, HandTrue, BrokerTrue, InHand
<1> QED BY <1>6, <1>7, <1>8

LEMMA TakeEventStep == ASSUME QueueLimit \in Nat, MirrorInv, Mirror!TakeEvent PROVE MirrorInv'
<1> USE DEF MirrorInv
<1>1. /\ queue \in Seq(GatewayEvents) /\ queue # <<>> /\ queue' = Tail(queue)
      /\ inHand = <<>> /\ inHand' = <<Head(queue)>>
  BY DEF Mirror!TakeEvent, MirrorTypes
<1>2. /\ Len(queue) \in Nat \ {0} /\ queue' \in Seq(GatewayEvents)
           /\ Len(queue') = Len(queue) - 1
      /\ \A i \in 1 .. Len(queue') : queue'[i] = queue[i + 1]
      /\ Head(queue) = queue[1] /\ Head(queue) \in GatewayEvents
  BY <1>1
<1>3. inHand'[1] = queue[1] /\ inHand' # <<>>
  BY <1>1, <1>2
<1>a. Len(queue') <= QueueLimit
  <2>1. Len(queue) <= QueueLimit /\ Len(queue') = Len(queue) - 1 /\ Len(queue) \in Nat
    BY <1>2 DEF MirrorTypes
  <2> QED BY <2>1, QueueLimit \in Nat
<1>b. inHand' = <<>> \/ (\E e \in GatewayEvents : inHand' = <<e>>)
  BY <1>1, <1>2
<1>4. MirrorTypes' /\ ConfigsKnown'
  BY <1>2, <1>a, <1>b DEF Mirror!TakeEvent, MirrorTypes, ConfigsKnown, Mirror!discovery
<1>5. UNCHANGED <<current, runner, snapshot, answer, retained, dropped, overtaken, drifted>>
  BY DEF Mirror!TakeEvent
<1>6. ASSUME NEW r \in Roles PROVE (NewestTrue(r) /\ HandTrue(r) /\ BrokerTrue(r))'
  <2>1. NewestTrue(r) /\ HandTrue(r) /\ BrokerTrue(r)
    BY DEF StatesTrue
  <2>2. NewestTrue(r)'
    <3> SUFFICES ASSUME NEW i \in DOMAIN queue', queue'[i].role = r, r # Depth,
                        \A k \in DOMAIN queue' : k > i => queue'[k].role # r
                 PROVE  queue'[i].value = current[r]
      BY <1>5 DEF NewestTrue
    <3>1. i \in 1 .. Len(queue') /\ i + 1 \in DOMAIN queue /\ queue[i + 1] = queue'[i]
      BY <1>1, <1>2
    <3>2. ASSUME NEW k \in DOMAIN queue, k > i + 1 PROVE queue[k].role # r
      <4>1. k - 1 \in DOMAIN queue' /\ k - 1 > i /\ queue'[k - 1] = queue[k]
        BY <1>1, <1>2, <3>1, <3>2
      <4> QED BY <4>1
    <3> QED BY <2>1, <3>1, <3>2 DEF NewestTrue
  <2>3. InQueue(r)' \/ InHand(r)' <=> InQueue(r)
    <3>1. \A k \in DOMAIN queue :
            k = 1 \/ (k - 1 \in DOMAIN queue' /\ queue'[k - 1] = queue[k])
      BY <1>1, <1>2
    <3>2. 1 \in DOMAIN queue /\ \A i \in DOMAIN queue' : i + 1 \in DOMAIN queue
            /\ queue[i + 1] = queue'[i]
      BY <1>1, <1>2
    <3> QED BY <1>3, <3>1, <3>2 DEF InQueue, InHand
  <2>4. HandTrue(r)'
    <3> SUFFICES ASSUME InHand(r)', ~InQueue(r)', r # Depth PROVE inHand'[1].value = current'[r]
      BY DEF HandTrue
    <3>1. queue[1].role = r /\ 1 \in DOMAIN queue
      BY <1>1, <1>2, <1>3 DEF InHand
    <3>2. ASSUME NEW k \in DOMAIN queue, k > 1 PROVE queue[k].role # r
      <4>1. k - 1 \in DOMAIN queue' /\ queue'[k - 1] = queue[k]
        BY <1>1, <1>2, <3>2
      <4> QED BY <4>1 DEF InQueue
    <3>3. queue[1].value = current[r]
      BY <2>1, <3>1, <3>2 DEF NewestTrue
    <3> QED BY <1>3, <1>5, <3>3
  <2>5. ~InHand(r)
    BY <1>1 DEF InHand
  <2> QED BY <1>5, <2>1, <2>2, <2>3, <2>4, <2>5 DEF BrokerTrue
<1> QED BY <1>4, <1>6 DEF StatesTrue

LEMMA PublishEventStep == ASSUME Depth \in Roles, MirrorInv, Mirror!PublishEvent PROVE MirrorInv'
<1> USE DEF MirrorInv
<1>1. PICK e \in GatewayEvents : inHand = <<e>>
  BY DEF Mirror!PublishEvent, MirrorTypes
<1>2. inHand[1] = e /\ e.role \in Roles /\ e.value \in Mirror!Values /\ inHand # <<>>
  BY <1>1 DEF GatewayEvents
<1>3. retained' = [ retained EXCEPT ![e.role] = Mirror!Published(e) ]
  BY <1>2 DEF Mirror!PublishEvent
<1>a. /\ e.role = Depth => Mirror!Published(e) = current[Depth]
      /\ e.role # Depth => Mirror!Published(e) = e.value
      /\ Mirror!Published(e) \in Mirror!Values
  BY <1>2 DEF Mirror!Published, MirrorTypes
<1>4. retained' \in [ Roles -> Mirror!Values ] /\ retained'[e.role] = Mirror!Published(e)
      /\ \A x \in Roles \ {e.role} : retained'[x] = retained[x]
  BY <1>2, <1>3, <1>a DEF MirrorTypes
<1>5. UNCHANGED <<current, queue, runner, snapshot, answer,
        dropped>> /\ inHand' = <<>> /\ runner = "live"
  BY DEF Mirror!PublishEvent
<1>6. DOMAIN snapshot = {}
  BY <1>5, NoValuesIs DEF MirrorTypes
<1>b. drifted' \in BOOLEAN /\ (e.role # Depth => drifted' = drifted)
  BY <1>2 DEF Mirror!PublishEvent, MirrorTypes
<1>7. overtaken' \in BOOLEAN /\ (~overtaken' => ~overtaken /\ e.role \notin DOMAIN answer)
  BY <1>2 DEF Mirror!PublishEvent, MirrorTypes
<1>8. MirrorTypes' /\ ConfigsKnown'
  BY <1>4, <1>5, <1>7, <1>b DEF Mirror!PublishEvent, MirrorTypes, ConfigsKnown, Mirror!discovery
<1>9. ASSUME NEW r \in Roles PROVE (NewestTrue(r) /\ HandTrue(r) /\ BrokerTrue(r))'
  <2>1. NewestTrue(r) /\ HandTrue(r) /\ BrokerTrue(r)
    BY DEF StatesTrue
  <2>2. NewestTrue(r)' /\ HandTrue(r)'
    BY <1>5, <2>1 DEF NewestTrue, HandTrue, InHand
  <2>3. InQueue(r)' <=> InQueue(r)
    BY <1>5 DEF InQueue
  <2>4. CASE r = e.role
    <3>1. InHand(r)
      BY <1>2, <2>4 DEF InHand
    <3> QED BY <1>2, <1>4, <1>5, <1>6, <1>7, <1>a, <1>b, <2>1, <2>2, <2>3, <2>4, <3>1 DEF HandTrue,
          BrokerTrue
  <2>5. CASE r # e.role
    <3>1. ~InHand(r)
      BY <1>2, <2>5 DEF InHand
    <3>2. (drifted' => r # Depth) => (drifted => r # Depth)
      BY <1>b, <2>5, <1>2
    <3> QED BY <1>4, <1>5, <1>7, <2>1, <2>2, <2>3, <2>5, <3>1, <3>2 DEF BrokerTrue
  <2> QED BY <2>4, <2>5
<1> QED BY <1>8, <1>9 DEF StatesTrue

LEMMA RequestStep == ASSUME MirrorInv, Mirror!Request PROVE MirrorInv'
<1> USE DEF MirrorInv
<1>1. MirrorTypes' /\ ConfigsKnown'
  BY DEF Mirror!Request, MirrorTypes, ConfigsKnown, Mirror!discovery
<1>2. DOMAIN snapshot' = {} /\ DOMAIN answer' = Roles /\ answer' = current'
  BY NoValuesIs DEF Mirror!Request, MirrorTypes
<1>3. UNCHANGED <<current, queue, inHand, dropped>>
  BY DEF Mirror!Request
<1>4. ASSUME NEW r \in Roles PROVE (NewestTrue(r) /\ HandTrue(r) /\ BrokerTrue(r))'
  BY <1>2, <1>3 DEF StatesTrue, NewestTrue, HandTrue, BrokerTrue, InQueue, InHand
<1> QED BY <1>1, <1>4 DEF StatesTrue

LEMMA PublishAnswerStep == ASSUME MirrorInv, Mirror!PublishAnswer PROVE MirrorInv'
<1> USE DEF MirrorInv
<1>1. PICK r \in DOMAIN answer : retained' = [ retained EXCEPT ![r] = answer[r] ]
                                 /\ answer' = Mirror!Without(answer, r)
  BY DEF Mirror!PublishAnswer
<1>2. retained' \in [ Roles -> Mirror!Values ] /\ retained'[r] = answer[r] /\ r \in Roles
      /\ \A x \in Roles \ {r} : retained'[x] = retained[x]
  BY <1>1 DEF MirrorTypes
<1>3. DOMAIN answer' = DOMAIN answer \ {r} /\ \A x \in DOMAIN answer' : answer'[x] = answer[x]
  BY <1>1, WithoutIs
<1>4. DOMAIN snapshot = {}
  BY NoValuesIs DEF Mirror!PublishAnswer, MirrorTypes
<1>5. MirrorTypes' /\ ConfigsKnown'
  BY <1>2, <1>3 DEF Mirror!PublishAnswer, MirrorTypes, ConfigsKnown, Mirror!discovery
<1>6. StatesTrue'
  BY <1>2, <1>3, <1>4 DEF Mirror!PublishAnswer, StatesTrue, NewestTrue, HandTrue, BrokerTrue,
     InQueue, InHand
<1> QED BY <1>5, <1>6

LEMMA MirrorStep ==
  ASSUME MaxChanges \in Nat, MaxOutages \in Nat, QueueLimit \in Nat \ {0}, Depth \in Roles,
           MirrorInv, Mirror!Next
  PROVE  MirrorInv'
<1>1. ASSUME NEW r \in Roles, Mirror!Change(r) PROVE MirrorInv'
  BY <1>1, ChangeStep
<1>2. CASE Mirror!Break \/ Mirror!Restart
  <2>1. /\ Mirror!Down
        /\ \/ queue' = queue /\ wanted' = wanted
           \/ queue' = <<>> /\ wanted' \in SUBSET Topics
    BY <1>2 DEF Mirror!Break, Mirror!Restart
  <2> QED BY <2>1, DownStep
<1> QED
  BY <1>1, <1>2, RecountStep, NotifyStep, MirrorConnectStep, PublishConfigStep, TombstoneStep, RecordStep,
     PublishSnapshotStep,
     TakeEventStep, PublishEventStep, RequestStep, PublishAnswerStep DEF Mirror!Next

LEMMA MirrorUnchanged == MirrorInv /\ UNCHANGED Mirror!vars => MirrorInv'
  BY DEF Mirror!vars, Mirror!loops, Mirror!discovery, MirrorInv, MirrorTypes, ConfigsKnown,
     StatesTrue, NewestTrue, HandTrue,
         BrokerTrue, InQueue, InHand

LEMMA MirrorSettles ==
  ASSUME MirrorInv, QueueLimit \in Nat \ {0} PROVE Mirror!TypeOK /\ Mirror!RetainedSettles
           /\ Mirror!NoOrphans
<1> USE DEF MirrorInv
<1>1. Mirror!TypeOK
  <2>1. \A e \in GatewayEvents : e.role \in Roles
    BY DEF GatewayEvents
  <2>2. \A i \in DOMAIN queue : queue[i].role \in Roles
    BY <2>1 DEF MirrorTypes
  <2>3. \A i \in DOMAIN inHand : inHand[i].role \in Roles
    BY <2>1 DEF MirrorTypes
  <2> QED BY <2>2, <2>3 DEF MirrorTypes, Mirror!TypeOK
<1>2. Mirror!RetainedSettles
  <2> SUFFICES ASSUME Mirror!Settled, ~dropped, ~overtaken, NEW r \in Roles,
                      ~(r = Depth /\ drifted)
               PROVE  retained[r] = current[r]
    BY DEF Mirror!RetainedSettles
  <2>1. retained[r] = current[r]
    <3>1. ~InQueue(r) /\ ~InHand(r) /\ runner = "live"
      BY DEF Mirror!Settled, InQueue, InHand
    <3>2. DOMAIN snapshot = {} /\ DOMAIN answer = {}
      BY <3>1, NoValuesIs DEF MirrorTypes, Mirror!Settled
    <3> QED BY <3>1, <3>2 DEF StatesTrue, BrokerTrue
  <2> QED BY <2>1
<1>3. Mirror!NoOrphans
  BY DEF ConfigsKnown, Mirror!NoOrphans
<1> QED BY <1>1, <1>2, <1>3

----------------------------------------------------------------------------
(* The copying of the integration at the start (ComponentSync).             *)

\* Where a sync stands: what it has made of the temporary and the target directory.
SyncStands ==
  /\ pc = "copy" => temp \in {Sync!None, Sync!Part(image)}
  /\ pc \in {"remove", "replace"} => temp = Sync!Whole(image)
  /\ pc = "mark" => target = Sync!Whole(image)
  /\ pc = "done" => target = Sync!Whole(image) /\ marker \in {0, image}

\* Until it removes the target, a sync has changed nothing.
SyncUndisturbed ==
  deaths = 0 /\ pc \in {"off", "clean", "copy"} /\ target # Sync!None
    => target.files = "whole"

SyncInv == Sync!TypeOK /\ SyncStands /\ SyncUndisturbed

LEMMA SyncDirs ==
  ASSUME Versions \in Nat
  PROVE  /\ Sync!None \in Sync!Dirs /\ Sync!None.files = "none" /\ Sync!None.version = 0
         /\ \A v \in 1 .. Versions :
              /\ Sync!Part(v) \in Sync!Dirs /\ Sync!Part(v).files = "part"
                   /\ Sync!Part(v).version = v
              /\ Sync!Whole(v) \in Sync!Dirs /\ Sync!Whole(v).files = "whole"
                   /\ Sync!Whole(v).version = v
         /\ \A dir \in Sync!Dirs :
              /\ dir.files \in {"none", "part", "whole"} /\ dir.version \in 0 .. Versions
              /\ dir.files = "none" => dir = Sync!None
              /\ dir.files # "none" => dir.version \in 1 .. Versions
              /\ dir.files = "part" => dir = Sync!Part(dir.version)
              /\ dir.files = "whole" => dir = Sync!Whole(dir.version)
<1>1. Sync!None \in Sync!Dirs /\ Sync!None.files = "none" /\ Sync!None.version = 0
  BY DEF Sync!Dirs, Sync!None
<1>2. ASSUME NEW v \in 1 .. Versions
      PROVE  /\ Sync!Part(v) \in Sync!Dirs /\ Sync!Part(v).files = "part"
                  /\ Sync!Part(v).version = v
             /\ Sync!Whole(v) \in Sync!Dirs /\ Sync!Whole(v).files = "whole"
                  /\ Sync!Whole(v).version = v
  <2>1. Sync!Part(v) \in Sync!Dirs /\ Sync!Whole(v) \in Sync!Dirs
    BY DEF Sync!Dirs
  <2> QED BY <2>1 DEF Sync!Part, Sync!Whole
<1>3. ASSUME NEW dir \in Sync!Dirs
      PROVE  /\ dir.files \in {"none", "part", "whole"} /\ dir.version \in 0 .. Versions
             /\ dir.files = "none" => dir = Sync!None
             /\ dir.files # "none" => dir.version \in 1 .. Versions
             /\ dir.files = "part" => dir = Sync!Part(dir.version)
             /\ dir.files = "whole" => dir = Sync!Whole(dir.version)
  <2>1. dir = Sync!None \/ (\E v \in 1 .. Versions : dir = Sync!Part(v)
          \/ dir = Sync!Whole(v))
    BY DEF Sync!Dirs
  <2>2. CASE dir = Sync!None
    BY <1>1, <2>2
  <2>3. ASSUME NEW v \in 1 .. Versions, dir = Sync!Part(v) \/ dir = Sync!Whole(v)
        PROVE  /\ dir.files \in {"part", "whole"} /\ dir.version = v
               /\ dir.files = "part" => dir = Sync!Part(v)
               /\ dir.files = "whole" => dir = Sync!Whole(v)
    BY <1>2, <2>3
  <2> QED BY <2>1, <2>2, <2>3
<1> QED BY <1>1, <1>2, <1>3

LEMMA SyncInit == ASSUME Versions \in Nat \ {0}, MaxDeaths \in Nat, Sync!Init PROVE SyncInv
<1>1. Sync!TypeOK
  <2>1. Sync!Unchecked \in [ at : {"idle", "manifest", "remove"}, marker : 0 .. Versions ]
    BY DEF Sync!Unchecked
  <2>2. Sync!None \in Sync!Dirs
    BY SyncDirs
  <2>3. 1 \in 1 .. Versions /\ 0 \in 0 .. Versions /\ 0 \in 0 .. MaxDeaths
    OBVIOUS
  <2> QED BY <2>1, <2>2, <2>3 DEF Sync!Init, Sync!TypeOK
<1> QED BY <1>1 DEF Sync!Init, SyncInv, SyncStands, SyncUndisturbed

LEMMA SyncStep ==
  ASSUME Versions \in Nat \ {0}, MaxDeaths \in Nat, SyncInv, Sync!Next PROVE SyncInv'
<1> USE DEF SyncInv
<1>1. CASE Sync!Begin
  BY <1>1 DEF Sync!Begin, Sync!TypeOK, SyncStands, SyncUndisturbed, Sync!files, Sync!core
<1>2. CASE Sync!Cleaned
  BY <1>2, SyncDirs DEF Sync!Cleaned, Sync!Clean, Sync!TypeOK, SyncStands, SyncUndisturbed,
     Sync!core
<1>3. CASE Sync!Copy
  <2>1. /\ temp' \in Sync!Dirs /\ pc' \in {"copy", "remove"}
        /\ pc' = "copy" => temp' = Sync!Part(image)
        /\ pc' = "remove" => temp' = Sync!Whole(image)
    <3>1. /\ image \in 1 .. Versions /\ temp.files \in {"none", "part"}
          /\ temp \in {Sync!None, Sync!Part(image)}
      BY <1>3, SyncDirs DEF Sync!Copy, Sync!TypeOK, SyncStands
    <3>2. CASE temp.files = "none"
      BY <1>3, <3>1, <3>2, SyncDirs DEF Sync!Copy
    <3>3. CASE temp.files = "part"
      BY <1>3, <3>1, <3>3, SyncDirs DEF Sync!Copy
    <3> QED BY <3>1, <3>2, <3>3
  <2> QED BY <1>3, <2>1 DEF Sync!Copy, Sync!TypeOK, SyncStands, SyncUndisturbed, Sync!core
<1>4. CASE Sync!Remove
  <2>1. /\ target' \in Sync!Dirs /\ marker' \in 0 .. Versions /\ pc' \in {"remove", "replace"}
    BY <1>4, SyncDirs DEF Sync!Remove, Sync!TypeOK
  <2> QED BY <1>4, <2>1 DEF Sync!Remove, Sync!TypeOK, SyncStands, SyncUndisturbed, Sync!core
<1>5. CASE Sync!Replace
  BY <1>5, SyncDirs DEF Sync!Replace, Sync!TypeOK, SyncStands, SyncUndisturbed, Sync!core
<1>6. CASE Sync!Mark
  BY <1>6 DEF Sync!Mark, Sync!TypeOK, SyncStands, SyncUndisturbed, Sync!core
<1>7. CASE Sync!Die
  BY <1>7 DEF Sync!Die, Sync!TypeOK, SyncStands, SyncUndisturbed, Sync!files, Sync!core
<1>8. CASE Sync!Update
  <2>1. pc = "done" => target.files = "whole"
    BY SyncDirs DEF Sync!TypeOK, SyncStands
  <2> QED BY <1>8, <2>1 DEF Sync!Update, Sync!TypeOK, SyncStands, SyncUndisturbed,
        Sync!files, Sync!core
<1>a. Sync!Unchecked \in [ at : {"idle", "manifest", "remove"}, marker : 0 .. Versions ]
  BY DEF Sync!Unchecked
<1>9. CASE Sync!Load
  <2>1. running' \in 0 .. Versions
    BY <1>9, SyncDirs DEF Sync!Load, Sync!Manifest, Sync!TypeOK
  <2> QED BY <1>9, <1>a, <2>1 DEF Sync!Load, Sync!TypeOK, SyncStands, SyncUndisturbed,
        Sync!addon, Sync!files
<1>10. CASE Sync!ReadMarker
  <2>1. check' \in [ at : {"idle", "manifest", "remove"}, marker : 0 .. Versions ]
    BY <1>10 DEF Sync!ReadMarker, Sync!TypeOK
  <2> QED BY <1>10, <2>1 DEF Sync!ReadMarker, Sync!TypeOK, SyncStands, SyncUndisturbed,
        Sync!addon, Sync!files
<1>11. CASE Sync!ReadManifest
  <2>1. /\ check' = Sync!Unchecked \/ check' = [ check EXCEPT !.at = "remove" ]
        /\ issue' \in BOOLEAN
    BY <1>11 DEF Sync!ReadManifest, Sync!TypeOK
  <2>2. check' \in [ at : {"idle", "manifest", "remove"}, marker : 0 .. Versions ]
    BY <1>a, <2>1 DEF Sync!TypeOK
  <2> QED BY <1>11, <2>1, <2>2 DEF Sync!ReadManifest, Sync!TypeOK, SyncStands,
        SyncUndisturbed, Sync!addon, Sync!files
<1>12. CASE Sync!RemoveMarker
  <2>1. marker' = 0 /\ 0 \in 0 .. Versions
    BY <1>12 DEF Sync!RemoveMarker
  <2>2. issue' \in BOOLEAN
    BY <1>12 DEF Sync!RemoveMarker
  <2> QED BY <1>a, <1>12, <2>1, <2>2 DEF Sync!RemoveMarker, Sync!TypeOK, SyncStands,
        SyncUndisturbed, Sync!addon
<1> QED
  BY <1>1, <1>2, <1>3, <1>4, <1>5, <1>6, <1>7, <1>8, <1>9, <1>10, <1>11, <1>12
  DEF Sync!Next

LEMMA SyncUnchanged == SyncInv /\ UNCHANGED Sync!vars => SyncInv'
  BY DEF SyncInv, Sync!vars, Sync!addon, Sync!files, Sync!core, Sync!TypeOK, SyncStands,
     SyncUndisturbed

LEMMA SyncTarget == ASSUME Versions \in Nat \ {0},
  SyncInv PROVE Sync!TypeOK /\ Sync!TargetWhole
  BY SyncDirs DEF SyncInv, SyncStands, SyncUndisturbed, Sync!TargetWhole

----------------------------------------------------------------------------
(* Segments and the verdicts they are credited with (SmsConfirmation).      *)

SegmentTypes ==
  /\ pending \in Seq(Verdicts!Ids)
       /\ verdict \in [ Verdicts!Ids -> Verdicts!Final \cup {"none", "open"} ]
  /\ sensor \in Verdicts!Status /\ dump \in BOOLEAN /\ up \in BOOLEAN
  /\ calls \in Seq(Verdicts!Ids) /\ states \in Seq(Verdicts!Final)
  /\ next \in 1 .. (Segments + 1) /\ awaiting \in BOOLEAN
  /\ heard \in Verdicts!Final \cup {"none"}
       /\ credited \in [ Verdicts!Ids -> Verdicts!Final \cup {"none"} ]
  /\ drops \in 0 .. MaxDrops /\ clean \subseteq Verdicts!Ids
  /\ awaiting => next \in Verdicts!Ids

\* The driver's queue holds each request once, and holds it while it has no verdict.
QueueOpen ==
  /\ \A i \in DOMAIN pending : verdict[pending[i]] = "open"
  /\ \A i, k \in DOMAIN pending : i # k => pending[i] # pending[k]

\* Segments that were sent cleanly lie behind the worker, or it waits for the last one.
CleanBehind == \A s \in clean : s < next \/ (s = next /\ awaiting)

\* While the worker waits for a segment that was sent cleanly, that segment is all there
\* is: its call is under way, or it is in the driver's queue, or it has its verdict.
CalledOnly == calls = <<next>> /\ pending = <<>> /\ states = <<>> /\ heard = "none"
QueuedOnly == calls = <<>> /\ pending = <<next>> /\ states = <<>> /\ heard = "none"
JudgedOnly ==
  /\ calls = <<>> /\ pending = <<>> /\ verdict[next] \in Verdicts!Final
  /\ \A i \in DOMAIN states : states[i] = verdict[next]
  /\ heard \in {"none", verdict[next]}

AloneWaiting ==
  awaiting /\ next \in clean => up /\ ~dump /\ (CalledOnly \/ QueuedOnly \/ JudgedOnly)

\* A segment behind the worker that was credited with a verdict has that verdict.
CreditTrue ==
  \A s \in clean : s < next /\ credited[s] \in {"sent", "failed"} => credited[s] = verdict[s]

\* A segment the worker has not settled has no credit.
Unsettled == \A s \in Verdicts!Ids : s >= next => credited[s] = "none"

SegmentsInv ==
  SegmentTypes /\ QueueOpen /\ CleanBehind /\ AloneWaiting /\ CreditTrue /\ Unsettled

LEMMA SegmentsInit ==
  ASSUME Segments \in Nat, MaxDrops \in Nat, Verdicts!Init PROVE SegmentsInv
<1>1. /\ pending = <<>> /\ verdict = [ s \in Verdicts!Ids |-> "none" ]
  BY DEF Verdicts!Init, Verdicts!Transport!Init
<1>2. <<>> \in Seq(Verdicts!Ids) /\ <<>> \in Seq(Verdicts!Final) /\ DOMAIN <<>> = {}
  OBVIOUS
<1>3. pending \in Seq(Verdicts!Ids) /\ calls \in Seq(Verdicts!Ids)
        /\ states \in Seq(Verdicts!Final)
  BY <1>1, <1>2 DEF Verdicts!Init
<1>4. /\ verdict \in [ Verdicts!Ids -> Verdicts!Final \cup {"none", "open"} ]
      /\ credited \in [ Verdicts!Ids -> Verdicts!Final \cup {"none"} ]
  BY <1>1 DEF Verdicts!Init
<1>5. SegmentTypes
  <2>1. next \in 1 .. (Segments + 1) /\ drops \in 0 .. MaxDrops /\ ~awaiting
    BY DEF Verdicts!Init
  <2>2. /\ sensor \in Verdicts!Status /\ dump \in BOOLEAN /\ up \in BOOLEAN
             /\ awaiting \in BOOLEAN
        /\ heard \in Verdicts!Final \cup {"none"} /\ clean \subseteq Verdicts!Ids
    BY DEF Verdicts!Init, Verdicts!Status
  <2> QED BY <1>3, <1>4, <2>1, <2>2 DEF SegmentTypes
<1>6. QueueOpen
  BY <1>1, <1>2 DEF QueueOpen
<1>7. CleanBehind /\ AloneWaiting /\ CreditTrue /\ Unsettled
  BY DEF Verdicts!Init, CleanBehind, AloneWaiting, CreditTrue, Unsettled
<1> QED BY <1>5, <1>6, <1>7 DEF SegmentsInv

LEMMA PublishIs ==
  ASSUME SegmentTypes, NEW value \in Verdicts!Status, Verdicts!Publish(value)
  PROVE  /\ sensor' \in Verdicts!Status /\ states' \in Seq(Verdicts!Final)
         /\ value \notin Verdicts!Final => states' = states
         /\ states = <<>> => \A i \in DOMAIN states' : states'[i] = value
  BY DEF Verdicts!Publish, SegmentTypes

\* A request whose verdict is settled keeps it; only open requests and new ones change.
LEMMA EnqueueStep == ASSUME Segments \in Nat, SegmentsInv, Verdicts!Enqueue PROVE SegmentsInv'
<1> USE DEF SegmentsInv
<1> DEFINE r == Head(calls)
<1>1. /\ calls \in Seq(Verdicts!Ids) /\ calls # <<>> /\ r \in Verdicts!Ids /\ r = calls[1]
      /\ calls' = Tail(calls) /\ calls' \in Seq(Verdicts!Ids)
  BY DEF Verdicts!Enqueue, SegmentTypes
<1>2. UNCHANGED <<dump, up, next, awaiting, heard, credited, drops, clean>>
  BY DEF Verdicts!Enqueue, Verdicts!sender
<1>3. verdict[r] = "none" /\ r \notin { pending[i] : i \in DOMAIN pending }
  BY DEF Verdicts!Enqueue, Verdicts!Transport!Accept, Verdicts!Transport!Reject, QueueOpen
<1>4. CASE Verdicts!Transport!Accept(r) /\ Verdicts!Publish("queued")
  <2>1. /\ pending' = Append(pending, r) /\ verdict' = [ verdict EXCEPT ![r] = "open" ]
    BY <1>4 DEF Verdicts!Transport!Accept
  <2>2. "queued" \in Verdicts!Status /\ "queued" \notin Verdicts!Final
    BY DEF Verdicts!Status, Verdicts!Final
  <2>3. sensor' \in Verdicts!Status /\ states' = states
    BY <1>4, <2>2, PublishIs
  <2>4. /\ verdict' \in [ Verdicts!Ids -> Verdicts!Final \cup {"none", "open"} ]
        /\ verdict'[r] = "open"
        /\ \A s \in Verdicts!Ids \ {r} : verdict'[s] = verdict[s]
    BY <1>1, <2>1 DEF SegmentTypes
  <2>5. /\ pending \in Seq(Verdicts!Ids) /\ pending' \in Seq(Verdicts!Ids)
             /\ Len(pending') = Len(pending) + 1
        /\ pending'[Len(pending) + 1] = r
        /\ \A i \in 1 .. Len(pending) : pending'[i] = pending[i]
             /\ pending[i] \in Verdicts!Ids
    BY <1>1, <2>1 DEF SegmentTypes
  <2>6. SegmentTypes'
    BY <1>1, <1>2, <2>3, <2>4, <2>5 DEF SegmentTypes
  <2>7. QueueOpen'
    BY <1>3, <2>4, <2>5 DEF QueueOpen
  <2>8. AloneWaiting'
    <3> SUFFICES ASSUME awaiting, next \in clean PROVE AloneWaiting'
      BY <1>2 DEF AloneWaiting
    <3>1. CalledOnly /\ up /\ ~dump
      BY <1>1 DEF AloneWaiting, QueuedOnly, JudgedOnly, CalledOnly
    <3>2. r = next /\ calls' = <<>> /\ pending' = <<next>>
      BY <1>1, <2>1, <3>1 DEF CalledOnly, SegmentTypes
    <3> QED BY <1>2, <2>3, <3>1, <3>2 DEF AloneWaiting, CalledOnly, QueuedOnly
  <2>9. CreditTrue'
    BY <1>2, <1>3, <2>4 DEF CreditTrue, SegmentTypes
  <2> QED BY <1>2, <2>6, <2>7, <2>8, <2>9 DEF CleanBehind, Unsettled
<1>5. CASE Verdicts!Transport!Reject(r) /\ Verdicts!Publish("failed")
  <2>1. pending' = pending /\ verdict' = [ verdict EXCEPT ![r] = "failed" ]
    BY <1>5 DEF Verdicts!Transport!Reject
  <2>2. "failed" \in Verdicts!Status /\ "failed" \in Verdicts!Final
    BY DEF Verdicts!Status, Verdicts!Final
  <2>3. /\ sensor' \in Verdicts!Status /\ states' \in Seq(Verdicts!Final)
        /\ states = <<>> => \A i \in DOMAIN states' : states'[i] = "failed"
    BY <1>5, <2>2, PublishIs
  <2>4. /\ verdict' \in [ Verdicts!Ids -> Verdicts!Final \cup {"none", "open"} ]
        /\ verdict'[r] = "failed"
        /\ \A s \in Verdicts!Ids \ {r} : verdict'[s] = verdict[s]
    BY <1>1, <2>1, <2>2 DEF SegmentTypes
  <2>6. SegmentTypes'
    BY <1>1, <1>2, <2>1, <2>3, <2>4 DEF SegmentTypes
  <2>7. QueueOpen'
    BY <1>3, <2>1, <2>4 DEF QueueOpen, SegmentTypes
  <2>8. AloneWaiting'
    <3> SUFFICES ASSUME awaiting, next \in clean PROVE AloneWaiting'
      BY <1>2 DEF AloneWaiting
    <3>1. CalledOnly /\ up /\ ~dump
      BY <1>1 DEF AloneWaiting, QueuedOnly, JudgedOnly, CalledOnly
    <3>2. r = next /\ calls' = <<>> /\ pending' = <<>>
      BY <1>1, <2>1, <3>1 DEF CalledOnly, SegmentTypes
    <3> QED BY <1>2, <2>2, <2>3, <2>4, <3>1, <3>2 DEF AloneWaiting, CalledOnly, JudgedOnly
  <2>9. CreditTrue'
    BY <1>2, <1>3, <2>4 DEF CreditTrue, SegmentTypes
  <2> QED BY <1>2, <2>6, <2>7, <2>8, <2>9 DEF CleanBehind, Unsettled
<1> QED BY <1>4, <1>5 DEF Verdicts!Enqueue

LEMMA AttemptStep == ASSUME SegmentsInv, Verdicts!Attempt PROVE SegmentsInv'
<1> USE DEF SegmentsInv
<1>1. "queued" \in Verdicts!Status \ Verdicts!Final
        /\ "sending" \in Verdicts!Status \ Verdicts!Final
  BY DEF Verdicts!Status, Verdicts!Final
<1>2. sensor' \in Verdicts!Status /\ states' = states
  BY <1>1, PublishIs DEF Verdicts!Attempt
<1> QED BY <1>2 DEF Verdicts!Attempt, Verdicts!driver, Verdicts!sender, SegmentTypes,
      QueueOpen, CleanBehind, AloneWaiting, CreditTrue,
               Unsettled, CalledOnly, QueuedOnly, JudgedOnly

LEMMA SubmitStep == ASSUME SegmentsInv, Verdicts!Submit PROVE SegmentsInv'
  BY DEF SegmentsInv, Verdicts!Submit, Verdicts!Transport!Submit, Verdicts!wire,
     Verdicts!sender, SegmentTypes, QueueOpen, CleanBehind,
         AloneWaiting, CreditTrue, Unsettled, CalledOnly, QueuedOnly, JudgedOnly

LEMMA CompleteStep == ASSUME SegmentsInv, NEW v \in Verdicts!Final,
  Verdicts!Complete(v) PROVE SegmentsInv'
<1> USE DEF SegmentsInv
<1> DEFINE r == Head(pending)
<1>1. /\ pending \in Seq(Verdicts!Ids) /\ pending # <<>> /\ r \in Verdicts!Ids
           /\ r = pending[1] /\ 1 \in DOMAIN pending
      /\ pending' = Tail(pending) /\ pending' \in Seq(Verdicts!Ids)
           /\ Len(pending') = Len(pending) - 1
      /\ \A i \in 1 .. Len(pending') : pending'[i] = pending[i + 1]
           /\ i + 1 \in DOMAIN pending
  BY DEF Verdicts!Complete, Verdicts!Transport!Resolve, SegmentTypes
<1>2. /\ verdict' = [ verdict EXCEPT ![r] = v ] /\ Verdicts!Publish(v)
      /\ UNCHANGED <<dump, up, calls, next, awaiting, heard, credited, drops, clean>>
  BY DEF Verdicts!Complete, Verdicts!Transport!Resolve, Verdicts!sender
<1>3. /\ verdict' \in [ Verdicts!Ids -> Verdicts!Final \cup {"none", "open"} ]
      /\ verdict'[r] = v
      /\ \A s \in Verdicts!Ids \ {r} : verdict'[s] = verdict[s]
  BY <1>1, <1>2 DEF SegmentTypes
<1>4. v \in Verdicts!Status
  BY DEF Verdicts!Status
<1>5. /\ sensor' \in Verdicts!Status /\ states' \in Seq(Verdicts!Final)
      /\ states = <<>> => \A i \in DOMAIN states' : states'[i] = v
  BY <1>2, <1>4, PublishIs
<1>6. SegmentTypes'
  BY <1>1, <1>2, <1>3, <1>5 DEF SegmentTypes
<1>7. QueueOpen'
  <2>1. \A i \in DOMAIN pending' : i + 1 \in DOMAIN pending /\ pending'[i] = pending[i + 1]
          /\ i + 1 # 1
                                   /\ pending'[i] \in Verdicts!Ids
    BY <1>1
  <2>2. \A i \in DOMAIN pending' : pending'[i] # r /\ verdict'[pending'[i]] = "open"
    BY <1>1, <1>3, <2>1 DEF QueueOpen
  <2>3. \A i, k \in DOMAIN pending' : i # k => i + 1 # k + 1
    BY <1>1
  <2> QED BY <2>1, <2>2, <2>3 DEF QueueOpen
<1>8. verdict[r] = "open"
  BY <1>1 DEF QueueOpen
<1>9. AloneWaiting'
  <2> SUFFICES ASSUME awaiting, next \in clean PROVE AloneWaiting'
    BY <1>2 DEF AloneWaiting
  <2>1. QueuedOnly /\ up /\ ~dump
    BY <1>1 DEF AloneWaiting, QueuedOnly, JudgedOnly, CalledOnly
  <2>2. r = next /\ pending' = <<>>
    BY <1>1, <2>1 DEF QueuedOnly
  <2> QED BY <1>2, <1>3, <1>5, <2>1, <2>2 DEF AloneWaiting, QueuedOnly, JudgedOnly
<1>10. CreditTrue'
  BY <1>2, <1>3, <1>8 DEF CreditTrue, SegmentTypes
<1> QED BY <1>2, <1>6, <1>7, <1>9, <1>10 DEF CleanBehind, Unsettled

LEMMA SegmentsConnectStep == ASSUME SegmentsInv, Verdicts!Connect PROVE SegmentsInv'
  BY DEF SegmentsInv, Verdicts!Connect, Verdicts!driver, Verdicts!sender, SegmentTypes,
     QueueOpen, CleanBehind,
         AloneWaiting, CreditTrue, Unsettled

LEMMA DumpStep == ASSUME SegmentsInv, Verdicts!Dump PROVE SegmentsInv'
<1> USE DEF SegmentsInv
<1>1. states' \in Seq(Verdicts!Final)
  BY DEF Verdicts!Dump, SegmentTypes
<1> QED BY <1>1 DEF Verdicts!Dump, Verdicts!driver, Verdicts!sender, SegmentTypes, QueueOpen,
      CleanBehind, AloneWaiting, CreditTrue, Unsettled

LEMMA DisconnectStep == ASSUME MaxDrops \in Nat, SegmentsInv,
  Verdicts!Disconnect PROVE SegmentsInv'
<1> USE DEF SegmentsInv
<1>1. /\ calls' \in Seq(Verdicts!Ids) /\ states' \in Seq(Verdicts!Final)
           /\ drops' \in 0 .. MaxDrops /\ clean' \subseteq clean
      /\ awaiting => next \notin clean'
  BY DEF Verdicts!Disconnect, SegmentTypes
<1> QED BY <1>1 DEF Verdicts!Disconnect, Verdicts!driver, Verdicts!sender, SegmentTypes,
      QueueOpen, CleanBehind, AloneWaiting, CreditTrue,
               Unsettled

LEMMA SendStep == ASSUME Segments \in Nat, SegmentsInv, Verdicts!Send PROVE SegmentsInv'
<1> USE DEF SegmentsInv
<1>1. /\ calls' = Append(calls, next) /\ awaiting' = TRUE /\ heard' = "none"
      /\ next \in Verdicts!Ids /\ up /\ ~awaiting
      /\ UNCHANGED <<pending, submitted, verdict, sensor, dump, up, states, next, credited,
           drops>>
      /\ clean' = IF Verdicts!Quiet THEN clean \cup {next} ELSE clean
  BY DEF Verdicts!Send, Verdicts!Forget, Verdicts!driver
<1>2. calls' \in Seq(Verdicts!Ids) /\ (calls = <<>> => calls' = <<next>>)
  <2>1. calls \in Seq(Verdicts!Ids)
    BY DEF SegmentTypes
  <2>2. Append(calls, next) \in Seq(Verdicts!Ids)
    BY <1>1, <2>1
  <2>3. Append(<<>>, next) = <<next>>
    OBVIOUS
  <2> QED BY <1>1, <2>2, <2>3
<1>3. SegmentTypes'
  BY <1>1, <1>2 DEF SegmentTypes
<1>4. next \notin clean
  BY <1>1 DEF CleanBehind, SegmentTypes, Verdicts!Ids
<1>5. AloneWaiting'
  BY <1>1, <1>2, <1>4 DEF AloneWaiting, CalledOnly, Verdicts!Quiet
<1>6. CleanBehind' /\ CreditTrue'
  BY <1>1, <1>4 DEF CleanBehind, CreditTrue, SegmentTypes, Verdicts!Ids
<1> QED BY <1>1, <1>3, <1>5, <1>6 DEF QueueOpen, Unsettled

LEMMA SegmentsReceiveStep == ASSUME SegmentsInv, Verdicts!Receive PROVE SegmentsInv'
<1> USE DEF SegmentsInv
<1>1. /\ states \in Seq(Verdicts!Final) /\ states # <<>> /\ states' = Tail(states)
           /\ states' \in Seq(Verdicts!Final)
      /\ Head(states) = states[1] /\ 1 \in DOMAIN states /\ Head(states) \in Verdicts!Final
      /\ \A i \in DOMAIN states' : i + 1 \in DOMAIN states /\ states'[i] = states[i + 1]
  BY DEF Verdicts!Receive, SegmentTypes
<1>2. /\ heard' = (IF heard = "none" THEN Head(states) ELSE heard)
      /\ UNCHANGED <<pending, submitted, verdict, sensor, dump, up, calls, next, awaiting,
           credited, drops, clean>>
  BY DEF Verdicts!Receive, Verdicts!driver
<1>3. SegmentTypes'
  BY <1>1, <1>2 DEF SegmentTypes
<1>4. AloneWaiting'
  <2> SUFFICES ASSUME awaiting, next \in clean PROVE AloneWaiting'
    BY <1>2 DEF AloneWaiting
  <2>1. JudgedOnly /\ up /\ ~dump
    BY <1>1 DEF AloneWaiting, QueuedOnly, JudgedOnly, CalledOnly
  <2>2. JudgedOnly'
    BY <1>1, <1>2, <2>1 DEF JudgedOnly
  <2> QED BY <1>2, <2>1, <2>2 DEF AloneWaiting
<1> QED BY <1>2, <1>3, <1>4 DEF QueueOpen, CleanBehind, CreditTrue, Unsettled

LEMMA SettleStep ==
  ASSUME Segments \in Nat, SegmentsInv, NEW v \in Verdicts!Final, Verdicts!Settle(v),
         v = heard \/ (heard = "none" /\ v = "unknown")
  PROVE  SegmentsInv'
<1> USE DEF SegmentsInv
<1>1. /\ awaiting /\ ~awaiting' /\ next' = next + 1
           /\ credited' = [ credited EXCEPT ![next] = v ]
      /\ awaiting' = FALSE
      /\ UNCHANGED <<pending, submitted, verdict, sensor, dump, up, calls, states, heard,
           drops, clean>>
  BY DEF Verdicts!Settle, Verdicts!driver, Verdicts!wire
<1>2. next \in Verdicts!Ids /\ next \in Nat /\ next' \in 1 .. (Segments + 1)
  BY <1>1 DEF SegmentTypes, Verdicts!Ids
<1>3. /\ credited' \in [ Verdicts!Ids -> Verdicts!Final \cup {"none"} ] /\ credited'[next] = v
      /\ \A s \in Verdicts!Ids \ {next} : credited'[s] = credited[s]
  BY <1>1, <1>2 DEF SegmentTypes
<1>4. SegmentTypes'
  BY <1>1, <1>2, <1>3 DEF SegmentTypes
<1>5. CleanBehind' /\ Unsettled'
  BY <1>1, <1>2, <1>3 DEF CleanBehind, Unsettled, SegmentTypes, Verdicts!Ids
<1>6. next \in clean /\ v \in {"sent", "failed"} => v = verdict[next]
  BY <1>1 DEF AloneWaiting, CalledOnly, QueuedOnly, JudgedOnly, Verdicts!Final
<1>7. CreditTrue'
  BY <1>1, <1>2, <1>3, <1>6 DEF CreditTrue, SegmentTypes, Verdicts!Ids
<1> QED BY <1>1, <1>4, <1>5, <1>7 DEF QueueOpen, AloneWaiting

LEMMA RefusedStep == ASSUME Segments \in Nat, SegmentsInv, Verdicts!Refused PROVE SegmentsInv'
<1> USE DEF SegmentsInv
<1>1. /\ ~awaiting /\ next' = next + 1 /\ credited' = [ credited EXCEPT ![next] = "failed" ]
      /\ UNCHANGED <<pending, submitted, verdict, sensor, dump, up, calls, states, awaiting,
           heard, drops, clean>>
  BY DEF Verdicts!Refused, Verdicts!driver, Verdicts!wire
<1>2. next \in Verdicts!Ids /\ next \in Nat /\ next' \in 1 .. (Segments + 1)
        /\ "failed" \in Verdicts!Final
  BY DEF Verdicts!Refused, Verdicts!Ids, Verdicts!Final
<1>3. /\ credited' \in [ Verdicts!Ids -> Verdicts!Final \cup {"none"} ]
      /\ \A s \in Verdicts!Ids \ {next} : credited'[s] = credited[s]
  BY <1>1, <1>2 DEF SegmentTypes
<1>4. SegmentTypes'
  BY <1>1, <1>2, <1>3 DEF SegmentTypes
<1>5. \A s \in clean : s \in Verdicts!Ids /\ s < next
  BY <1>1 DEF CleanBehind, SegmentTypes
<1>6. CleanBehind' /\ Unsettled'
  BY <1>1, <1>2, <1>3, <1>5 DEF CleanBehind, Unsettled, SegmentTypes, Verdicts!Ids
<1>7. CreditTrue'
  BY <1>1, <1>2, <1>3, <1>5 DEF CreditTrue, Verdicts!Ids
<1> QED BY <1>1, <1>4, <1>6, <1>7 DEF QueueOpen, AloneWaiting

LEMMA SegmentsStep ==
  ASSUME Segments \in Nat, MaxDrops \in Nat, SegmentsInv, Verdicts!Next PROVE SegmentsInv'
<1>1. ASSUME NEW v \in Verdicts!Final, Verdicts!Complete(v) PROVE SegmentsInv'
  BY <1>1, CompleteStep
<1>2. CASE Verdicts!Credit \/ Verdicts!Timeout
  <2>1. "unknown" \in Verdicts!Final /\ (heard # "none" => heard \in Verdicts!Final)
    BY DEF Verdicts!Final, SegmentsInv, SegmentTypes
  <2> QED BY <1>2, <2>1, SettleStep DEF Verdicts!Credit, Verdicts!Timeout
<1> QED
  BY <1>1, <1>2, EnqueueStep, AttemptStep, SubmitStep, SegmentsConnectStep, DumpStep,
     DisconnectStep, SendStep,
     RefusedStep, SegmentsReceiveStep DEF Verdicts!Next

LEMMA SegmentsUnchanged == SegmentsInv /\ UNCHANGED Verdicts!vars => SegmentsInv'
  BY DEF Verdicts!vars, Verdicts!driver, Verdicts!wire, Verdicts!sender, SegmentsInv,
     SegmentTypes, QueueOpen, CleanBehind, AloneWaiting,
         CalledOnly, QueuedOnly, JudgedOnly, CreditTrue, Unsettled

LEMMA SegmentsCredit == ASSUME SegmentsInv PROVE Verdicts!TypeOK /\ Verdicts!CleanCredit
<1>1. Verdicts!TypeOK
  BY DEF SegmentsInv, SegmentTypes, Verdicts!TypeOK
<1>2. Verdicts!CleanCredit
  BY DEF SegmentsInv, SegmentTypes, CleanBehind, CreditTrue, Unsettled, Verdicts!CleanCredit,
     Verdicts!Ids
<1> QED BY <1>1, <1>2

----------------------------------------------------------------------------
(* Received messages (InboundSms).                                          *)

Senders == { p.from : p \in Received!Pairs } \cup {""}
Texts   == { p.text : p \in Received!Pairs } \cup {""}
States  == [ role : {"from"}, value : Senders, old : BOOLEAN ]
             \cup [ role : {"text"}, value : Texts, old : BOOLEAN ]

\* A text as the driver published it, and the sender it will be paired with.
NewText(i)  == air[i].role = "text" /\ ~air[i].old
SenderOf(i) == IF i = 1 THEN known.from ELSE air[i - 1].value
PairAt(i)   == [ from |-> SenderOf(i), text |-> air[i].value ]

\* Sender and text of a message travel next to each other.
Mates ==
  \A i \in DOMAIN air :
    /\ air[i].role = "from" /\ ~air[i].old => i + 1 \in DOMAIN air /\ NewText(i + 1)
    /\ NewText(i) => PairAt(i) \in Received!Pairs
    /\ NewText(i) /\ i > 1 => air[i - 1].role = "from" /\ ~air[i - 1].old

\* What the ESP repeats arrives while the add-on does not listen yet.
Cold == ~warm => repeat = {} /\ \A i \in DOMAIN air : ~air[i].old

UnderWay(p) == { i \in DOMAIN air : NewText(i) /\ PairAt(i) = p }

\* Every event, and every text under way that may become one, was published.
Accounted ==
  /\ \A p \in Received!Pairs : announced[p] + Cardinality(UnderWay(p)) <= published[p]
  /\ \A p \in Received!Mixed \ Received!Pairs : announced[p] = 0

InboxTyped ==
  /\ Inbox \in Seq(Received!Pairs)
  /\ \A p \in Received!Pairs : p = [ from |-> p.from, text |-> p.text ]

ReceivedTypes ==
  /\ arrived \in 0 .. Len(Inbox) /\ read \in 0 .. arrived /\ deleting \in BOOLEAN
  /\ displayed \in Received!Mixed /\ known \in Received!Mixed /\ lastSig \in Received!Mixed
  /\ repeat \subseteq Received!SmsRoles /\ linked \in BOOLEAN /\ warm \in BOOLEAN
  /\ air \in Seq(States)
  /\ published \in [ Received!Pairs -> Nat ] /\ announced \in [ Received!Mixed -> Nat ]
  /\ losses \in 0 .. MaxLosses
  /\ deleting => read < arrived

ReceivedInv == ReceivedTypes /\ Mates /\ Cold /\ Accounted

LEMMA MixedIs ==
  ASSUME InboxTyped
  PROVE  /\ Received!Pairs \subseteq Received!Mixed /\ Received!Empty \in Received!Mixed
         /\ \A p \in Received!Mixed : p.from \in Senders /\ p.text \in Texts
         /\ \A f \in Senders, t \in Texts : [ from |-> f, text |-> t ] \in Received!Mixed
         /\ \A p \in Received!Mixed : p = [ from |-> p.from, text |-> p.text ]
<1>1. Received!Mixed = [ from : Senders, text : Texts ]
  BY DEF Received!Mixed, Senders, Texts
<1>2. "" \in Senders /\ "" \in Texts
  BY DEF Senders, Texts
<1>3. ASSUME NEW p \in Received!Pairs PROVE p \in Received!Mixed
  <2>1. p.from \in Senders /\ p.text \in Texts /\ p = [ from |-> p.from, text |-> p.text ]
    BY DEF InboxTyped, Senders, Texts
  <2> QED BY <1>1, <2>1
<1>4. Received!Empty \in Received!Mixed
  BY <1>1, <1>2 DEF Received!Empty
<1> QED BY <1>1, <1>3, <1>4

LEMMA UnderWayFinite ==
  ASSUME ReceivedTypes, NEW p
  PROVE  IsFiniteSet(UnderWay(p)) /\ Cardinality(UnderWay(p)) \in Nat
<1>1. DOMAIN air = 1 .. Len(air) /\ Len(air) \in Nat
  BY DEF ReceivedTypes
<1>2. IsFiniteSet(DOMAIN air)
  BY <1>1, FS_Interval
<1>3. IsFiniteSet(UnderWay(p))
  BY <1>2, FS_Subset DEF UnderWay
<1> QED BY <1>3, FS_CardinalityType

LEMMA ReceivedInit == ASSUME InboxTyped, MaxLosses \in Nat, Received!Init PROVE ReceivedInv
<1>1. air \in Seq(States) /\ DOMAIN air = {} /\ Len(Inbox) \in Nat
  <2>1. air = <<>>
    BY DEF Received!Init
  <2>2. <<>> \in Seq(States) /\ DOMAIN <<>> = {}
    OBVIOUS
  <2> QED BY <2>1, <2>2 DEF InboxTyped
<1>2. displayed \in Received!Mixed /\ known \in Received!Mixed /\ lastSig \in Received!Mixed
  BY MixedIs DEF Received!Init
<1>3. published \in [ Received!Pairs -> Nat ] /\ announced \in [ Received!Mixed -> Nat ]
  BY DEF Received!Init
<1>4. arrived \in 0 .. Len(Inbox) /\ read \in 0 .. arrived /\ losses \in 0 .. MaxLosses
  BY <1>1 DEF Received!Init
<1>5. ReceivedTypes
  BY <1>1, <1>2, <1>3, <1>4 DEF Received!Init, ReceivedTypes
<1>6. Mates /\ Cold
  BY <1>1 DEF Received!Init, Mates, Cold
<1>7. \A p : UnderWay(p) = {}
  BY <1>1 DEF UnderWay
<1>8. Accounted
  <2>1. \A p \in Received!Pairs : announced[p] = 0 /\ published[p] = 0
          /\ Cardinality(UnderWay(p)) = 0
    BY <1>7, MixedIs, FS_EmptySet DEF Received!Init
  <2> QED BY <2>1 DEF Received!Init, Accounted
<1> QED BY <1>5, <1>6, <1>8 DEF ReceivedInv

\* Steps that leave what is under way, and what it means, as it is.
LEMMA ReceivedFrame ==
  ASSUME Mates, Accounted, UNCHANGED <<air, known, published, announced>>
  PROVE  Mates' /\ Accounted'
<1>1. \A p : UnderWay(p)' = UnderWay(p)
  BY DEF UnderWay, NewText, PairAt, SenderOf
<1> QED BY <1>1 DEF Mates, Accounted, NewText, PairAt, SenderOf

\* Nothing is under way on a connection that was cut.
LEMMA CutStep ==
  ASSUME InboxTyped, ReceivedTypes, Accounted, MaxLosses \in Nat, Received!Cut,
           UNCHANGED <<known, published, announced>>
  PROVE  /\ air' \in Seq(States) /\ repeat' \subseteq Received!SmsRoles /\ linked' \in BOOLEAN
              /\ warm' \in BOOLEAN
         /\ losses' \in 0 .. MaxLosses /\ Mates' /\ Cold' /\ Accounted'
<1>1. air' \in Seq(States) /\ DOMAIN air' = {}
  <2>1. air' = <<>>
    BY DEF Received!Cut
  <2>2. <<>> \in Seq(States) /\ DOMAIN <<>> = {}
    OBVIOUS
  <2> QED BY <2>1, <2>2
<1>2. Mates' /\ Cold'
  BY <1>1 DEF Received!Cut, Mates, Cold
<1>3. \A p : UnderWay(p)' = {}
  BY <1>1 DEF UnderWay
<1>4. ASSUME NEW p \in Received!Pairs PROVE announced[p] + 0 <= published[p]
  <2>1. announced[p] + Cardinality(UnderWay(p)) <= published[p]
    BY DEF Accounted
  <2>2. Cardinality(UnderWay(p)) \in Nat /\ announced[p] \in Nat /\ published[p] \in Nat
    BY UnderWayFinite, MixedIs DEF ReceivedTypes
  <2> QED BY <2>1, <2>2
<1>5. Accounted'
  BY <1>3, <1>4, FS_EmptySet DEF Accounted
<1>6. losses' \in 0 .. MaxLosses /\ repeat' \subseteq Received!SmsRoles /\ linked' \in BOOLEAN
        /\ warm' \in BOOLEAN
  <2>1. losses \in 0 .. MaxLosses /\ losses < MaxLosses /\ losses' = losses + 1
    BY DEF Received!Cut, ReceivedTypes
  <2>2. losses' \in 0 .. MaxLosses
    BY <2>1
  <2>3. repeat' = {} /\ linked' = FALSE /\ warm' = FALSE
    BY DEF Received!Cut
  <2> QED BY <2>2, <2>3
<1> QED BY <1>1, <1>2, <1>5, <1>6

LEMMA PublishStep == ASSUME InboxTyped, ReceivedInv, Received!Publish PROVE ReceivedInv'
<1> USE DEF ReceivedInv
<1> DEFINE m == Inbox[read + 1]
           s == Received!State("from", m.from, FALSE)
           t == Received!State("text", m.text, FALSE)
<1>0. PICK n \in Nat : n = Len(air)
  BY DEF ReceivedTypes
<1>1. read + 1 \in DOMAIN Inbox /\ m \in Received!Pairs
  BY DEF Received!Publish, ReceivedTypes, InboxTyped
<1>2. /\ m \in Received!Mixed /\ m = [ from |-> m.from, text |-> m.text ]
      /\ m.from \in Senders /\ m.text \in Texts
  BY <1>1, MixedIs DEF InboxTyped
<1>3. /\ s \in States /\ s.role = "from" /\ s.value = m.from /\ s.old = FALSE
      /\ t \in States /\ t.role = "text" /\ t.value = m.text /\ t.old = FALSE
  BY <1>2 DEF Received!State, States
<1>4. /\ displayed' = m /\ published' = [ published EXCEPT ![m] = @ + 1 ]
      /\ air' = (IF ~linked THEN air ELSE air \o <<s, t>>) /\ deleting' = TRUE
      /\ UNCHANGED <<arrived, read, known, warm, lastSig, repeat, linked, announced, losses>>
      /\ read < arrived
  BY DEF Received!Publish, Received!addon
<1> HIDE DEF m, s, t
<1>5. /\ published' \in [ Received!Pairs -> Nat ] /\ published'[m] = published[m] + 1
      /\ \A p \in Received!Pairs \ {m} : published'[p] = published[p]
  BY <1>1, <1>4 DEF ReceivedTypes
<1>6. CASE ~linked
  <2>1. air' = air
    BY <1>4, <1>6
  <2>2. ReceivedTypes'
    BY <1>2, <1>4, <1>5, <2>1 DEF ReceivedTypes
  <2>3. \A p : UnderWay(p)' = UnderWay(p)
    BY <1>4, <2>1 DEF UnderWay, NewText, PairAt, SenderOf
  <2>4. Mates' /\ Cold'
    BY <1>4, <2>1 DEF Mates, Cold, NewText, PairAt, SenderOf
  <2>5. Accounted'
    <3>1. ASSUME NEW p \in Received!Pairs PROVE announced[p] + Cardinality(UnderWay(p)) <=
                   published'[p]
      <4>1. /\ announced[p] + Cardinality(UnderWay(p)) <= published[p] /\ published[p] \in Nat
            /\ Cardinality(UnderWay(p)) \in Nat /\ announced[p] \in Nat
        BY MixedIs, UnderWayFinite DEF Accounted, ReceivedTypes
      <4> QED BY <1>5, <4>1
    <3> QED BY <1>4, <2>3, <3>1 DEF Accounted
  <2> QED BY <2>2, <2>4, <2>5
<1>7. CASE linked
  <2>1. /\ air \in Seq(States) /\ air' \in Seq(States) /\ Len(air') = n + 2
        /\ air'[n + 1] = s /\ air'[n + 2] = t /\ \A i \in 1 .. n : air'[i] = air[i]
        /\ DOMAIN air = 1 .. n /\ DOMAIN air' = 1 .. n + 2
    <3>1. air \in Seq(States) /\ air' = air \o <<s, t>>
      BY <1>4, <1>7 DEF ReceivedTypes
    <3>2. <<s, t>> \in Seq(States) /\ Len(<<s, t>>) = 2 /\ <<s, t>>[1] = s /\ <<s, t>>[2] = t
      BY <1>3
    <3> QED BY <1>0, <3>1, <3>2
  <2>2. ReceivedTypes'
    BY <1>2, <1>4, <1>5, <2>1 DEF ReceivedTypes
  <2>3. \A i \in 1 .. n : (NewText(i)' <=> NewText(i)) /\ PairAt(i)' = PairAt(i)
    BY <1>4, <2>1 DEF NewText, PairAt, SenderOf
  <2>4. ~NewText(n + 1)' /\ NewText(n + 2)'
    BY <1>3, <2>1 DEF NewText
  <2>a. PairAt(n + 2)' = m
    <3>1. SenderOf(n + 2)' = m.from
      BY <1>3, <2>1 DEF SenderOf
    <3> QED BY <1>2, <1>3, <2>1, <3>1 DEF PairAt
  <2>5. Mates'
    <3> SUFFICES ASSUME NEW i \in 1 .. n + 2
                 PROVE  /\ air'[i].role = "from" /\ ~air'[i].old => i + 1 \in DOMAIN air'
                             /\ NewText(i + 1)'
                        /\ NewText(i)' => PairAt(i)' \in Received!Pairs
                        /\ NewText(i)' /\ i > 1 => air'[i - 1].role = "from"
                             /\ ~air'[i - 1].old
      BY <2>1 DEF Mates
    <3>1. CASE i \in 1 .. n
      <4>1. /\ air[i].role = "from" /\ ~air[i].old => i + 1 \in 1 .. n /\ NewText(i + 1)
            /\ NewText(i) => PairAt(i) \in Received!Pairs
            /\ NewText(i) /\ i > 1 => air[i - 1].role = "from" /\ ~air[i - 1].old
        BY <2>1, <3>1 DEF Mates
      <4> QED BY <2>1, <2>3, <3>1, <4>1
    <3>2. CASE i = n + 1
      BY <1>3, <2>1, <2>4, <3>2
    <3>3. CASE i = n + 2
      BY <1>1, <1>3, <2>1, <2>4, <2>a, <3>3
    <3> QED BY <2>1, <3>1, <3>2, <3>3
  <2>6. Cold'
    BY <1>3, <1>4, <2>1 DEF Cold
  <2>7. ASSUME NEW p \in Received!Pairs
        PROVE  announced[p] + Cardinality(UnderWay(p)') <= published'[p]
    <3>1. /\ announced[p] + Cardinality(UnderWay(p)) <= published[p] /\ published[p] \in Nat
          /\ Cardinality(UnderWay(p)) \in Nat /\ announced[p] \in Nat
               /\ IsFiniteSet(UnderWay(p))
      BY MixedIs, UnderWayFinite DEF Accounted, ReceivedTypes
    <3>2. CASE p = m
      <4>1. UnderWay(p)' = UnderWay(p) \cup {n + 2} /\ n + 2 \notin UnderWay(p)
        BY <2>1, <2>3, <2>4, <2>a, <3>2 DEF UnderWay
      <4>2. Cardinality(UnderWay(p)') = Cardinality(UnderWay(p)) + 1
        BY <3>1, <4>1, FS_AddElement
      <4>3. published'[p] = published[p] + 1
        BY <1>5, <3>2
      <4> HIDE DEF UnderWay
      <4> QED BY <3>1, <4>2, <4>3
    <3>3. CASE p # m
      <4>1. UnderWay(p)' = UnderWay(p)
        BY <2>1, <2>3, <2>4, <2>a, <3>3 DEF UnderWay
      <4> QED BY <1>5, <3>1, <3>3, <4>1
    <3> QED BY <3>2, <3>3
  <2>8. Accounted'
    BY <1>4, <2>7 DEF Accounted
  <2> QED BY <2>2, <2>5, <2>6, <2>8
<1> QED BY <1>6, <1>7 DEF ReceivedTypes

LEMMA RepeatStep == ASSUME InboxTyped, ReceivedInv, NEW role \in Received!SmsRoles,
  Received!Repeat(role) PROVE ReceivedInv'
<1> USE DEF ReceivedInv
<1> DEFINE s == Received!State(role, displayed[role], TRUE)
<1>0. PICK n \in Nat : n = Len(air)
  BY DEF ReceivedTypes
<1>1. s \in States /\ s.old = TRUE
  <2>1. displayed.from \in Senders /\ displayed.text \in Texts
    BY MixedIs DEF ReceivedTypes
  <2>2. CASE role = "from"
    BY <2>1, <2>2 DEF Received!State, States
  <2>3. CASE role = "text"
    BY <2>1, <2>3 DEF Received!State, States
  <2> QED BY <2>2, <2>3 DEF Received!SmsRoles
<1>2. /\ role \in repeat /\ repeat' = repeat \ {role}
           /\ air' = (IF displayed = Received!Empty THEN air ELSE Append(air, s))
      /\ UNCHANGED <<arrived, read, deleting, displayed, known, warm, lastSig, linked,
           published, announced, losses>>
  BY DEF Received!Repeat, Received!device, Received!addon
<1> HIDE DEF s
<1>3. warm
  BY <1>2 DEF Cold
<1>4. CASE displayed = Received!Empty
  <2>1. Mates' /\ Accounted'
    BY <1>2, <1>4, ReceivedFrame
  <2> QED BY <1>2, <1>3, <1>4, <2>1 DEF ReceivedTypes, Cold
<1>5. CASE displayed # Received!Empty
  <2>1. /\ air \in Seq(States) /\ air' \in Seq(States) /\ Len(air') = n + 1
        /\ air'[n + 1] = s /\ \A i \in 1 .. n : air'[i] = air[i]
        /\ DOMAIN air = 1 .. n /\ DOMAIN air' = 1 .. n + 1
    BY <1>0, <1>1, <1>2, <1>5 DEF ReceivedTypes
  <2>2. \A i \in 1 .. n : (NewText(i)' <=> NewText(i)) /\ PairAt(i)' = PairAt(i)
    BY <1>2, <2>1 DEF NewText, PairAt, SenderOf
  <2>3. ~NewText(n + 1)'
    BY <1>1, <2>1 DEF NewText
  <2>4. Mates'
    <3> SUFFICES ASSUME NEW i \in 1 .. n + 1
                 PROVE  /\ air'[i].role = "from" /\ ~air'[i].old => i + 1 \in DOMAIN air'
                             /\ NewText(i + 1)'
                        /\ NewText(i)' => PairAt(i)' \in Received!Pairs
                        /\ NewText(i)' /\ i > 1 => air'[i - 1].role = "from"
                             /\ ~air'[i - 1].old
      BY <2>1 DEF Mates
    <3>1. CASE i \in 1 .. n
      <4>1. /\ air[i].role = "from" /\ ~air[i].old => i + 1 \in 1 .. n /\ NewText(i + 1)
            /\ NewText(i) => PairAt(i) \in Received!Pairs
            /\ NewText(i) /\ i > 1 => air[i - 1].role = "from" /\ ~air[i - 1].old
        BY <2>1, <3>1 DEF Mates
      <4> QED BY <2>1, <2>2, <3>1, <4>1
    <3>2. CASE i = n + 1
      BY <1>1, <2>1, <2>3, <3>2
    <3> QED BY <2>1, <3>1, <3>2
  <2>5. \A p : UnderWay(p)' = UnderWay(p)
    BY <2>1, <2>2, <2>3 DEF UnderWay
  <2>6. Accounted'
    BY <1>2, <2>5 DEF Accounted
  <2> QED BY <1>2, <1>3, <2>1, <2>4, <2>6 DEF ReceivedTypes, Cold
<1> QED BY <1>4, <1>5

LEMMA ReceivedReceiveStep == ASSUME InboxTyped, ReceivedInv,
  Received!Receive PROVE ReceivedInv'
<1> USE DEF ReceivedInv
<1> DEFINE h == Head(air)
           pair == [ known EXCEPT ![h.role] = h.value ]
           news == ~warm /\ h.role = "text" /\ pair.from # "" /\ pair # lastSig
<1>0. PICK n \in Nat : n = Len(air)
  BY DEF ReceivedTypes
<1>1. /\ air \in Seq(States) /\ air # <<>> /\ air' = Tail(air)
      /\ known' = pair /\ lastSig' = (IF news THEN pair ELSE lastSig)
      /\ announced' = (IF news THEN [ announced EXCEPT ![pair] = @ + 1 ] ELSE announced)
      /\ UNCHANGED <<arrived, read, deleting, displayed, warm, repeat, linked, published,
           losses>>
  BY DEF Received!Receive, ReceivedTypes, Received!device
<1>b. air \in Seq(States) /\ air # <<>> /\ air' = Tail(air)
  BY <1>1
<1> HIDE DEF pair, news
<1>2. /\ n # 0 /\ air' \in Seq(States) /\ Len(air') = n - 1 /\ h = air[1] /\ h \in States
      /\ DOMAIN air = 1 .. n /\ DOMAIN air' = 1 .. n - 1
      /\ \A i \in 1 .. n - 1 : air'[i] = air[i + 1]
  <2>1. n # 0 /\ DOMAIN air = 1 .. n /\ h = air[1]
    BY <1>0, <1>b
  <2>2. h \in States /\ air' \in Seq(States)
    BY <1>b
  <2>3. Len(air') = n - 1 /\ \A i \in 1 .. n - 1 : air'[i] = air[i + 1]
    BY <1>0, <1>b, <2>1
  <2>4. DOMAIN air' = 1 .. n - 1
    BY <2>2, <2>3
  <2> QED BY <2>1, <2>2, <2>3, <2>4
<1>3. /\ pair \in Received!Mixed
      /\ h.role = "from" => pair.from = h.value
      /\ h.role = "text" =>
           pair = [ from |-> known.from, text |-> h.value ] /\ pair.from = known.from
      /\ h.role \in {"from", "text"}
  <2>1. known \in Received!Mixed /\ known = [ from |-> known.from, text |-> known.text ]
        /\ known.from \in Senders /\ known.text \in Texts
    BY MixedIs DEF ReceivedTypes
  <2>2. CASE h.role = "from" /\ h.value \in Senders
    <3>1. pair = [ known EXCEPT !.from = h.value ]
      BY <2>2 DEF pair
    <3>2. pair = [ from |-> h.value, text |-> known.text ]
      BY <2>1, <3>1
    <3> QED BY <2>1, <2>2, <3>2, MixedIs
  <2>3. CASE h.role = "text" /\ h.value \in Texts
    <3>1. pair = [ known EXCEPT !.text = h.value ]
      BY <2>3 DEF pair
    <3>2. pair = [ from |-> known.from, text |-> h.value ]
      BY <2>1, <3>1
    <3> QED BY <2>1, <2>3, <3>2, MixedIs
  <2> QED BY <1>2, <2>2, <2>3 DEF States
<1> HIDE DEF h
<1>4. news => NewText(1) /\ PairAt(1) = pair /\ pair \in Received!Pairs
  <2> SUFFICES ASSUME news PROVE NewText(1) /\ PairAt(1) = pair /\ pair \in Received!Pairs
    OBVIOUS
  <2>a. 1 \in DOMAIN air
    BY <1>2
  <2>1. 1 \in DOMAIN air /\ NewText(1)
    BY <1>2, <2>a DEF news, NewText, Cold
  <2>2. PairAt(1) = pair
    BY <1>2, <1>3 DEF news, PairAt, SenderOf
  <2> QED BY <2>1, <2>2 DEF Mates
<1>5. announced' \in [ Received!Mixed -> Nat ] /\ lastSig' \in Received!Mixed
      /\ \A p \in Received!Mixed : announced'[p] = IF news
           /\ p = pair THEN announced[p] + 1 ELSE announced[p]
  <2>1. announced \in [ Received!Mixed -> Nat ] /\ lastSig \in Received!Mixed
    BY DEF ReceivedTypes
  <2> QED BY <1>1, <1>3, <2>1
<1>6. ReceivedTypes'
  BY <1>1, <1>2, <1>3, <1>5 DEF ReceivedTypes
<1>7. \A i \in 1 .. n - 1 : NewText(i)' <=> NewText(i + 1)
  BY <1>2 DEF NewText
<1>8. ASSUME NEW i \in 1 .. n - 1, NewText(i)' PROVE PairAt(i)' = PairAt(i + 1)
  <2>1. i + 1 \in DOMAIN air /\ NewText(i + 1) /\ i + 1 > 1
    BY <1>2, <1>7, <1>8
  <2>2. air[i].role = "from"
    BY <2>1 DEF Mates
  <2>3. SenderOf(i + 1) = air[i].value
    BY <2>1 DEF SenderOf
  <2>4. SenderOf(i)' = air[i].value
    <3>1. CASE i = 1
      BY <1>1, <1>2, <1>3, <2>2, <3>1 DEF SenderOf
    <3>2. CASE i # 1
      <4>1. i - 1 \in 1 .. n - 1 /\ (i - 1) + 1 = i
        BY <1>2, <3>2
      <4> QED BY <1>2, <3>2, <4>1 DEF SenderOf
    <3> QED BY <3>1, <3>2
  <2> QED BY <1>2, <2>3, <2>4 DEF PairAt
<1>9. Mates'
  <2> SUFFICES ASSUME NEW i \in 1 .. n - 1
               PROVE  /\ air'[i].role = "from" /\ ~air'[i].old => i + 1 \in DOMAIN air'
                           /\ NewText(i + 1)'
                      /\ NewText(i)' => PairAt(i)' \in Received!Pairs
                      /\ NewText(i)' /\ i > 1 => air'[i - 1].role = "from" /\ ~air'[i - 1].old
    BY <1>2 DEF Mates
  <2>1. i + 1 \in DOMAIN air /\ air'[i] = air[i + 1]
    BY <1>2
  <2>2. /\ air[i + 1].role = "from" /\ ~air[i + 1].old => (i + 1) + 1 \in DOMAIN air
             /\ NewText((i + 1) + 1)
        /\ NewText(i + 1) => PairAt(i + 1) \in Received!Pairs
        /\ NewText(i + 1) /\ i + 1 > 1 => air[(i + 1) - 1].role = "from"
             /\ ~air[(i + 1) - 1].old
    BY <2>1 DEF Mates
  <2>3. air'[i].role = "from" /\ ~air'[i].old => i + 1 \in DOMAIN air' /\ NewText(i + 1)'
    <3>1. (i + 1) + 1 \in DOMAIN air => i + 1 \in 1 .. n - 1
      BY <1>2
    <3> QED BY <1>2, <1>7, <2>1, <2>2, <3>1
  <2>4. NewText(i)' => PairAt(i)' \in Received!Pairs
    BY <1>7, <1>8, <2>2
  <2>5. NewText(i)' /\ i > 1 => air'[i - 1].role = "from" /\ ~air'[i - 1].old
    <3>1. i > 1 => i - 1 \in 1 .. n - 1 /\ (i - 1) + 1 = i /\ (i + 1) - 1 = i
      BY <1>2
    <3> QED BY <1>2, <1>7, <2>2, <3>1
  <2> QED BY <2>3, <2>4, <2>5
<1>10. Cold'
  BY <1>1, <1>2 DEF Cold
\* The texts still under way are the ones that were, without the one received.
<1>11. ASSUME NEW p \in Received!Pairs
       PROVE  announced'[p] + Cardinality(UnderWay(p)') <= published[p]
  <2> DEFINE S == UnderWay(p)'
             T == UnderWay(p) \ {1}
             f == [ i \in S |-> i + 1 ]
  <2>1. /\ announced[p] + Cardinality(UnderWay(p)) <= published[p] /\ published[p] \in Nat
             /\ p \in Received!Mixed
        /\ Cardinality(UnderWay(p)) \in Nat /\ announced[p] \in Nat
             /\ IsFiniteSet(UnderWay(p))
    BY MixedIs, UnderWayFinite DEF Accounted, ReceivedTypes
  <2>2. IsFiniteSet(T)
          /\ Cardinality(T) = IF 1 \in UnderWay(p) THEN Cardinality(UnderWay(p)) - 1
                                                               ELSE Cardinality(UnderWay(p))
    BY <2>1, FS_RemoveElement
  <2>3. \A i \in S : i \in 1 .. n - 1 /\ i + 1 \in T
    <3> SUFFICES ASSUME NEW i \in S PROVE i \in 1 .. n - 1 /\ i + 1 \in T
      OBVIOUS
    <3>1. i \in 1 .. n - 1 /\ NewText(i)' /\ PairAt(i)' = p
      BY <1>2 DEF UnderWay
    <3>2. NewText(i + 1) /\ PairAt(i + 1) = p /\ i + 1 \in DOMAIN air /\ i + 1 # 1
      BY <1>2, <1>7, <1>8, <3>1
    <3> QED BY <3>1, <3>2 DEF UnderWay
  <2>4. f \in Injection(S, T)
    <3> HIDE DEF T, S
    <3>1. f \in [ S -> T ]
      BY <2>3
    <3>2. \A a, b \in S : f[a] = f[b] => a = b
      BY <2>3
    <3> QED BY <3>1, <3>2 DEF Injection, IsInjective
  <2>5. IsFiniteSet(S) /\ Cardinality(S) <= Cardinality(T)
    <3> HIDE DEF T, S, f
    <3> QED BY <2>2, <2>4, FS_Injection
  <2>6. Cardinality(S) \in Nat
    BY <2>5, FS_CardinalityType
  <2>7. news /\ p = pair => 1 \in UnderWay(p)
    BY <1>2, <1>4 DEF UnderWay
  <2> QED BY <1>5, <2>1, <2>2, <2>5, <2>6, <2>7
<1>12. \A p \in Received!Mixed \ Received!Pairs : announced'[p] = 0
  BY <1>4, <1>5 DEF Accounted
<1>13. Accounted'
  BY <1>1, <1>11, <1>12 DEF Accounted
<1> QED BY <1>6, <1>9, <1>10, <1>13

\* The steps that leave the connection alone, or only change what is listened to.
LEMMA QuietStep ==
  ASSUME InboxTyped, MaxLosses \in Nat, ReceivedInv,
         Received!Arrive \/ Received!Delete \/ Received!Connect \/ Received!WarmUpEnds
           \/ Received!DebounceEnds
  PROVE  ReceivedInv'
<1> USE DEF ReceivedInv
<1>1. Mates' /\ Accounted'
  BY ReceivedFrame DEF Received!Arrive, Received!Delete, Received!Connect,
     Received!WarmUpEnds, Received!DebounceEnds, Received!addon, Received!link,
     Received!device
<1>2. Len(Inbox) \in Nat
  BY DEF InboxTyped
<1>3. CASE Received!Arrive
  BY <1>1, <1>2, <1>3 DEF Received!Arrive, ReceivedTypes, Cold, Received!addon, Received!link
<1>4. CASE Received!Delete
  <2>0. read < arrived
    BY <1>4 DEF Received!Delete, ReceivedTypes
  <2>1. read' \in 0 .. arrived /\ losses' \in 0 .. MaxLosses
    BY <1>2, <1>4, <2>0 DEF Received!Delete, ReceivedTypes
  <2> QED BY <1>1, <1>4, <2>1 DEF Received!Delete, ReceivedTypes, Cold, Received!addon,
        Received!link
<1>5. CASE Received!Connect
  BY <1>1, <1>5 DEF Received!Connect, Received!WarmUp, ReceivedTypes, Cold, Received!device
<1>6. CASE Received!WarmUpEnds
  BY <1>1, <1>6 DEF Received!WarmUpEnds, ReceivedTypes, Cold, Received!device, Received!link
<1>7. CASE Received!DebounceEnds
  BY <1>1, <1>7, MixedIs DEF Received!DebounceEnds, ReceivedTypes, Cold, Received!device,
     Received!link
<1> QED BY <1>3, <1>4, <1>5, <1>6, <1>7

LEMMA ReceivedStep ==
  ASSUME InboxTyped, MaxLosses \in Nat, ReceivedInv, Received!Next PROVE ReceivedInv'
<1>1. ASSUME NEW r \in Received!SmsRoles, Received!Repeat(r) PROVE ReceivedInv'
  BY <1>1, RepeatStep
<1>2. CASE Received!Disconnect
  BY <1>2, CutStep DEF Received!Disconnect, ReceivedInv, ReceivedTypes, Received!device
<1>3. CASE Received!Reboot
  BY <1>3, CutStep, MixedIs DEF Received!Reboot, ReceivedInv, ReceivedTypes
<1> QED BY <1>1, <1>2, <1>3, QuietStep, PublishStep, ReceivedReceiveStep DEF Received!Next

LEMMA ReceivedUnchanged == ReceivedInv /\ UNCHANGED Received!vars => ReceivedInv'
<1> SUFFICES ASSUME ReceivedInv, UNCHANGED Received!vars PROVE ReceivedInv'
  OBVIOUS
<1>1. UNCHANGED <<arrived, read, deleting, displayed, known, warm, lastSig, repeat, linked,
        air, published, announced, losses>>
  BY DEF Received!vars, Received!device, Received!addon, Received!link
<1> QED BY <1>1, ReceivedFrame DEF ReceivedInv, ReceivedTypes, Cold

LEMMA ReceivedTrue == ASSUME InboxTyped,
  ReceivedInv PROVE Received!TypeOK /\ Received!InboundTrue
<1>1. \A i \in DOMAIN air : air[i].role \in Received!SmsRoles
  <2>1. \A x \in States : x.role \in Received!SmsRoles
    BY DEF States, Received!SmsRoles
  <2> QED BY <2>1 DEF ReceivedInv, ReceivedTypes
<1>2. Received!TypeOK
  BY <1>1 DEF ReceivedInv, ReceivedTypes, Received!TypeOK
<1>3. ASSUME NEW p \in Received!Mixed,
               announced[p] > 0 PROVE p \in Received!Pairs /\ announced[p] <= published[p]
  <2>1. p \in Received!Pairs
    BY <1>3 DEF ReceivedInv, Accounted
  <2>2. /\ announced[p] + Cardinality(UnderWay(p)) <= published[p] /\ published[p] \in Nat
        /\ Cardinality(UnderWay(p)) \in Nat /\ announced[p] \in Nat
    BY <2>1, UnderWayFinite DEF ReceivedInv, Accounted, ReceivedTypes
  <2> QED BY <2>1, <2>2
<1> QED BY <1>2, <1>3 DEF Received!InboundTrue
----------------------------------------------------------------------------
(* The SMS job, from the proofs about Outbox.                              *)

OP == INSTANCE OutboxProofs WITH
  Jobs <- SmsJobs, Recipients <- SmsRecipients, StoreFails <- SmsStoreFails, lock <- mutex

\* Both instances of Outbox have the same steps.
LEMMA OrdersStepIs == Orders!Next => OP!Next
<1>1. \A j \in SmsJobs : Orders!Enqueue(j) => OP!Enqueue(j)
  BY DEF OP!Enqueue, Orders!Enqueue, OP!Running, Orders!Running, OP!memory, Orders!memory,
      OP!history, Orders!history
<1>2. \A j \in SmsJobs : Orders!Due(j) => OP!Due(j)
  BY DEF OP!Due, Orders!Due, OP!memory, Orders!memory, OP!history, Orders!history
<1>3. \A t \in SmsJobs \cup {All} : Orders!CancelSignal(t) => OP!CancelSignal(t)
  BY DEF OP!CancelSignal, Orders!CancelSignal, OP!Running, Orders!Running, OP!history,
      Orders!history
<1>4. \A a : Orders!Confirm(a) => OP!Confirm(a)
  BY DEF OP!Confirm, Orders!Confirm, OP!Advance, Orders!Advance, OP!RecipientOf,
      Orders!RecipientOf
<1>5. Orders!Claim => OP!Claim
  BY DEF OP!Claim, Orders!Claim, OP!Claimable, Orders!Claimable, OP!Free, Orders!Free,
      OP!FirstPart, Orders!FirstPart, OP!history, Orders!history
<1>6. Orders!Start => OP!Start
  BY DEF OP!Start, Orders!Start, OP!SendNext, Orders!SendNext, OP!End, Orders!End,
      OP!Outcome, Orders!Outcome, OP!Size, Orders!Size
<1>7. Orders!Acquire => OP!Acquire
  BY DEF OP!Acquire, Orders!Acquire, OP!SendNext, Orders!SendNext, OP!End, Orders!End,
      OP!Outcome, Orders!Outcome, OP!Size, Orders!Size
<1>8. Orders!Interrupt => OP!Interrupt
  BY DEF OP!Interrupt, Orders!Interrupt, OP!End, Orders!End
<1>9. Orders!SaveCheckpoint => OP!SaveCheckpoint
  BY DEF OP!SaveCheckpoint, Orders!SaveCheckpoint, OP!Aborts, Orders!Aborts, OP!Saved,
      Orders!Saved, OP!Terminal, Orders!Terminal, OP!Outcome, Orders!Outcome, OP!Size,
      Orders!Size, OP!history, Orders!history
<1>10. Orders!Delay => OP!Delay
  BY DEF OP!Delay, Orders!Delay, OP!SendNext, Orders!SendNext, OP!End, Orders!End,
      OP!Outcome, Orders!Outcome, OP!Size, Orders!Size
<1>11. Orders!Finish => OP!Finish
  BY DEF OP!Finish, Orders!Finish, OP!Retried, Orders!Retried, OP!Updated, Orders!Updated,
      OP!history, Orders!history
<1>12. Orders!Cleanup => OP!Cleanup
  BY DEF OP!Cleanup, Orders!Cleanup, OP!Free, Orders!Free, OP!FirstPart, Orders!FirstPart,
      OP!history, Orders!history
<1>13. Orders!Die => OP!Die
  BY DEF OP!Die, Orders!Die, OP!history, Orders!history
<1>14. Orders!CancelList => OP!CancelList
  BY DEF OP!CancelList, Orders!CancelList, OP!Matches, Orders!Matches, OP!Terminal,
      Orders!Terminal, OP!history, Orders!history
<1>15. Orders!CancelMark => OP!CancelMark
  BY DEF OP!CancelMark, Orders!CancelMark, OP!history, Orders!history
<1>16. Orders!CancelStore => OP!CancelStore
  BY DEF OP!CancelStore, Orders!CancelStore, OP!Matches, Orders!Matches, OP!Terminal,
      Orders!Terminal, OP!history, Orders!history
<1>17. Orders!CancelReply => OP!CancelReply
  BY DEF OP!CancelReply, Orders!CancelReply, OP!NoCancel, Orders!NoCancel
<1>18. Orders!CancelError => OP!CancelError
  BY DEF OP!CancelError, Orders!CancelError, OP!NoCancel, Orders!NoCancel, OP!history,
      Orders!history
<1>19. Orders!OtherJob => OP!OtherJob
  BY DEF OP!OtherJob, Orders!OtherJob, OP!Running, Orders!Running, OP!history,
      Orders!history
<1>20. Orders!OtherEnds => OP!OtherEnds
  BY DEF OP!OtherEnds, Orders!OtherEnds, OP!history, Orders!history
<1>21. Orders!Connection => OP!Connection
  BY DEF OP!Connection, Orders!Connection, OP!Running, Orders!Running, OP!memory,
      Orders!memory, OP!history, Orders!history
<1>22. Orders!Stop => OP!Stop
  BY DEF OP!Stop, Orders!Stop, OP!Running, Orders!Running, OP!Free, Orders!Free,
      OP!FirstPart, Orders!FirstPart, OP!NoCancel, Orders!NoCancel, OP!history,
      Orders!history
<1>23. Orders!Restart => OP!Restart
  BY DEF OP!Restart, Orders!Restart, OP!Running, Orders!Running, OP!Interrupted,
      Orders!Interrupted, OP!Free, Orders!Free, OP!FirstPart, Orders!FirstPart, OP!history,
      Orders!history
<1> QED
  BY <1>1, <1>2, <1>3, <1>4, <1>5, <1>6, <1>7, <1>8, <1>9, <1>10, <1>11, <1>12, <1>13,
      <1>14, <1>15, <1>16, <1>17, <1>18, <1>19, <1>20, <1>21, <1>22, <1>23 DEF OP!Next,
      Orders!Next, OP!Work, Orders!Work, OP!Cancelling, Orders!Cancelling, OP!Answers,
      Orders!Answers

LEMMA OrdersConstants ==
  /\ SmsRecipients \in Nat \ {0} /\ Parts \in Nat \ {0}
  /\ MaxAttempts \in Nat \ {0}
  /\ MaxStops \in Nat
  /\ SmsStoreFails \in BOOLEAN
  /\ All \notin SmsJobs /\ NoJob \notin SmsJobs
  BY OrdersAssumption

LEMMA OrdersInit == Orders!Init => OP!Held
<1>1. Orders!Init => OP!Init
  BY DEF OP!Init, Orders!Init, OP!NoRow, Orders!NoRow, OP!FirstPart, Orders!FirstPart,
      OP!Free, Orders!Free, OP!NoCancel, Orders!NoCancel, OP!Positions, Orders!Positions,
      OP!Size, Orders!Size
<1> QED BY <1>1, OrdersConstants, OP!HeldInit

LEMMA OrdersStep == OP!Held /\ (Orders!Next \/ UNCHANGED Orders!vars) => OP!Held'
<1>1. UNCHANGED Orders!vars => UNCHANGED OP!vars
  BY DEF OP!vars, Orders!vars, OP!memory, Orders!memory, OP!history, Orders!history
<1> QED BY <1>1, OrdersConstants, OrdersStepIs, OP!HeldStep, SMTT(30)

LEMMA OrdersHeld == OP!Held => Orders!TypeOK /\ Orders!OneSending
<1>1. OP!TypeOK => Orders!TypeOK
  BY DEF OP!TypeOK, Orders!TypeOK, OP!Rows, Orders!Rows, OP!Checkpoint, Orders!Checkpoint,
      OP!Status, Orders!Status, OP!Terminal, Orders!Terminal, OP!Positions,
      Orders!Positions, OP!Size, Orders!Size, OP!Numbers, Orders!Numbers, OP!Answers,
      Orders!Answers
<1> QED BY <1>1 DEF OP!Held, OP!Holding, OP!Running, Orders!OneSending, Orders!Running

----------------------------------------------------------------------------
(* The parts side by side.                                                 *)

AddonParts == {"calls", "commands", "mirror", "sync", "orders", "segments", "received"}

\* A behaviour is about one part, whose invariant holds.
AddonInv ==
  /\ part \in AddonParts
  /\ part = "commands" => TasksInv
  /\ part = "mirror"   => MirrorInv
  /\ part = "sync"     => SyncInv
  /\ part = "orders"   => OP!Held
  /\ part = "segments" => SegmentsInv
  /\ part = "received" => ReceivedInv

\* The bounds, one by one.
LEMMA AddonConstants ==
  /\ MaxChanges \in Nat /\ MaxOutages \in Nat /\ MaxDeaths \in Nat /\ Segments \in Nat
  /\ MaxDrops \in Nat /\ MaxLosses \in Nat
  /\ QueueLimit \in Nat \ {0} /\ Versions \in Nat \ {0} /\ Depth \in Roles
  BY BoundsAssumption, RolesAssumption

LEMMA InboxIsTyped == InboxTyped
  BY InboxAssumption DEF InboxTyped

LEMMA AddonInvInit == AddonInit => AddonInv
<1> SUFFICES ASSUME AddonInit PROVE AddonInv
  OBVIOUS
<1>1. TasksInv
  BY TasksInvInit DEF AddonInit
<1>2. MirrorInv
  BY AddonConstants, MirrorInit DEF AddonInit
<1>3. SyncInv
  BY AddonConstants, SyncInit DEF AddonInit
<1>4. OP!Held
  BY OrdersInit DEF AddonInit
<1>5. SegmentsInv
  BY AddonConstants, SegmentsInit DEF AddonInit
<1>6. ReceivedInv
  BY AddonConstants, InboxIsTyped, ReceivedInit DEF AddonInit
<1> QED BY <1>1, <1>2, <1>3, <1>4, <1>5, <1>6 DEF AddonInit, AddonInv, AddonParts

LEMMA AddonInvStep == AddonInv /\ [AddonNext]_addon => AddonInv'
<1> SUFFICES ASSUME AddonInv, [AddonNext]_addon PROVE AddonInv'
  OBVIOUS
<1>1. /\ part' = part
      /\ part = "commands" => Commands!Next \/ UNCHANGED commands
      /\ part = "mirror" => Mirror!Next \/ UNCHANGED mirror
      /\ part = "sync" => Sync!Next \/ UNCHANGED sync
      /\ part = "orders" => Orders!Next \/ UNCHANGED orders
      /\ part = "segments" => Verdicts!Next \/ UNCHANGED segments
      /\ part = "received" => Received!Next \/ UNCHANGED received
  BY DEF AddonNext, addon
<1>2. CASE part = "commands"
  <2>1. [Commands!Next]_(Commands!vars)
    BY <1>1, <1>2 DEF commands, Commands!vars
  <2> QED BY <1>1, <1>2, <2>1, TasksInvNext DEF AddonInv
<1>3. CASE part = "mirror"
  <2>1. Mirror!Next \/ UNCHANGED Mirror!vars
    BY <1>1, <1>3 DEF mirror, Mirror!vars, Mirror!loops, Mirror!discovery
  <2>2. MirrorInv'
    BY <1>3, <2>1, AddonConstants, MirrorStep, MirrorUnchanged DEF AddonInv
  <2> QED BY <1>1, <1>3, <2>2 DEF AddonInv
<1>4. CASE part = "sync"
  <2>1. Sync!Next \/ UNCHANGED Sync!vars
    BY <1>1, <1>4 DEF sync, Sync!vars, Sync!addon, Sync!files, Sync!core
  <2>2. SyncInv'
    BY <1>4, <2>1, AddonConstants, SyncStep, SyncUnchanged DEF AddonInv
  <2> QED BY <1>1, <1>4, <2>2 DEF AddonInv
<1>5. CASE part = "orders"
  <2>1. Orders!Next \/ UNCHANGED Orders!vars
    BY <1>1, <1>5 DEF orders, Orders!vars, Orders!memory, Orders!history
  <2>2. OP!Held'
    BY <1>5, <2>1, OrdersStep DEF AddonInv
  <2> QED BY <1>1, <1>5, <2>2 DEF AddonInv
<1>6. CASE part = "segments"
  <2>1. Verdicts!Next \/ UNCHANGED Verdicts!vars
    BY <1>1, <1>6 DEF segments, Verdicts!vars, Verdicts!driver, Verdicts!wire, Verdicts!sender
  <2>2. SegmentsInv'
    BY <1>6, <2>1, AddonConstants, SegmentsStep, SegmentsUnchanged DEF AddonInv
  <2> QED BY <1>1, <1>6, <2>2 DEF AddonInv
<1>7. CASE part = "received"
  <2>1. Received!Next \/ UNCHANGED Received!vars
    BY <1>1, <1>7 DEF received, Received!vars, Received!device, Received!link, Received!addon
  <2>2. ReceivedInv'
    BY <1>7, <2>1, AddonConstants, InboxIsTyped, ReceivedStep, ReceivedUnchanged DEF AddonInv
  <2> QED BY <1>1, <1>7, <2>2 DEF AddonInv
<1>8. CASE part = "calls"
  BY <1>1, <1>8 DEF AddonInv
<1> QED BY <1>2, <1>3, <1>4, <1>5, <1>6, <1>7, <1>8 DEF AddonInv, AddonParts

LEMMA AddonInvHolds == AddonSpec => []AddonInv
  BY AddonInvInit, AddonInvStep, PTL DEF AddonSpec

----------------------------------------------------------------------------
(* What the parts promise, for every number of commands, states, versions, *)
(* deaths, outages, jobs, segments and messages.                           *)

\* When an MQTT hang-up is answered no call command received before it is left, and when the
\* bridge has stopped no command at all, also through lost connections and a hang-up that is
\* awaited while the stop begins (mqtt_bridge.py:79-98, 232-311, 396-499).
THEOREM NothingIsLeft == AddonSpec => []NoneLeft
<1>1. AddonInv => NoneLeft
  BY TasksEnded DEF AddonInv, NoneLeft
<1> QED BY <1>1, AddonInvHolds, PTL

\* Once the bridge has nothing left to publish, what the broker retains is the gateway's
\* state, through any outages; unless the queue overflowed on this connection or an answer
\* overwrote a newer state.  The depth of the outbox may have drifted, which it does when it
\* is counted after the last event (mqtt_bridge.py:100-178, 501-588, gateway.py:1018-1103).
THEOREM RetainedStatesSettle == AddonSpec => []RetainedSettles
<1>1. AddonInv => RetainedSettles
  BY AddonConstants, MirrorSettles DEF AddonInv, RetainedSettles
<1> QED BY <1>1, AddonInvHolds, PTL

\* After discovery no configuration topic is retained that is not wanted any more, except
\* what a broken connection had published before it was recorded (mqtt_bridge.py:735-884, 1154-1174).
THEOREM NoConfigurationIsOrphaned == AddonSpec => []NoOrphans
<1>1. AddonInv => NoOrphans
  BY AddonConstants, MirrorSettles DEF AddonInv, NoOrphans
<1> QED BY <1>1, AddonInvHolds, PTL

\* A synchronisation that is through leaves the whole integration of the image, whatever
\* earlier ones left behind when they died (component_sync.py:110-153).
THEOREM IntegrationIsWhole == AddonSpec => []TargetWhole
<1>1. AddonInv => TargetWhole
  BY AddonConstants, SyncTarget DEF AddonInv, TargetWhole
<1> QED BY <1>1, AddonInvHolds, PTL

\* A row is "sending" only while the worker has its job, also when the store fails at any
\* call (gateway.py:1018-1103, storage.py:422-520).
THEOREM SendingIsHeldHere == AddonSpec => []SendingHeld
<1>1. AddonInv => SendingHeld
  BY OrdersHeld DEF AddonInv, SendingHeld
<1> QED BY <1>1, AddonInvHolds, PTL

\* A segment sent while nothing was outstanding, on a connection that lasts, is credited with
\* its own verdict or none, however many segments are sent (gateway.py:1105-1300).
THEOREM CreditIsClean == AddonSpec => []CleanCredit
<1>1. AddonInv => CleanCredit
  BY SegmentsCredit DEF AddonInv, CleanCredit
<1> QED BY <1>1, AddonInvHolds, PTL

\* sms_received pairs the sender and the text of one message, at most once for each time the
\* driver read it, for every inbox and through any number of losses (gateway.py:1706-1827).
THEOREM InboundIsTrue == AddonSpec => []InboundTrue
<1>1. AddonInv => InboundTrue
  BY InboxIsTyped, ReceivedTrue DEF AddonInv, InboundTrue
<1> QED BY <1>1, AddonInvHolds, PTL
=============================================================================
