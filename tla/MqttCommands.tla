---------------------------- MODULE MqttCommands ----------------------------
(***************************************************************************)
(* MQTT commands that take long, a call batch or a USSD request, run as    *)
(* tasks beside the coroutine that reads commands (mqtt_bridge.py).  The   *)
(* gateway can only hang up or cancel a batch that has registered with it, *)
(* so the bridge also cancels the tasks.  A connection that is lost ends   *)
(* the reading coroutine at whatever it awaits, but no task.               *)
(***************************************************************************)
EXTENDS Naturals, FiniteSets

CONSTANTS
  Calls, Queries,  \* the call and USSD commands that may be received
  MaxTasks         \* 100 in the code

VARIABLES
  task,      \* of each command: its task
  reader,    \* what _command_loop awaits
  chosen,    \* the tasks it cancels
  stopping,  \* what stop() awaits
  doomed,    \* the tasks stop() cancels
  before     \* history: call tasks there were when the hang-up or the stop began

vars == <<task, reader, chosen, stopping, doomed, before>>

Commands == Calls \cup Queries
Live(c)  == task[c] \in {"created", "running", "canceled"}
Alive    == { c \in Commands : Live(c) }

Init ==
  /\ task = [ c \in Commands |-> "none" ]
  /\ reader = "off" /\ chosen = {} /\ stopping = "no" /\ doomed = {} /\ before = {}

\* cancel() on each of the tasks: one that has not begun ends without running, one that
\* runs gets CancelledError at its await.
Canceled(tasks) ==
  task' = [ c \in Commands |->
              IF c \in tasks /\ task[c] = "created" THEN "ended"
              ELSE IF c \in tasks /\ task[c] = "running" THEN "canceled"
              ELSE task[c] ]

----------------------------------------------------------------------------
(* The tasks.                                                              *)

\* _schedule_command; at the limit the command is refused.
Schedule(c) ==
  /\ reader = "idle" /\ task[c] = "none"
  /\ task' = [ task EXCEPT ![c] = IF Cardinality(Alive) < MaxTasks THEN "created" ELSE "ended" ]
  /\ UNCHANGED <<reader, chosen, stopping, doomed, before>>

\* _run_scheduled_command: the batch registers with the gateway in its first step.
Begin(c) ==
  /\ task[c] = "created" /\ task' = [ task EXCEPT ![c] = "running" ]
  /\ UNCHANGED <<reader, chosen, stopping, doomed, before>>

Finish(c) ==
  /\ task[c] \in {"running", "canceled"} /\ task' = [ task EXCEPT ![c] = "ended" ]
  /\ UNCHANGED <<reader, chosen, stopping, doomed, before>>

----------------------------------------------------------------------------
(* _command_loop.                                                          *)

\* The runner connects; a connection that is being made when the stop begins is completed.
Connect ==
  /\ reader = "off" /\ stopping \notin {"runner", "done"} /\ reader' = "idle"
  /\ UNCHANGED <<task, chosen, stopping, doomed, before>>

\* hangup/set: async_hangup is awaited.
HangUpSet ==
  /\ reader = "idle" /\ reader' = "hangup"
  /\ before' = IF stopping = "no" THEN Calls \cap Alive ELSE before
  /\ UNCHANGED <<task, chosen, stopping, doomed>>

\* Mutant of CallTasks: the tasks whose batch the gateway knows.
MutantCallTasks == { c \in Calls : task[c] = "running" }

\* _matching_scheduled_commands(kind="call")
CallTasks == Calls \cap Alive

\* async_hangup returned or raised, or the connection was lost meanwhile: the finally
\* clause cancels the call tasks there are by then.
HungUp ==
  /\ reader = "hangup" /\ reader' = "gather"
  /\ chosen' = CallTasks /\ Canceled(CallTasks)
  /\ UNCHANGED <<stopping, doomed, before>>

\* cancel/set chooses the tasks before it awaits async_cancel.
Cancel(tasks) ==
  /\ reader = "idle" /\ reader' = "cancel" /\ chosen' = tasks
  /\ UNCHANGED <<task, stopping, doomed, before>>

DoneCancel ==
  /\ reader = "cancel" /\ reader' = "gather" /\ Canceled(chosen)
  /\ UNCHANGED <<chosen, stopping, doomed, before>>

\* The tasks ended; the result is published.
Gathered ==
  /\ reader = "gather" /\ chosen \cap Alive = {}
  /\ reader' = "idle" /\ chosen' = {}
  /\ UNCHANGED <<task, stopping, doomed, before>>

\* The connection is lost: a hang-up or cancellation that is awaited goes on with its finally
\* clause (HungUp, DoneCancel), but nobody waits any more for the tasks it cancels.
Lose ==
  /\ reader \in {"idle", "gather"} /\ reader' = "off" /\ chosen' = {}
  /\ before' = IF stopping = "no" THEN {} ELSE before
  /\ UNCHANGED <<task, stopping, doomed>>

----------------------------------------------------------------------------
(* stop(): the loop still reads commands until the runner is cancelled.    *)

Stop ==
  /\ stopping = "no"
  /\ stopping' = IF Calls \cap Alive # {} THEN "hangup" ELSE "tasks"
  /\ before' = Alive
  /\ doomed' = IF Calls \cap Alive # {} THEN {} ELSE Alive
  /\ IF Calls \cap Alive # {} THEN UNCHANGED task ELSE Canceled(Alive)
  /\ UNCHANGED <<reader, chosen>>

StopHungUp ==
  /\ stopping = "hangup" /\ stopping' = "calls"
  /\ doomed' = CallTasks /\ Canceled(CallTasks)
  /\ UNCHANGED <<reader, chosen, before>>

StopCalls ==
  /\ stopping = "calls" /\ doomed \cap Alive = {} /\ stopping' = "tasks"
  /\ doomed' = Alive /\ Canceled(Alive)
  /\ UNCHANGED <<reader, chosen, before>>

StopTasks ==
  /\ stopping = "tasks" /\ doomed \cap Alive = {} /\ stopping' = "runner"
  /\ UNCHANGED <<task, reader, chosen, doomed, before>>

\* The runner is cancelled, and the loop at what it awaits, after HungUp or DoneCancel.
StopRunner ==
  /\ stopping = "runner" /\ reader \in {"off", "idle", "gather"}
  /\ stopping' = "done" /\ reader' = "off" /\ chosen' = {}
  /\ UNCHANGED <<task, doomed, before>>

Next ==
  \/ \E c \in Commands : Schedule(c) \/ Begin(c) \/ Finish(c)
  \/ Connect \/ HangUpSet \/ HungUp \/ (\E t \in SUBSET Alive : Cancel(t)) \/ DoneCancel
  \/ Gathered \/ Lose
  \/ Stop \/ StopHungUp \/ StopCalls \/ StopTasks \/ StopRunner

Spec == Init /\ [][Next]_vars

----------------------------------------------------------------------------

TypeOK ==
  /\ task \in [ Commands -> {"none", "created", "running", "canceled", "ended"} ]
  /\ reader \in {"off", "idle", "hangup", "cancel", "gather"}
  /\ stopping \in {"no", "hangup", "calls", "tasks", "runner", "done"}
  /\ chosen \subseteq Commands /\ doomed \subseteq Commands /\ before \subseteq Commands

\* When a hang-up is answered, no call command received before it is left, also one
\* whose batch had not registered with the gateway yet; when the bridge has stopped,
\* no command received before the stop is left.
NoneLeft ==
  /\ stopping = "no" /\ reader = "idle" => before \cap Alive = {}
  /\ stopping \in {"runner", "done"} => before \cap Alive = {}
=============================================================================
