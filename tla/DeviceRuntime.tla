----------------------------- MODULE DeviceRuntime -----------------------------
(***************************************************************************)
(* One DeviceRuntime of the protocol gateway (backend/app/gateway/         *)
(* runtime.py): the polling task with its retries, and the start and stop  *)
(* calls on it.  All of it runs on one event loop: what lies between two   *)
(* awaits is one step, and a task that is cancelled ends at the await it   *)
(* is at.  The device is enabled and polled.                               *)
(*                                                                         *)
(* A task's adapter carries the task's name.  The adapters                 *)
(* (backend/adapters) refuse every read after a failed one until they are  *)
(* connected again, and keep the connection they have until disconnect.    *)
(***************************************************************************)
EXTENDS Integers, FiniteSets

CONSTANTS
  Tasks,                   \* names for the tasks that start creates
  Operators,               \* start and stop calls, one at a time each
  failure_threshold, reconnect_threshold, max_reconnect_attempts,
  NoTask

ASSUME PolicyAssumption ==
  /\ failure_threshold \in Nat \ {0}
  /\ reconnect_threshold \in Nat
  /\ failure_threshold < reconnect_threshold
  /\ max_reconnect_attempts \in Nat
ASSUME TaskAssumption == NoTask \notin Tasks

VARIABLES
  state,       \* self._state
  task,        \* self._task
  adapter,     \* self._adapter
  failures,    \* self._consecutive_failures
  attempts,    \* self._reconnect_attempts
  pc,          \* the await each task is at
  closing,     \* the adapter that the finally block of a task disconnects
  cancelled,   \* the tasks that have been cancelled and have not noticed
  link,        \* each adapter: its status and whether it holds a connection
  stopping,    \* the stop calls
  overlapped,  \* history: whether start was called before an earlier stop, or a task
               \* that it had given up waiting for, had come to its end
  robbed       \* history: the tasks whose adapter another task or stop took from them

runtimeVars == << state, task, adapter, failures, attempts >>
taskVars    == << pc, closing, cancelled, link >>
vars        == << runtimeVars, taskVars, stopping, overlapped, robbed >>

Awaits == { "registration", "connect", "read", "publish", "reset", "backoff" }

NoStop == [pc |-> "idle", adapter |-> NoTask]

\* self.running
running == task # NoTask /\ pc[task] # "done"

\* No stop call is under way.
Settled == \A o \in Operators : stopping[o].pc = "idle"

Live == { t \in Tasks : pc[t] \notin { "new", "done" } }

Init ==
  /\ state = "STOPPED"
  /\ task = NoTask
  /\ adapter = NoTask
  /\ failures = 0
  /\ attempts = 0
  /\ pc = [t \in Tasks |-> "new"]
  /\ closing = [t \in Tasks |-> NoTask]
  /\ cancelled = {}
  /\ link = [t \in Tasks |-> "DISCONNECTED"]
  /\ stopping = [o \in Operators |-> NoStop]
  /\ overlapped = FALSE
  /\ robbed = {}

-----------------------------------------------------------------------------
(* start                                                                    *)

\* Mutant: a runtime that is being polled is started again.
start_always(o) ==
  /\ stopping[o].pc = "idle"
  /\ \E t \in Tasks : /\ pc[t] = "new"
                      /\ task' = t
                      /\ pc' = [pc EXCEPT ![t] = "registration"]
  /\ state' = "STARTING"
  /\ overlapped' = (overlapped \/ ~Settled \/ Live # {})
  /\ UNCHANGED << adapter, failures, attempts, closing, cancelled, link, stopping, robbed >>

\* A running runtime is left alone; the counters are what they were.
start(o) ==
  /\ stopping[o].pc = "idle"
  /\ ~running
  /\ \E t \in Tasks : /\ pc[t] = "new"
                      /\ task' = t
                      /\ pc' = [pc EXCEPT ![t] = "registration"]
  /\ state' = "STARTING"
  /\ overlapped' = (overlapped \/ ~Settled \/ Live # {})
  /\ UNCHANGED << adapter, failures, attempts, closing, cancelled, link, stopping, robbed >>

-----------------------------------------------------------------------------
(* The task: _run and what it calls                                         *)

At(t, await) == pc[t] = await /\ t \notin cancelled

\* The finally block: the runtime's adapter is taken and disconnected, whosever it is.
Finally(t) ==
  /\ adapter' = NoTask
  /\ robbed' = robbed \cup ({adapter} \ {t, NoTask})
  /\ closing' = [closing EXCEPT ![t] = adapter]
  /\ pc' = [pc EXCEPT ![t] = IF adapter = NoTask THEN "done" ELSE "close"]

\* The device is not registered, the registry cannot be read, or no adapter can
\* be built: _fail_permanently.
RefuseDevice(t) ==
  /\ At(t, "registration")
  /\ state' = "ERROR"
  /\ Finally(t)
  /\ UNCHANGED << task, failures, attempts, cancelled, link, stopping,
                  overlapped >>

BuildAdapter(t) ==
  /\ At(t, "registration")
  /\ adapter' = t
  /\ robbed' = robbed \cup ({adapter} \ {NoTask})
  /\ state' = "CONNECTING"
  /\ pc' = [pc EXCEPT ![t] = "connect"]
  /\ UNCHANGED << task, failures, attempts, closing, cancelled, link, stopping,
                  overlapped >>

Connect(t) ==
  /\ At(t, "connect")
  /\ link' = [link EXCEPT ![t] = "CONNECTED"]
  /\ failures' = 0
  /\ attempts' = 0
  /\ state' = "CONNECTED"
  /\ pc' = [pc EXCEPT ![t] = "read"]
  /\ UNCHANGED << task, adapter, closing, cancelled, stopping, overlapped, robbed >>

\* Mutant: the attempts are not counted.
_retreat_uncounted(t) ==
  /\ state' = "RECONNECTING"
  /\ attempts' = attempts
  /\ pc' = [pc EXCEPT ![t] = "backoff"]
  /\ UNCHANGED << adapter, closing, robbed >>

\* _retreat: give up, or back off and try again.
_retreat(t) ==
  \/ /\ attempts >= max_reconnect_attempts
     /\ state' = "ERROR"
     /\ Finally(t)
     /\ UNCHANGED attempts
  \/ /\ attempts < max_reconnect_attempts
     /\ state' = "RECONNECTING"
     /\ attempts' = attempts + 1
     /\ pc' = [pc EXCEPT ![t] = "backoff"]
     /\ UNCHANGED << adapter, closing, robbed >>

ConnectFails(t) ==
  /\ At(t, "connect")
  /\ link[t] # "CONNECTED"
  /\ _retreat(t)
  /\ UNCHANGED << task, failures, cancelled, link, stopping, overlapped >>

Backoff(t) ==
  /\ At(t, "backoff")
  /\ failures' = 0
  /\ state' = "CONNECTING"
  /\ pc' = [pc EXCEPT ![t] = "connect"]
  /\ UNCHANGED << task, adapter, attempts, closing, cancelled, link, stopping,
                  overlapped, robbed >>

Read(t) ==
  /\ At(t, "read")
  /\ link[t] = "CONNECTED"
  /\ pc' = [pc EXCEPT ![t] = "publish"]
  /\ UNCHANGED << runtimeVars, closing, cancelled, link, stopping,
                  overlapped, robbed >>

\* Mutant: the runtime goes on polling at the reconnect threshold.
_record_failure_degrading(t) ==
  /\ failures' = failures + 1
  /\ IF failures' >= failure_threshold
     THEN state' = "DEGRADED" /\ pc' = [pc EXCEPT ![t] = "read"]
     ELSE state' = state /\ pc' = [pc EXCEPT ![t] = "read"]

\* Mutant: the failures in a row are not added up.
_record_failure_restarting(t) ==
  /\ failures' = 1
  /\ UNCHANGED << state, pc >>

\* _record_failure, and whether the poll loop goes on.
_record_failure(t) ==
  /\ failures' = failures + 1
  /\ IF failures' >= reconnect_threshold
     THEN state' = "RECONNECTING" /\ pc' = [pc EXCEPT ![t] = "reset"]
     ELSE IF failures' >= failure_threshold
     THEN state' = "DEGRADED" /\ pc' = [pc EXCEPT ![t] = "read"]
     ELSE state' = state /\ pc' = [pc EXCEPT ![t] = "read"]

\* A read fails, or is refused because an earlier one has failed or the adapter
\* has been disconnected.
ReadFails(t) ==
  /\ At(t, "read")
  /\ link' = [link EXCEPT ![t] = IF @ = "DISCONNECTED" THEN @ ELSE "ERROR"]
  /\ _record_failure(t)
  /\ UNCHANGED << task, adapter, attempts, closing, cancelled, stopping,
                  overlapped, robbed >>

\* The sample is persisted or a duplicate.
Publish(t) ==
  /\ At(t, "publish")
  /\ failures' = 0
  /\ state' = "CONNECTED"
  /\ pc' = [pc EXCEPT ![t] = "read"]
  /\ UNCHANGED << task, adapter, attempts, closing, cancelled, link, stopping,
                  overlapped, robbed >>

\* The sample is rejected, or its ingestion raises.
PublishFails(t) ==
  /\ At(t, "publish")
  /\ _record_failure(t)
  /\ UNCHANGED << task, adapter, attempts, closing, cancelled, link, stopping,
                  overlapped, robbed >>

\* The poll loop has ended: _teardown and _retreat.
Reset(t) ==
  /\ At(t, "reset")
  /\ link' = [link EXCEPT ![t] = "DISCONNECTED"]
  /\ _retreat(t)
  /\ UNCHANGED << task, failures, cancelled, stopping, overlapped >>

\* Mutant: the cancellation is swallowed by a handler that catches everything.
CancelledSwallowed(t) ==
  /\ pc[t] \in Awaits
  /\ t \in cancelled
  /\ cancelled' = cancelled \ {t}
  /\ UNCHANGED << runtimeVars, pc, closing, link, stopping,
                  overlapped, robbed >>

\* CancelledError at the await the task is at.
Cancelled(t) ==
  /\ pc[t] \in Awaits
  /\ t \in cancelled
  /\ cancelled' = cancelled \ {t}
  /\ Finally(t)
  /\ UNCHANGED << state, task, failures, attempts, link, stopping,
                  overlapped >>

Close(t) ==
  /\ pc[t] = "close"
  /\ link' = [link EXCEPT ![closing[t]] = "DISCONNECTED"]
  /\ closing' = [closing EXCEPT ![t] = NoTask]
  /\ cancelled' = cancelled \ {t}
  /\ pc' = [pc EXCEPT ![t] = "done"]
  /\ UNCHANGED << runtimeVars, stopping,
                  overlapped, robbed >>

-----------------------------------------------------------------------------
(* stop                                                                     *)

\* The rest of stop, once the task is out of the way: the adapter is taken, also if
\* a start meanwhile has put another task's there.
TakeAdapter(o) ==
  /\ adapter' = NoTask
  /\ robbed' = robbed \cup ({adapter} \ ({NoTask} \cup cancelled))
  /\ IF adapter = NoTask
     THEN state' = "STOPPED" /\ stopping' = [stopping EXCEPT ![o] = NoStop]
     ELSE /\ state' = state
          /\ stopping' = [stopping EXCEPT ![o] = [pc |-> "release", adapter |-> adapter]]

\* stop up to its first await.
stop(o) ==
  /\ stopping[o].pc = "idle"
  /\ task' = NoTask
  /\ IF running
     THEN /\ cancelled' = cancelled \cup {task}
          /\ stopping' = [stopping EXCEPT ![o] = [NoStop EXCEPT !.pc = "wait"]]
          /\ UNCHANGED << state, adapter, robbed >>
     ELSE /\ TakeAdapter(o)
          /\ UNCHANGED cancelled
  /\ UNCHANGED << failures, attempts, pc, closing, link,
                  overlapped >>

\* The task has ended, or STOP_TIMEOUT_SECONDS have passed, which they may do at
\* any time, and it is abandoned.
StopWaited(o) ==
  /\ stopping[o].pc = "wait"
  /\ TakeAdapter(o)
  /\ UNCHANGED << task, failures, attempts, taskVars, overlapped >>

StopReleased(o) ==
  /\ stopping[o].pc = "release"
  /\ link' = [link EXCEPT ![stopping[o].adapter] = "DISCONNECTED"]
  /\ state' = "STOPPED"
  /\ stopping' = [stopping EXCEPT ![o] = NoStop]
  /\ UNCHANGED << task, adapter, failures, attempts, pc, closing, cancelled,
                  overlapped, robbed >>

-----------------------------------------------------------------------------
TaskStep(t) ==
  \/ RefuseDevice(t) \/ BuildAdapter(t) \/ Connect(t) \/ ConnectFails(t) \/ Backoff(t)
  \/ Read(t) \/ ReadFails(t) \/ Publish(t) \/ PublishFails(t) \/ Reset(t)
  \/ Cancelled(t) \/ Close(t)

StopStep(o) == StopWaited(o) \/ StopReleased(o)

Next ==
  \/ \E o \in Operators : start(o) \/ stop(o) \/ StopStep(o)
  \/ \E t \in Tasks : TaskStep(t)

Spec == Init /\ [][Next]_vars

\* The event loop runs every task and call that can go on; adapters and sink
\* have timeouts of their own.
FairSpec ==
  /\ Spec
  /\ \A t \in Tasks : WF_vars(TaskStep(t))
  /\ \A o \in Operators : WF_vars(StopStep(o))

-----------------------------------------------------------------------------
(* Properties                                                               *)

\* The runtime holds the values its types admit, and no more reconnect attempts
\* than the policy allows are counted.
TypeOK ==
  /\ state \in { "STOPPED", "STARTING", "CONNECTING", "CONNECTED", "DEGRADED",
                 "RECONNECTING", "ERROR" }
  /\ task \in Tasks \cup {NoTask}
  /\ adapter \in Tasks \cup {NoTask}
  /\ failures \in Nat
  /\ attempts \in 0 .. max_reconnect_attempts
  /\ pc \in [Tasks -> Awaits \cup { "new", "close", "done" }]
  /\ closing \in [Tasks -> Tasks \cup {NoTask}]
  /\ cancelled \subseteq Tasks
  /\ link \in [Tasks -> { "DISCONNECTED", "CONNECTED", "ERROR" }]
  /\ stopping \in [Operators -> [ pc : { "idle", "wait", "release" },
                                  adapter : Tasks \cup {NoTask} ]]
  /\ overlapped \in BOOLEAN
  /\ robbed \subseteq Tasks

Open == { t \in Tasks : link[t] # "DISCONNECTED" }

\* The connections that somebody is going to release: the runtime's adapter, which its
\* task or a stop will take, and those that a finally block or a stop has taken.
Held ==
  { adapter } \cup { closing[u] : u \in { w \in Tasks : pc[w] = "close" } }
              \cup { stopping[o].adapter : o \in { q \in Operators : stopping[q].pc = "release" } }

\* However starts and stops overlap and whoever stop gives up waiting for, a connection
\* that is open is going to be released: only one whose adapter another task or stop took
\* from its task, which may then have connected again, is left to nobody, and so may stay
\* open when everything has ended.  That needs a start that came before the earlier stop,
\* or the task it abandoned, had come to its end.
NoLeak ==
  /\ Open \subseteq Held \cup robbed
  /\ Settled /\ Live = {} => Open \subseteq robbed
  /\ robbed # {} => overlapped

\* One device is polled by one task, whatever overlaps: a task that is stopped, or was
\* abandoned by stop, does nothing but end.  It is polled over one connection as long as
\* no start came too early.
OnePoller ==
  /\ Cardinality({ t \in Live : pc[t] # "close" /\ t \notin cancelled }) <= 1
  /\ ~overlapped => Cardinality(Open) <= 1

\* Connections have an owner, who gives them up, and only one task polls.
ConnectionsOwned == NoLeak /\ OnePoller

\* The state that is reported tells what the runtime does: CONNECTED and DEGRADED
\* while it polls, as the failures in a row say, and STOPPED or ERROR when there
\* is nothing left that could poll.
StateIsTrue ==
  Settled /\ ~overlapped =>
    /\ state \in { "CONNECTED", "DEGRADED" } <=>
         \E t \in Tasks : t = task /\ pc[t] \in { "read", "publish" }
    /\ state = "CONNECTED" => failures < failure_threshold
    /\ state = "DEGRADED" => failures \in failure_threshold .. reconnect_threshold - 1
    /\ state = "STOPPED" => \A t \in Live : t \in cancelled \/ pc[t] = "close"
    /\ state = "ERROR" => pc[task] \in { "close", "done" }

\* The retries come to an end: a task that connects gets its connection, gives
\* up, or is stopped.
RetriesEnd ==
  \A t \in Tasks : pc[t] = "connect" ~> pc[t] \in { "read", "done" }

\* A link that has failed is not kept: it is disconnected, to be connected again
\* or given up.
FailedLinkRenewed ==
  \A t \in Tasks : link[t] = "ERROR" ~> link[t] # "ERROR" \/ overlapped

\* A task that stop has cancelled ends, whatever it was waiting for and whether or
\* not stop still waits for it.
StoppedTasksEnd == \A t \in Tasks : t \in cancelled ~> pc[t] = "done"
=============================================================================
