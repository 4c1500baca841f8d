------------------------- MODULE DeviceRuntimeProofs -------------------------
(***************************************************************************)
(* Proofs about DeviceRuntime, for any number of tasks and of overlapping  *)
(* start and stop calls, and any thresholds.                               *)
(***************************************************************************)
EXTENDS DeviceRuntime, FiniteSetTheorems, TLAPS

\* The tasks that still do something other than end.
Active(t) == pc[t] \in Awaits /\ t \notin cancelled

\* Only the task the runtime refers to is active.
ActiveInv == \A t \in Tasks : Active(t) => t = task

\* The adapter the runtime holds belongs to a task that has built it and has not
\* come to its finally block.
AdapterInv == adapter # NoTask => pc[adapter] \in Awaits \ {"registration"}

\* Unless calls overlapped: one task is live, it is not active while a stop is
\* under way, and an active one's adapter is the runtime's.
SoleInv ==
  ~overlapped =>
    /\ \A t, u \in Live : t = u
    /\ ~Settled => task = NoTask
    /\ \A t \in Tasks : Active(t) /\ pc[t] # "registration" => adapter = t

\* Somebody is going to release the connection of t.
IsHeld(t) ==
  \/ adapter = t
  \/ \E u \in Tasks : pc[u] = "close" /\ closing[u] = t
  \/ \E o \in Operators : stopping[o].pc = "release" /\ stopping[o].adapter = t

IsOpen(t) == link[t] # "DISCONNECTED"

\* An open connection is held, and an active task's adapter is the runtime's, unless it was
\* taken from the task; unless calls overlapped none was, and one connection is open.
LinkInv ==
  /\ \A t \in Tasks : IsOpen(t) => IsHeld(t) \/ t \in robbed
  /\ \A t \in Tasks : Active(t) /\ pc[t] # "registration" => adapter = t \/ t \in robbed
  /\ ~overlapped => robbed = {} /\ \A t, u \in Tasks : IsOpen(t) /\ IsOpen(u) => t = u

RInv == TypeOK /\ ActiveInv /\ AdapterInv /\ SoleInv /\ LinkInv

\* Every step keeps the types.
LEMMA TypeStep ==
  ASSUME TypeOK, [Next]_vars
  PROVE  TypeOK'
PROOF
<1> USE PolicyAssumption, TaskAssumption DEF TypeOK, Awaits
<1>1. ASSUME NEW t \in Tasks, RefuseDevice(t) PROVE TypeOK'
  BY <1>1 DEF RefuseDevice, At, Finally
<1>2. ASSUME NEW t \in Tasks, BuildAdapter(t) PROVE TypeOK'
  BY <1>2 DEF BuildAdapter, At
<1>3. ASSUME NEW t \in Tasks, Connect(t) PROVE TypeOK'
  BY <1>3 DEF Connect, At
<1>4. ASSUME NEW t \in Tasks, ConnectFails(t) PROVE TypeOK'
  BY <1>4 DEF ConnectFails, At, _retreat, Finally
<1>5. ASSUME NEW t \in Tasks, Backoff(t) PROVE TypeOK'
  BY <1>5 DEF Backoff, At
<1>6. ASSUME NEW t \in Tasks, Read(t) PROVE TypeOK'
  BY <1>6 DEF Read, At, runtimeVars
<1>7. ASSUME NEW t \in Tasks, ReadFails(t) PROVE TypeOK'
  BY <1>7 DEF ReadFails, At, _record_failure
<1>8. ASSUME NEW t \in Tasks, Publish(t) PROVE TypeOK'
  BY <1>8 DEF Publish, At
<1>9. ASSUME NEW t \in Tasks, PublishFails(t) PROVE TypeOK'
  BY <1>9 DEF PublishFails, At, _record_failure
<1>10. ASSUME NEW t \in Tasks, Reset(t) PROVE TypeOK'
  BY <1>10 DEF Reset, At, _retreat, Finally
<1>11. ASSUME NEW t \in Tasks, Cancelled(t) PROVE TypeOK'
  BY <1>11 DEF Cancelled, Finally
<1>12. ASSUME NEW t \in Tasks, Close(t) PROVE TypeOK'
  BY <1>12 DEF Close, runtimeVars
<1>13. ASSUME NEW o \in Operators, start(o) PROVE TypeOK'
  BY <1>13 DEF start
<1>14. ASSUME NEW o \in Operators, stop(o) PROVE TypeOK'
  BY <1>14 DEF stop, running, TakeAdapter, NoStop
<1>15. ASSUME NEW o \in Operators, StopWaited(o) PROVE TypeOK'
  BY <1>15 DEF StopWaited, TakeAdapter, NoStop, taskVars
<1>16. ASSUME NEW o \in Operators, StopReleased(o) PROVE TypeOK'
  BY <1>16 DEF StopReleased, NoStop
<1>17. CASE UNCHANGED vars
  BY <1>17 DEF vars, runtimeVars, taskVars
<1> QED BY <1>1, <1>2, <1>3, <1>4, <1>5, <1>6, <1>7, <1>8, <1>9, <1>10, <1>11, <1>12, <1>13, <1>14, <1>15,
           <1>16, <1>17 DEF Next, TaskStep, StopStep

\* start hands over only when the task before it has ended, and stop cancels the task it
\* gives up.
LEMMA ActiveStep ==
  ASSUME TypeOK, ActiveInv, [Next]_vars
  PROVE  ActiveInv'
PROOF
<1> USE TaskAssumption DEF TypeOK, ActiveInv, Active, Awaits, running
<1>1. ASSUME NEW t \in Tasks, RefuseDevice(t) PROVE ActiveInv'
  BY <1>1 DEF RefuseDevice, At, Finally
<1>2. ASSUME NEW t \in Tasks, BuildAdapter(t) PROVE ActiveInv'
  BY <1>2 DEF BuildAdapter, At
<1>3. ASSUME NEW t \in Tasks, Connect(t) PROVE ActiveInv'
  BY <1>3 DEF Connect, At
<1>4. ASSUME NEW t \in Tasks, ConnectFails(t) PROVE ActiveInv'
  BY <1>4 DEF ConnectFails, At, _retreat, Finally
<1>5. ASSUME NEW t \in Tasks, Backoff(t) PROVE ActiveInv'
  BY <1>5 DEF Backoff, At
<1>6. ASSUME NEW t \in Tasks, Read(t) PROVE ActiveInv'
  BY <1>6 DEF Read, At, runtimeVars
<1>7. ASSUME NEW t \in Tasks, ReadFails(t) PROVE ActiveInv'
  BY <1>7 DEF ReadFails, At, _record_failure
<1>8. ASSUME NEW t \in Tasks, Publish(t) PROVE ActiveInv'
  BY <1>8 DEF Publish, At
<1>9. ASSUME NEW t \in Tasks, PublishFails(t) PROVE ActiveInv'
  BY <1>9 DEF PublishFails, At, _record_failure
<1>10. ASSUME NEW t \in Tasks, Reset(t) PROVE ActiveInv'
  BY <1>10 DEF Reset, At, _retreat, Finally
<1>11. ASSUME NEW t \in Tasks, Cancelled(t) PROVE ActiveInv'
  BY <1>11 DEF Cancelled, Finally
<1>12. ASSUME NEW t \in Tasks, Close(t) PROVE ActiveInv'
  BY <1>12 DEF Close, runtimeVars
<1>13. ASSUME NEW o \in Operators, start(o) PROVE ActiveInv'
  BY <1>13 DEF start
<1>14. ASSUME NEW o \in Operators, stop(o) PROVE ActiveInv'
  BY <1>14 DEF stop, running, TakeAdapter, NoStop
<1>15. ASSUME NEW o \in Operators, StopWaited(o) PROVE ActiveInv'
  BY <1>15 DEF StopWaited, TakeAdapter, NoStop, taskVars
<1>16. ASSUME NEW o \in Operators, StopReleased(o) PROVE ActiveInv'
  BY <1>16 DEF StopReleased, NoStop
<1>17. CASE UNCHANGED vars
  BY <1>17 DEF vars, runtimeVars, taskVars
<1> QED BY <1>1, <1>2, <1>3, <1>4, <1>5, <1>6, <1>7, <1>8, <1>9, <1>10, <1>11, <1>12, <1>13, <1>14, <1>15,
           <1>16, <1>17 DEF Next, TaskStep, StopStep

\* Whoever leaves the awaits goes through the finally block, which empties the adapter.
LEMMA AdapterStep ==
  ASSUME TypeOK, AdapterInv, [Next]_vars
  PROVE  AdapterInv'
PROOF
<1> USE TaskAssumption DEF TypeOK, AdapterInv, Awaits
<1>1. ASSUME NEW t \in Tasks, RefuseDevice(t) PROVE AdapterInv'
  BY <1>1 DEF RefuseDevice, At, Finally
<1>2. ASSUME NEW t \in Tasks, BuildAdapter(t) PROVE AdapterInv'
  BY <1>2 DEF BuildAdapter, At
<1>3. ASSUME NEW t \in Tasks, Connect(t) PROVE AdapterInv'
  BY <1>3 DEF Connect, At
<1>4. ASSUME NEW t \in Tasks, ConnectFails(t) PROVE AdapterInv'
  BY <1>4 DEF ConnectFails, At, _retreat, Finally
<1>5. ASSUME NEW t \in Tasks, Backoff(t) PROVE AdapterInv'
  BY <1>5 DEF Backoff, At
<1>6. ASSUME NEW t \in Tasks, Read(t) PROVE AdapterInv'
  BY <1>6 DEF Read, At, runtimeVars
<1>7. ASSUME NEW t \in Tasks, ReadFails(t) PROVE AdapterInv'
  BY <1>7 DEF ReadFails, At, _record_failure
<1>8. ASSUME NEW t \in Tasks, Publish(t) PROVE AdapterInv'
  BY <1>8 DEF Publish, At
<1>9. ASSUME NEW t \in Tasks, PublishFails(t) PROVE AdapterInv'
  BY <1>9 DEF PublishFails, At, _record_failure
<1>10. ASSUME NEW t \in Tasks, Reset(t) PROVE AdapterInv'
  BY <1>10 DEF Reset, At, _retreat, Finally
<1>11. ASSUME NEW t \in Tasks, Cancelled(t) PROVE AdapterInv'
  BY <1>11 DEF Cancelled, Finally
<1>12. ASSUME NEW t \in Tasks, Close(t) PROVE AdapterInv'
  BY <1>12 DEF Close, runtimeVars
<1>13. ASSUME NEW o \in Operators, start(o) PROVE AdapterInv'
  BY <1>13 DEF start
<1>14. ASSUME NEW o \in Operators, stop(o) PROVE AdapterInv'
  BY <1>14 DEF stop, running, TakeAdapter, NoStop
<1>15. ASSUME NEW o \in Operators, StopWaited(o) PROVE AdapterInv'
  BY <1>15 DEF StopWaited, TakeAdapter, NoStop, taskVars
<1>16. ASSUME NEW o \in Operators, StopReleased(o) PROVE AdapterInv'
  BY <1>16 DEF StopReleased, NoStop
<1>17. CASE UNCHANGED vars
  BY <1>17 DEF vars, runtimeVars, taskVars
<1> QED BY <1>1, <1>2, <1>3, <1>4, <1>5, <1>6, <1>7, <1>8, <1>9, <1>10, <1>11, <1>12, <1>13, <1>14, <1>15,
           <1>16, <1>17 DEF Next, TaskStep, StopStep

\* A call of start that finds a task or a stop under way is an overlap.
LEMMA SoleStep ==
  ASSUME RInv, ActiveInv', [Next]_vars
  PROVE  SoleInv'
PROOF
<1> USE TaskAssumption DEF RInv, TypeOK, ActiveInv, Active, AdapterInv, SoleInv, Awaits, Live, Settled, running
<1>1. ASSUME NEW t \in Tasks, RefuseDevice(t) PROVE SoleInv'
  BY <1>1 DEF RefuseDevice, At, Finally
<1>2. ASSUME NEW t \in Tasks, BuildAdapter(t) PROVE SoleInv'
  BY <1>2 DEF BuildAdapter, At
<1>3. ASSUME NEW t \in Tasks, Connect(t) PROVE SoleInv'
  BY <1>3 DEF Connect, At
<1>4. ASSUME NEW t \in Tasks, ConnectFails(t) PROVE SoleInv'
  BY <1>4 DEF ConnectFails, At, _retreat, Finally
<1>5. ASSUME NEW t \in Tasks, Backoff(t) PROVE SoleInv'
  BY <1>5 DEF Backoff, At
<1>6. ASSUME NEW t \in Tasks, Read(t) PROVE SoleInv'
  BY <1>6 DEF Read, At, runtimeVars
<1>7. ASSUME NEW t \in Tasks, ReadFails(t) PROVE SoleInv'
  BY <1>7 DEF ReadFails, At, _record_failure
<1>8. ASSUME NEW t \in Tasks, Publish(t) PROVE SoleInv'
  BY <1>8 DEF Publish, At
<1>9. ASSUME NEW t \in Tasks, PublishFails(t) PROVE SoleInv'
  BY <1>9 DEF PublishFails, At, _record_failure
<1>10. ASSUME NEW t \in Tasks, Reset(t) PROVE SoleInv'
  BY <1>10 DEF Reset, At, _retreat, Finally
<1>11. ASSUME NEW t \in Tasks, Cancelled(t) PROVE SoleInv'
  BY <1>11 DEF Cancelled, Finally
<1>12. ASSUME NEW t \in Tasks, Close(t) PROVE SoleInv'
  BY <1>12 DEF Close, runtimeVars
<1>13. ASSUME NEW o \in Operators, start(o) PROVE SoleInv'
  <2> SUFFICES ASSUME ~overlapped' PROVE SoleInv'
    OBVIOUS
  <2>1. ~overlapped /\ Settled /\ Live = {} /\ stopping' = stopping
    BY <1>13 DEF start
  <2>2. PICK t \in Tasks : /\ pc[t] = "new"
                          /\ task' = t
                          /\ pc' = [pc EXCEPT ![t] = "registration"]
    BY <1>13 DEF start
  <2>3. \A u \in Tasks : pc'[u] \notin { "new", "done" } => u = t /\ pc'[u] = "registration"
    BY <2>1, <2>2
  <2> QED BY <2>1, <2>3
<1>14. ASSUME NEW o \in Operators, stop(o) PROVE SoleInv'
  BY <1>14 DEF stop, running, TakeAdapter, NoStop
<1>15. ASSUME NEW o \in Operators, StopWaited(o) PROVE SoleInv'
  BY <1>15 DEF StopWaited, TakeAdapter, NoStop, taskVars
<1>16. ASSUME NEW o \in Operators, StopReleased(o) PROVE SoleInv'
  BY <1>16 DEF StopReleased, NoStop
<1>17. CASE UNCHANGED vars
  BY <1>17 DEF vars, runtimeVars, taskVars
<1> QED BY <1>1, <1>2, <1>3, <1>4, <1>5, <1>6, <1>7, <1>8, <1>9, <1>10, <1>11, <1>12, <1>13, <1>14, <1>15,
           <1>16, <1>17 DEF Next, TaskStep, StopStep

\* A connection passes from the adapter to the finally block or to stop, and is opened
\* only by the one task that holds the adapter.
LEMMA LinkStep ==
  ASSUME RInv, [Next]_vars
  PROVE  LinkInv'
PROOF
<1> USE TaskAssumption DEF RInv, TypeOK, ActiveInv, Active, AdapterInv, SoleInv, LinkInv, IsHeld, IsOpen, Awaits, Live, Settled, running
<1>1. ASSUME NEW t \in Tasks, RefuseDevice(t) PROVE LinkInv'
  BY <1>1 DEF RefuseDevice, At, Finally
<1>2. ASSUME NEW t \in Tasks, BuildAdapter(t) PROVE LinkInv'
  BY <1>2 DEF BuildAdapter, At
<1>3. ASSUME NEW t \in Tasks, Connect(t) PROVE LinkInv'
  BY <1>3 DEF Connect, At
<1>4. ASSUME NEW t \in Tasks, ConnectFails(t) PROVE LinkInv'
  BY <1>4 DEF ConnectFails, At, _retreat, Finally
<1>5. ASSUME NEW t \in Tasks, Backoff(t) PROVE LinkInv'
  BY <1>5 DEF Backoff, At
<1>6. ASSUME NEW t \in Tasks, Read(t) PROVE LinkInv'
  BY <1>6 DEF Read, At, runtimeVars
<1>7. ASSUME NEW t \in Tasks, ReadFails(t) PROVE LinkInv'
  BY <1>7 DEF ReadFails, At, _record_failure
<1>8. ASSUME NEW t \in Tasks, Publish(t) PROVE LinkInv'
  BY <1>8 DEF Publish, At
<1>9. ASSUME NEW t \in Tasks, PublishFails(t) PROVE LinkInv'
  BY <1>9 DEF PublishFails, At, _record_failure
<1>10. ASSUME NEW t \in Tasks, Reset(t) PROVE LinkInv'
  BY <1>10 DEF Reset, At, _retreat, Finally
<1>11. ASSUME NEW t \in Tasks, Cancelled(t) PROVE LinkInv'
  BY <1>11 DEF Cancelled, Finally
<1>12. ASSUME NEW t \in Tasks, Close(t) PROVE LinkInv'
  BY <1>12 DEF Close, runtimeVars
<1>13. ASSUME NEW o \in Operators, start(o) PROVE LinkInv'
  BY <1>13 DEF start
<1>14. ASSUME NEW o \in Operators, stop(o) PROVE LinkInv'
  BY <1>14 DEF stop, running, TakeAdapter, NoStop
<1>15. ASSUME NEW o \in Operators, StopWaited(o) PROVE LinkInv'
  <2>1. CASE adapter = NoTask
    <3>1. /\ adapter' = NoTask
          /\ \A k \in Operators : k # o => stopping'[k] = stopping[k]
          /\ stopping[o].pc = "wait"
      BY <1>15, <2>1 DEF StopWaited, TakeAdapter, NoStop, taskVars
    <3>2. /\ link' = link /\ pc' = pc /\ closing' = closing /\ cancelled' = cancelled
          /\ overlapped' = overlapped /\ robbed' = robbed
      BY <1>15, <2>1 DEF StopWaited, TakeAdapter, NoStop, taskVars
    <3>3. ASSUME NEW t \in Tasks, IsHeld(t) PROVE IsHeld(t)'
      BY <2>1, <3>1, <3>2, <3>3
    <3> QED BY <2>1, <3>2, <3>3
  <2>2. CASE adapter # NoTask
    <3>1. /\ stopping'[o] = [pc |-> "release", adapter |-> adapter]
          /\ \A k \in Operators : k # o => stopping'[k] = stopping[k]
          /\ stopping[o].pc = "wait"
      BY <1>15, <2>2 DEF StopWaited, TakeAdapter, NoStop, taskVars
    <3>2. /\ link' = link /\ pc' = pc /\ closing' = closing /\ cancelled' = cancelled
          /\ overlapped' = overlapped /\ robbed' = robbed \cup ({adapter} \ ({NoTask} \cup cancelled))
      BY <1>15 DEF StopWaited, TakeAdapter, NoStop, taskVars
    <3>4. ~overlapped => robbed' = robbed
      <4>1. ~Settled /\ pc[adapter] \in Awaits /\ adapter \in Tasks
        BY <2>2, <3>1
      <4>2. ~overlapped => adapter \in cancelled
        BY <4>1, <2>2
      <4> QED BY <3>2, <4>2
    <3>5. \A t \in Tasks : Active(t) /\ pc[t] # "registration" => t \in robbed'
      BY <3>2
    <3>3. ASSUME NEW t \in Tasks, IsHeld(t) PROVE IsHeld(t)'
      BY <3>1, <3>2, <3>3
    <3> QED BY <3>2, <3>3, <3>4, <3>5
  <2> QED BY <2>1, <2>2
<1>16. ASSUME NEW o \in Operators, StopReleased(o) PROVE LinkInv'
  BY <1>16 DEF StopReleased, NoStop
<1>17. CASE UNCHANGED vars
  BY <1>17 DEF vars, runtimeVars, taskVars
<1> QED BY <1>1, <1>2, <1>3, <1>4, <1>5, <1>6, <1>7, <1>8, <1>9, <1>10, <1>11, <1>12, <1>13, <1>14, <1>15,
           <1>16, <1>17 DEF Next, TaskStep, StopStep

\* The inductive invariant.
LEMMA Invariance == Spec => []RInv
PROOF
<1>1. Init => RInv
  <2> SUFFICES ASSUME Init PROVE RInv
    OBVIOUS
  <2>1. TypeOK
    <3>1. overlapped \in BOOLEAN
      BY DEF Init
    <3>2. attempts \in 0 .. max_reconnect_attempts /\ failures \in Nat
      BY PolicyAssumption DEF Init
    <3>3. stopping \in [Operators -> [ pc : { "idle", "wait", "release" },
                                      adapter : Tasks \cup {NoTask} ]]
      BY DEF Init, NoStop
    <3> QED BY <3>1, <3>2, <3>3 DEF Init, TypeOK, Awaits
  <2>2. ActiveInv /\ AdapterInv /\ LinkInv
    BY DEF Init, ActiveInv, Active, AdapterInv, LinkInv, IsOpen, Awaits
  <2>3. Live = {} /\ Settled /\ \A t \in Tasks : ~Active(t)
    BY DEF Init, Live, Settled, NoStop, Active, Awaits
  <2> QED BY <2>1, <2>2, <2>3 DEF RInv, SoleInv
<1>2. RInv /\ [Next]_vars => RInv'
  BY TypeStep, ActiveStep, AdapterStep, SoleStep, LinkStep DEF RInv
<1> QED BY <1>1, <1>2, PTL DEF Spec

\* The runtime's types hold, and its attempts never exceed the policy's maximum, for
\* any thresholds and any number of tasks and calls (_retreat, start, stop).
THEOREM TypeCorrect == Spec => []TypeOK
PROOF
<1>1. RInv => TypeOK
  BY DEF RInv
<1> QED BY <1>1, Invariance, PTL

\* However start and stop calls overlap, an open connection is one that the finally block of
\* _run or a stop is going to release, unless its adapter was taken from its task; only such
\* ones can outlive the tasks, and only after a start that came too early.
THEOREM ConnectionsAreReleased == Spec => []NoLeak
PROOF
<1>1. RInv => NoLeak
  <2> SUFFICES ASSUME RInv PROVE NoLeak
    OBVIOUS
  <2>1. ASSUME NEW t \in Open PROVE t \in Held \cup robbed
    <3>1. t \in Tasks /\ (IsHeld(t) \/ t \in robbed)
      BY DEF RInv, LinkInv, Open, IsOpen
    <3> QED BY <3>1 DEF IsHeld, Held
  <2>2. ASSUME Settled, Live = {}, NEW t \in Open PROVE t \in robbed
    <3>1. t \in Tasks /\ (IsHeld(t) \/ t \in robbed)
      BY DEF RInv, LinkInv, Open, IsOpen
    <3>2. \A u \in Tasks : pc[u] \in { "new", "done" }
      BY <2>2 DEF Live
    <3>3. t # NoTask
      BY <3>1, TaskAssumption
    <3> QED BY <2>2, <3>1, <3>2, <3>3 DEF IsHeld, RInv, AdapterInv, Awaits, Settled
  <2>3. robbed # {} => overlapped
    BY DEF RInv, LinkInv, TypeOK
  <2> QED BY <2>1, <2>2, <2>3 DEF NoLeak
<1> QED BY <1>1, Invariance, PTL

\* A set whose members are all equal to x has at most one.
LEMMA AtMostOne ==
  ASSUME NEW x, NEW S \in SUBSET {x}
  PROVE  Cardinality(S) <= 1
PROOF
<1>1. IsFiniteSet({x}) /\ Cardinality({x}) = 1
  BY FS_Singleton
<1>2. Cardinality(S) <= Cardinality({x})
  BY <1>1, FS_Subset
<1> QED BY <1>1, <1>2

\* A device is polled by one task, however start and stop calls overlap, and over one
\* connection unless they do.
THEOREM PollerIsUnique == Spec => []OnePoller
PROOF
<1>1. RInv => OnePoller
  <2> SUFFICES ASSUME RInv PROVE OnePoller
    OBVIOUS
  <2> DEFINE Pollers == { t \in Live : pc[t] # "close" /\ t \notin cancelled }
  <2>1. Pollers \in SUBSET {task}
    BY DEF RInv, TypeOK, ActiveInv, Active, Awaits, Live
  <2>2. Cardinality(Pollers) <= 1
    BY <2>1, AtMostOne
  <2>3. ASSUME ~overlapped PROVE Cardinality(Open) <= 1
    <3>1. CASE Open = {}
      <4>1. Open \in SUBSET {NoTask}
        BY <3>1
      <4> QED BY <4>1, AtMostOne
    <3>2. CASE Open # {}
      <4>1. PICK x \in Open : TRUE
        BY <3>2
      <4>2. Open \in SUBSET {x}
        BY <2>3, <4>1 DEF RInv, LinkInv, IsOpen, Open
      <4> QED BY <4>2, AtMostOne
    <3> QED BY <3>1, <3>2
  <2> QED BY <2>2, <2>3 DEF OnePoller
<1> QED BY <1>1, Invariance, PTL

\* Both together, as the run checks them: connections have an owner, who gives
\* them up, unless a task was robbed of its adapter by a start that came too early
\* (start, stop, _run's finally block), and only one task polls.
THEOREM ConnectionsAreOwned == Spec => []ConnectionsOwned
PROOF
<1>1. NoLeak /\ OnePoller => ConnectionsOwned
  BY DEF ConnectionsOwned
<1> QED BY <1>1, ConnectionsAreReleased, PollerIsUnique, PTL

-----------------------------------------------------------------------------
(* The reported state is true                                               *)

\* A cancelled task has not ended, and it is not the runtime's any more, which was started.
CancelInv ==
  /\ task \notin cancelled
  /\ \A t \in cancelled : pc[t] \notin { "new", "done" }
  /\ \A t \in Tasks : t = task => pc[t] # "new"

\* What the state says of the await the runtime's task is at.
Tells ==
  \/ pc[task] = "registration" /\ state = "STARTING"
  \/ pc[task] = "connect" /\ state = "CONNECTING"
  \/ pc[task] \in { "read", "publish" } /\ state = "CONNECTED" /\ failures < failure_threshold
  \/ /\ pc[task] \in { "read", "publish" } /\ state = "DEGRADED"
     /\ failures \in failure_threshold .. reconnect_threshold - 1
  \/ pc[task] \in { "reset", "backoff" } /\ state = "RECONNECTING"
  \/ pc[task] \in { "close", "done" } /\ state = "ERROR"

\* Unless calls overlapped the state tells of the runtime's task, and that there is none once
\* every stop has returned.
StateInv ==
  ~overlapped => /\ task # NoTask => Tells
                 /\ task = NoTask /\ Settled => state = "STOPPED"

\* Only stop cancels, and gives the task up in the same step.
LEMMA CancelStep ==
  ASSUME TypeOK, CancelInv, [Next]_vars
  PROVE  CancelInv'
PROOF
<1> USE TaskAssumption DEF TypeOK, CancelInv, Awaits, running
<1>1. ASSUME NEW t \in Tasks, RefuseDevice(t) PROVE CancelInv'
  BY <1>1 DEF RefuseDevice, At, Finally
<1>2. ASSUME NEW t \in Tasks, BuildAdapter(t) PROVE CancelInv'
  BY <1>2 DEF BuildAdapter, At
<1>3. ASSUME NEW t \in Tasks, Connect(t) PROVE CancelInv'
  BY <1>3 DEF Connect, At
<1>4. ASSUME NEW t \in Tasks, ConnectFails(t) PROVE CancelInv'
  BY <1>4 DEF ConnectFails, At, _retreat, Finally
<1>5. ASSUME NEW t \in Tasks, Backoff(t) PROVE CancelInv'
  BY <1>5 DEF Backoff, At
<1>6. ASSUME NEW t \in Tasks, Read(t) PROVE CancelInv'
  BY <1>6 DEF Read, At, runtimeVars
<1>7. ASSUME NEW t \in Tasks, ReadFails(t) PROVE CancelInv'
  BY <1>7 DEF ReadFails, At, _record_failure
<1>8. ASSUME NEW t \in Tasks, Publish(t) PROVE CancelInv'
  BY <1>8 DEF Publish, At
<1>9. ASSUME NEW t \in Tasks, PublishFails(t) PROVE CancelInv'
  BY <1>9 DEF PublishFails, At, _record_failure
<1>10. ASSUME NEW t \in Tasks, Reset(t) PROVE CancelInv'
  BY <1>10 DEF Reset, At, _retreat, Finally
<1>11. ASSUME NEW t \in Tasks, Cancelled(t) PROVE CancelInv'
  BY <1>11 DEF Cancelled, Finally
<1>12. ASSUME NEW t \in Tasks, Close(t) PROVE CancelInv'
  BY <1>12 DEF Close, runtimeVars
<1>13. ASSUME NEW o \in Operators, start(o) PROVE CancelInv'
  BY <1>13 DEF start
<1>14. ASSUME NEW o \in Operators, stop(o) PROVE CancelInv'
  BY <1>14 DEF stop, running, TakeAdapter, NoStop
<1>15. ASSUME NEW o \in Operators, StopWaited(o) PROVE CancelInv'
  BY <1>15 DEF StopWaited, TakeAdapter, NoStop, taskVars
<1>16. ASSUME NEW o \in Operators, StopReleased(o) PROVE CancelInv'
  BY <1>16 DEF StopReleased, NoStop
<1>17. CASE UNCHANGED vars
  BY <1>17 DEF vars, runtimeVars, taskVars
<1> QED BY <1>1, <1>2, <1>3, <1>4, <1>5, <1>6, <1>7, <1>8, <1>9, <1>10, <1>11, <1>12, <1>13, <1>14, <1>15,
           <1>16, <1>17 DEF Next, TaskStep, StopStep

\* Every step that moves the runtime's task, or takes it away, leaves the state that tells so.
LEMMA StateStep ==
  ASSUME RInv, CancelInv, StateInv, [Next]_vars
  PROVE  StateInv'
PROOF
<1> USE TaskAssumption, PolicyAssumption
    DEF RInv, TypeOK, ActiveInv, Active, SoleInv, CancelInv, StateInv, Tells, Awaits, Settled, Live, running
<1>1. ASSUME NEW t \in Tasks, RefuseDevice(t) PROVE StateInv'
  BY <1>1 DEF RefuseDevice, At, Finally
<1>2. ASSUME NEW t \in Tasks, BuildAdapter(t) PROVE StateInv'
  BY <1>2 DEF BuildAdapter, At
<1>3. ASSUME NEW t \in Tasks, Connect(t) PROVE StateInv'
  BY <1>3 DEF Connect, At
<1>4. ASSUME NEW t \in Tasks, ConnectFails(t) PROVE StateInv'
  BY <1>4 DEF ConnectFails, At, _retreat, Finally
<1>5. ASSUME NEW t \in Tasks, Backoff(t) PROVE StateInv'
  BY <1>5 DEF Backoff, At
<1>6. ASSUME NEW t \in Tasks, Read(t) PROVE StateInv'
  BY <1>6 DEF Read, At, runtimeVars
<1>7. ASSUME NEW t \in Tasks, ReadFails(t) PROVE StateInv'
  BY <1>7 DEF ReadFails, At, _record_failure
<1>8. ASSUME NEW t \in Tasks, Publish(t) PROVE StateInv'
  BY <1>8 DEF Publish, At
<1>9. ASSUME NEW t \in Tasks, PublishFails(t) PROVE StateInv'
  BY <1>9 DEF PublishFails, At, _record_failure
<1>10. ASSUME NEW t \in Tasks, Reset(t) PROVE StateInv'
  BY <1>10 DEF Reset, At, _retreat, Finally
<1>11. ASSUME NEW t \in Tasks, Cancelled(t) PROVE StateInv'
  BY <1>11 DEF Cancelled, Finally
<1>12. ASSUME NEW t \in Tasks, Close(t) PROVE StateInv'
  BY <1>12 DEF Close, runtimeVars
<1>13. ASSUME NEW o \in Operators, start(o) PROVE StateInv'
  BY <1>13 DEF start
<1>14. ASSUME NEW o \in Operators, stop(o) PROVE StateInv'
  BY <1>14 DEF stop, running, TakeAdapter, NoStop
<1>15. ASSUME NEW o \in Operators, StopWaited(o) PROVE StateInv'
  BY <1>15 DEF StopWaited, TakeAdapter, NoStop, taskVars
<1>16. ASSUME NEW o \in Operators, StopReleased(o) PROVE StateInv'
  BY <1>16 DEF StopReleased, NoStop
<1>17. CASE UNCHANGED vars
  BY <1>17 DEF vars, runtimeVars, taskVars
<1> QED BY <1>1, <1>2, <1>3, <1>4, <1>5, <1>6, <1>7, <1>8, <1>9, <1>10, <1>11, <1>12, <1>13, <1>14, <1>15,
           <1>16, <1>17 DEF Next, TaskStep, StopStep

\* Whenever no stop is under way and no start came too early, the reported state tells what
\* the runtime does: polling or not, how many failures in a row there were, and STOPPED or
\* ERROR only with nothing left that could poll, for any thresholds (gateway/runtime.py,
\* _record_failure, _retreat, stop).
THEOREM StateIsTruthful == Spec => []StateIsTrue
PROOF
<1>1. Init => CancelInv /\ StateInv
  BY TaskAssumption DEF Init, CancelInv, StateInv
<1>2. RInv /\ CancelInv /\ StateInv /\ [Next]_vars => CancelInv' /\ StateInv'
  BY CancelStep, StateStep DEF RInv
<1>3. ASSUME RInv, StateInv PROVE StateIsTrue
  <2> SUFFICES ASSUME Settled, ~overlapped PROVE StateIsTrue
    BY DEF StateIsTrue
  <2>1. CASE task = NoTask
    <3>1. state = "STOPPED"
      BY <1>3, <2>1 DEF StateInv
    <3>2. \A t \in Live : t \in cancelled \/ pc[t] = "close"
      BY <1>3, <2>1, TaskAssumption DEF RInv, TypeOK, ActiveInv, Active, Live
    <3> QED BY <2>1, <3>1, <3>2, TaskAssumption DEF StateIsTrue
  <2>2. CASE task # NoTask
    <3>1. Tells /\ task \in Tasks
      BY <1>3, <2>2 DEF StateInv, RInv, TypeOK
    <3> QED BY <3>1 DEF Tells, StateIsTrue
  <2> QED BY <2>1, <2>2
<1> QED BY <1>1, <1>2, <1>3, Invariance, PTL DEF Spec
=============================================================================
