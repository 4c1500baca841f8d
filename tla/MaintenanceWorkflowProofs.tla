---------------------- MODULE MaintenanceWorkflowProofs ----------------------
(***************************************************************************)
(* Proofs about MaintenanceWorkflow, for any number of start calls,        *)
(* reviewers, incidents, diagnoses and plans, and, in the last section,    *)
(* about the traces of AgentTrace, for any number of calls.                *)
(***************************************************************************)
EXTENDS MaintenanceWorkflow, AgentTrace, FiniteSetTheorems, TLAPS

\* Every step of the workflow service keeps its rows and checkpoints well typed.
LEMMA TypeStep == TypeOK /\ [Next]_vars => TypeOK'
<1> USE DEF TypeOK, startVars, threadVars, orderVars, reviewVars
<1> SUFFICES ASSUME TypeOK, [Next]_vars PROVE TypeOK'
  OBVIOUS
<1>1. ASSUME NEW s \in Starters, NEW i \in Incidents, NEW d \in Diagnoses, Lock(s, i, d)
      PROVE  TypeOK'
  BY <1>1 DEF Lock
<1>2. ASSUME NEW s \in Starters, StartWithoutRun(s) PROVE TypeOK'
  BY <1>2 DEF StartWithoutRun
<1>3. ASSUME NEW s \in Starters, StartPrepare(s) PROVE TypeOK'
  BY <1>3 DEF StartPrepare
<1>4. ASSUME NEW s \in Starters, StartCommit(s) PROVE TypeOK'
  BY <1>4 DEF StartCommit, WorkflowStatuses, IncidentStatuses
<1>5. ASSUME NEW s \in Starters, NEW n \in GraphNodes, RunNode(s, n)
      PROVE  /\ node' \in [Starters -> GraphNodes]
             /\ tries' \in [Starters -> 0 .. MaxAttempts - 1]
  BY <1>5, AttemptsAssumption DEF RunNode
<1>6. ASSUME NEW s \in Starters, PreconditionGate(s) PROVE TypeOK'
  <2>1. PICK n \in { "blocked", "triage" } : RunNode(s, n)
    BY <1>6 DEF PreconditionGate
  <2> QED BY <1>5, <1>6, <2>1 DEF PreconditionGate, GraphNodes, AgentNodes
<1>7. ASSUME NEW s \in Starters, Triage(s) PROVE TypeOK'
  BY <1>5, <1>7 DEF Triage, GraphNodes, AgentNodes
<1>8. ASSUME NEW s \in Starters, Planning(s) PROVE TypeOK'
  BY <1>5, <1>8 DEF Planning, GraphNodes, AgentNodes
<1>9. ASSUME NEW s \in Starters, Safety(s) PROVE TypeOK'
  BY <1>5, <1>9 DEF Safety, GraphNodes, AgentNodes
<1>10. ASSUME NEW s \in Starters, Policy(s) PROVE TypeOK'
  <2>1. PICK n \in { "blocked", "approval", "auto_allowed" } : RunNode(s, n)
    BY <1>10 DEF Policy
  <2> QED BY <1>5, <1>10, <2>1 DEF Policy, GraphNodes, AgentNodes
<1>11. ASSUME NEW s \in Starters, RetryAgent(s) PROVE TypeOK'
  BY <1>11, AttemptsAssumption DEF RetryAgent
<1>12. ASSUME NEW s \in Starters, GraphFails(s) PROVE TypeOK'
  BY <1>12, AttemptsAssumption DEF GraphFails, WorkflowStatuses
<1>12a. ASSUME NEW s \in Starters, ResultLost(s)
      PROVE  TypeOK'
  BY <1>12a DEF ResultLost
<1>13. ASSUME NEW s \in Starters, PersistResult(s) PROVE TypeOK'
  <2>1. planRow' \in [Starters -> Plans \cup {NoPlan}]
    BY <1>13 DEF PersistResult
  <2>2. CASE node[s] = "blocked"
    BY <1>13, <2>1, <2>2 DEF PersistResult, WorkflowStatuses
  <2>3. CASE node[s] = "approval"
    <3>1. incident' \in [Incidents -> IncidentStatuses]
      BY <1>13, <2>3 DEF PersistResult, IncidentStatuses
    <3>2. approvalPlan' \in [Starters -> Plans \cup {NoPlan}]
      BY <1>13, <2>1, <2>3 DEF PersistResult
    <3> QED BY <1>13, <2>1, <2>3, <3>1, <3>2 DEF PersistResult, WorkflowStatuses
  <2>4. CASE node[s] = "auto_allowed"
    <3>1. incident' \in [Incidents -> IncidentStatuses]
      BY <1>13, <2>4 DEF PersistResult, IncidentStatuses
    <3> QED BY <1>13, <2>1, <2>4, <3>1 DEF PersistResult, WorkflowStatuses
  <2> QED BY <1>13, <2>2, <2>3, <2>4 DEF PersistResult
<1>14. ASSUME NEW m \in Reviewers, NEW s \in Starters,
              NEW decision \in { "APPROVED", "REJECTED" }, DecideBegin(m, s, decision)
       PROVE  TypeOK'
  BY <1>14 DEF DecideBegin
<1>15. ASSUME NEW m \in Reviewers, DecideResume(m) PROVE TypeOK'
  BY <1>15 DEF DecideResume, GraphNodes
<1>16. ASSUME NEW m \in Reviewers, DecideCommit(m) PROVE TypeOK'
  <2>1. incident' \in [Incidents -> IncidentStatuses]
    BY <1>16 DEF DecideCommit, IncidentStatuses
  <2>2. status' \in [Starters -> WorkflowStatuses]
    BY <1>16 DEF DecideCommit, WorkflowStatuses
  <2>3. orderPlan' \in [Starters -> Plans \cup {NoPlan}]
    BY <1>16 DEF DecideCommit
  <2>5. orderApproval' \in [Starters -> { "NULL", "SET" }]
    BY <1>16 DEF DecideCommit
  <2>4. approval' \in [Starters -> { "NONE", "PENDING", "APPROVED", "REJECTED" }]
    BY <1>16 DEF DecideCommit
  <2> QED BY <1>16, <2>1, <2>2, <2>3, <2>4, <2>5 DEF DecideCommit, EndReview
<1>17. ASSUME NEW m \in Reviewers, DecideAbort(m) PROVE TypeOK'
  BY <1>17 DEF DecideAbort, EndReview, Resumed
<1>18. ASSUME NEW s \in Starters, Cancel(s) PROVE TypeOK'
  BY <1>18 DEF Cancel, WorkflowStatuses
<1>19. CASE Crash
  BY <1>19, AttemptsAssumption DEF Crash, Resumed
<1>20. CASE UNCHANGED vars
  BY <1>20 DEF vars
<1> HIDE DEF TypeOK
<1> QED
  BY <1>1, <1>2, <1>3, <1>4, <1>6, <1>7, <1>8, <1>9, <1>10, <1>11, <1>12, <1>12a, <1>13, <1>14,
     <1>15, <1>16, <1>17, <1>18, <1>19, <1>20
  DEF Next, StartStep, GraphStep, DecideStep

\* The rows, checkpoints and calls of the workflow service stay well typed.
THEOREM TypeCorrect == Spec => []TypeOK
<1>1. Init => TypeOK
  BY AttemptsAssumption
  DEF Init, TypeOK, IncidentStatuses, WorkflowStatuses, GraphNodes
<1> QED BY <1>1, TypeStep, PTL DEF Spec

-----------------------------------------------------------------------------
(* The inductive invariant behind the safety properties                     *)

\* The calls that have not written a result yet, and those without a run.
Unpersisted == { "idle", "locked", "prepared", "graph" }
Unstarted == { "idle", "locked", "prepared" }

\* What the rows and the checkpoint of one run have to do with each other.
RowsOfRun(s) ==
  /\ pc[s] \in Unpersisted => /\ planRow[s] = NoPlan
                              /\ approval[s] = "NONE"
                              /\ orderPlan[s] = NoPlan
                              /\ orderApproval[s] = "NULL"
  /\ pc[s] \in Unstarted => node[s] = "precondition_gate"
  /\ pc[s] \in Unstarted => status[s] = "NONE"
  /\ pc[s] = "graph" \/ approval[s] # "NONE" => status[s] # "NONE"
  /\ approval[s] # "NONE" => /\ planRow[s] = plan[s]
                             /\ approvalPlan[s] = plan[s]
                             /\ node[s] \in { "approval", "approved", "rejected" }
  /\ orderPlan[s] # NoPlan =>
       /\ orderPlan[s] = plan[s]
       /\ planRow[s] = plan[s]
       /\ \/ orderApproval[s] = "SET" /\ approval[s] = "APPROVED"
          \/ orderApproval[s] = "NULL" /\ node[s] = "auto_allowed"
  /\ orderPlan[s] # NoPlan <=> status[s] = "WORK_ORDER_CREATED"
  /\ status[s] = "WAITING_APPROVAL" => approval[s] = "PENDING"
  /\ approval[s] \in { "APPROVED", "REJECTED" } => node[s] \in { "approved", "rejected" }

\* What a checkpoint's position says about the state kept in it.
StateOfThread(s) ==
  /\ node[s] \in { "safety", "policy", "approval", "auto_allowed", "approved", "rejected" } =>
       plan[s] \in Plans
  /\ node[s] = "auto_allowed" => PolicyDecision(s) = "AUTO_ALLOWED"

\* What a decision in flight knows of the rows it has locked.
ReviewInv(m) ==
  /\ rpc[m] = "idle" <=> rrun[m] = NoRun
  /\ rpc[m] # "idle" => /\ rdecision[m] \in { "APPROVED", "REJECTED" }
                        /\ approval[rrun[m]] \in { "PENDING", rdecision[m] }
  /\ rpc[m] = "resumed" => node[rrun[m]] \in { "approved", "rejected" }

OneReviewPerRun ==
  \A m, n \in Reviewers : rrun[m] = rrun[n] /\ rrun[m] # NoRun => m = n

\* Where the checkpoint stands is what the decision d sends it to.
Agrees(s, d) ==
  /\ node[s] = "approved" <=> d = "APPROVED"
  /\ node[s] = "rejected" <=> d = "REJECTED"

\* Outside of a resume the checkpoint agrees with the row, within one with the
\* decision that is being carried out.
Agreement(s) ==
  s \notin aborted =>
    /\ (\A m \in Reviewers : rrun[m] = s => rpc[m] # "resumed") => Agrees(s, approval[s])
    /\ \A m \in Reviewers : rrun[m] = s /\ rpc[m] = "resumed" => Agrees(s, rdecision[m])

IInv ==
  /\ TypeOK
  /\ \A s \in Starters : RowsOfRun(s) /\ StateOfThread(s) /\ Agreement(s)
  /\ \A m \in Reviewers : ReviewInv(m)
  /\ OneReviewPerRun

\* Every step keeps the rows of every run in agreement with its checkpoint.
LEMMA RowsStep ==
  ASSUME IInv, [Next]_vars, NEW t \in Starters
  PROVE  RowsOfRun(t)'
<1> USE DEF IInv, TypeOK, RowsOfRun, ReviewInv, Unpersisted, Unstarted, startVars, threadVars,
        orderVars, reviewVars
<1>1. ASSUME NEW s \in Starters, NEW i \in Incidents, NEW d \in Diagnoses, Lock(s, i, d)
      PROVE  RowsOfRun(t)'
  BY <1>1 DEF Lock
<1>2. ASSUME NEW s \in Starters, StartWithoutRun(s)
      PROVE  RowsOfRun(t)'
  BY <1>2 DEF StartWithoutRun
<1>3. ASSUME NEW s \in Starters, StartPrepare(s)
      PROVE  RowsOfRun(t)'
  BY <1>3 DEF StartPrepare
<1>4. ASSUME NEW s \in Starters, StartCommit(s)
      PROVE  RowsOfRun(t)'
  BY <1>4 DEF StartCommit
<1>5. ASSUME NEW s \in Starters, PreconditionGate(s)
      PROVE  RowsOfRun(t)'
  BY <1>5 DEF PreconditionGate, RunNode
<1>6. ASSUME NEW s \in Starters, Triage(s)
      PROVE  RowsOfRun(t)'
  BY <1>6 DEF Triage, RunNode
<1>7. ASSUME NEW s \in Starters, Planning(s)
      PROVE  RowsOfRun(t)'
  BY <1>7 DEF Planning, RunNode
<1>8. ASSUME NEW s \in Starters, Safety(s)
      PROVE  RowsOfRun(t)'
  BY <1>8 DEF Safety, RunNode
<1>9. ASSUME NEW s \in Starters, Policy(s)
      PROVE  RowsOfRun(t)'
  BY <1>9 DEF Policy, RunNode
<1>10. ASSUME NEW s \in Starters, RetryAgent(s)
      PROVE  RowsOfRun(t)'
  BY <1>10 DEF RetryAgent, AgentNodes
<1>11. ASSUME NEW s \in Starters, GraphFails(s)
      PROVE  RowsOfRun(t)'
  BY <1>11 DEF GraphFails
<1>11a. ASSUME NEW s \in Starters, ResultLost(s)
      PROVE  RowsOfRun(t)'
  BY <1>11a DEF ResultLost
<1>12. ASSUME NEW s \in Starters, PersistResult(s)
      PROVE  RowsOfRun(t)'
  <2>1. CASE t # s
    BY <1>12, <2>1 DEF PersistResult
  <2>2. CASE t = s /\ node[s] = "blocked"
    BY <1>12, <2>2 DEF PersistResult
  <2>3. CASE t = s /\ node[s] = "approval"
    BY <1>12, <2>3 DEF PersistResult
  <2>4. CASE t = s /\ node[s] = "auto_allowed"
    BY <1>12, <2>4, NoPlanAssumption DEF PersistResult, StateOfThread
  <2> QED BY <1>12, <2>1, <2>2, <2>3, <2>4 DEF PersistResult
<1>13. ASSUME NEW m \in Reviewers, NEW s \in Starters,
             NEW decision \in { "APPROVED", "REJECTED" }, DecideBegin(m, s, decision)
      PROVE  RowsOfRun(t)'
  BY <1>13 DEF DecideBegin, RowLocked
<1>14. ASSUME NEW m \in Reviewers, DecideResume(m)
      PROVE  RowsOfRun(t)'
  BY <1>14 DEF DecideResume
<1>15. ASSUME NEW m \in Reviewers, DecideCommit(m)
      PROVE  RowsOfRun(t)'
  <2>1. CASE t # rrun[m]
    BY <1>15, <2>1 DEF DecideCommit, EndReview
  <2>2. CASE t = rrun[m] /\ rdecision[m] = "APPROVED"
    <3>1. plan[t] \in Plans
      BY <1>15, <2>2 DEF DecideCommit, StateOfThread
    <3>2. orderPlan[t] # NoPlan => orderApproval[t] = "SET" /\ approval[t] = "APPROVED"
      BY <1>15, <2>2 DEF DecideCommit
    <3> QED BY <1>15, <2>2, <3>1, <3>2, NoPlanAssumption DEF DecideCommit, EndReview
  <2>3. CASE t = rrun[m] /\ rdecision[m] = "REJECTED"
    <3>1. orderPlan[t] = NoPlan
      BY <1>15, <2>3 DEF DecideCommit
    <3> QED BY <1>15, <2>3, <3>1 DEF DecideCommit, EndReview
  <2> QED BY <1>15, <2>1, <2>2, <2>3 DEF DecideCommit
<1>16. ASSUME NEW m \in Reviewers, DecideAbort(m)
      PROVE  RowsOfRun(t)'
  BY <1>16 DEF DecideAbort, EndReview
<1>17. ASSUME NEW s \in Starters, Cancel(s)
      PROVE  RowsOfRun(t)'
  BY <1>17 DEF Cancel, CANCELLABLE, RowLocked
<1>18. CASE Crash
  BY <1>18 DEF Crash, Locking
<1>19. CASE UNCHANGED vars
  BY <1>19 DEF vars
<1> QED
  BY <1>1, <1>2, <1>3, <1>4, <1>5, <1>6, <1>7, <1>8, <1>9, <1>10,
     <1>11, <1>11a, <1>12, <1>13, <1>14, <1>15, <1>16, <1>17, <1>18, <1>19
  DEF Next, StartStep, GraphStep, DecideStep

\* Every step keeps the state of every thread in agreement with its position.
LEMMA ThreadStep ==
  ASSUME IInv, [Next]_vars, NEW t \in Starters
  PROVE  StateOfThread(t)'
<1> USE DEF IInv, TypeOK, RowsOfRun, ReviewInv, StateOfThread, PolicyDecision, Unpersisted, Unstarted, startVars,
        threadVars, orderVars, reviewVars
<1>1. ASSUME NEW s \in Starters, NEW i \in Incidents, NEW d \in Diagnoses, Lock(s, i, d)
      PROVE  StateOfThread(t)'
  BY <1>1 DEF Lock
<1>2. ASSUME NEW s \in Starters, StartWithoutRun(s)
      PROVE  StateOfThread(t)'
  BY <1>2 DEF StartWithoutRun
<1>3. ASSUME NEW s \in Starters, StartPrepare(s)
      PROVE  StateOfThread(t)'
  BY <1>3 DEF StartPrepare
<1>4. ASSUME NEW s \in Starters, StartCommit(s)
      PROVE  StateOfThread(t)'
  BY <1>4 DEF StartCommit
<1>5. ASSUME NEW s \in Starters, PreconditionGate(s)
      PROVE  StateOfThread(t)'
  BY <1>5 DEF PreconditionGate, RunNode
<1>6. ASSUME NEW s \in Starters, Triage(s)
      PROVE  StateOfThread(t)'
  BY <1>6 DEF Triage, RunNode
<1>7. ASSUME NEW s \in Starters, Planning(s)
      PROVE  StateOfThread(t)'
  BY <1>7 DEF Planning, RunNode
<1>8. ASSUME NEW s \in Starters, Safety(s)
      PROVE  StateOfThread(t)'
  BY <1>8 DEF Safety, RunNode
<1>9. ASSUME NEW s \in Starters, Policy(s)
      PROVE  StateOfThread(t)'
  <2>1. CASE t # s
    BY <1>9, <2>1 DEF Policy, RunNode
  <2>2. CASE t = s
    <3>1. PolicyDecision(s)' = PolicyDecision(s)
      BY <1>9 DEF Policy, RunNode
    <3>2. decide(plan[s], violations[s], retrieval[s].evidence, diagnosis[request[s][2]].status,
                 diagnosis[request[s][2]].severity, retrieval[s].sufficiency) \in Decisions
      BY DEF decide, Decisions
    <3> QED BY <1>9, <2>2, <3>1, <3>2 DEF Policy, RunNode, Decisions
  <2> QED BY <2>1, <2>2
<1>10. ASSUME NEW s \in Starters, RetryAgent(s)
      PROVE  StateOfThread(t)'
  BY <1>10 DEF RetryAgent, AgentNodes
<1>11. ASSUME NEW s \in Starters, GraphFails(s)
      PROVE  StateOfThread(t)'
  BY <1>11 DEF GraphFails
<1>11a. ASSUME NEW s \in Starters, ResultLost(s)
      PROVE  StateOfThread(t)'
  BY <1>11a DEF ResultLost
<1>12. ASSUME NEW s \in Starters, PersistResult(s)
      PROVE  StateOfThread(t)'
  BY <1>12 DEF PersistResult
<1>13. ASSUME NEW m \in Reviewers, NEW s \in Starters,
             NEW decision \in { "APPROVED", "REJECTED" }, DecideBegin(m, s, decision)
      PROVE  StateOfThread(t)'
  BY <1>13 DEF DecideBegin, RowLocked
<1>14. ASSUME NEW m \in Reviewers, DecideResume(m)
      PROVE  StateOfThread(t)'
  BY <1>14 DEF DecideResume
<1>15. ASSUME NEW m \in Reviewers, DecideCommit(m)
      PROVE  StateOfThread(t)'
  BY <1>15 DEF DecideCommit, EndReview
<1>16. ASSUME NEW m \in Reviewers, DecideAbort(m)
      PROVE  StateOfThread(t)'
  BY <1>16 DEF DecideAbort, EndReview
<1>17. ASSUME NEW s \in Starters, Cancel(s)
      PROVE  StateOfThread(t)'
  BY <1>17 DEF Cancel, CANCELLABLE, RowLocked
<1>18. CASE Crash
  BY <1>18 DEF Crash, Locking
<1>19. CASE UNCHANGED vars
  BY <1>19 DEF vars
<1> QED
  BY <1>1, <1>2, <1>3, <1>4, <1>5, <1>6, <1>7, <1>8, <1>9, <1>10,
     <1>11, <1>11a, <1>12, <1>13, <1>14, <1>15, <1>16, <1>17, <1>18, <1>19
  DEF Next, StartStep, GraphStep, DecideStep

\* Every step keeps what a decision in flight knows of its locked rows true.
LEMMA ReviewStep ==
  ASSUME IInv, [Next]_vars, NEW k \in Reviewers
  PROVE  ReviewInv(k)'
<1> USE NoRunAssumption
    DEF IInv, TypeOK, RowsOfRun, ReviewInv, OneReviewPerRun, Unpersisted, Unstarted, startVars,
        threadVars, orderVars, reviewVars
<1>1. ASSUME NEW s \in Starters, NEW i \in Incidents, NEW d \in Diagnoses, Lock(s, i, d)
      PROVE  ReviewInv(k)'
  BY <1>1 DEF Lock
<1>2. ASSUME NEW s \in Starters, StartWithoutRun(s)
      PROVE  ReviewInv(k)'
  BY <1>2 DEF StartWithoutRun
<1>3. ASSUME NEW s \in Starters, StartPrepare(s)
      PROVE  ReviewInv(k)'
  BY <1>3 DEF StartPrepare
<1>4. ASSUME NEW s \in Starters, StartCommit(s)
      PROVE  ReviewInv(k)'
  BY <1>4 DEF StartCommit
<1>5. ASSUME NEW s \in Starters, PreconditionGate(s)
      PROVE  ReviewInv(k)'
  BY <1>5 DEF PreconditionGate, RunNode
<1>6. ASSUME NEW s \in Starters, Triage(s)
      PROVE  ReviewInv(k)'
  BY <1>6 DEF Triage, RunNode
<1>7. ASSUME NEW s \in Starters, Planning(s)
      PROVE  ReviewInv(k)'
  BY <1>7 DEF Planning, RunNode
<1>8. ASSUME NEW s \in Starters, Safety(s)
      PROVE  ReviewInv(k)'
  BY <1>8 DEF Safety, RunNode
<1>9. ASSUME NEW s \in Starters, Policy(s)
      PROVE  ReviewInv(k)'
  BY <1>9 DEF Policy, RunNode
<1>10. ASSUME NEW s \in Starters, RetryAgent(s)
      PROVE  ReviewInv(k)'
  BY <1>10 DEF RetryAgent, AgentNodes
<1>11. ASSUME NEW s \in Starters, GraphFails(s)
      PROVE  ReviewInv(k)'
  BY <1>11 DEF GraphFails
<1>11a. ASSUME NEW s \in Starters, ResultLost(s)
      PROVE  ReviewInv(k)'
  BY <1>11a DEF ResultLost
<1>12. ASSUME NEW s \in Starters, PersistResult(s)
      PROVE  ReviewInv(k)'
  BY <1>12 DEF PersistResult
<1>13. ASSUME NEW m \in Reviewers, NEW s \in Starters,
             NEW decision \in { "APPROVED", "REJECTED" }, DecideBegin(m, s, decision)
      PROVE  ReviewInv(k)'
  BY <1>13 DEF DecideBegin, RowLocked
<1>14. ASSUME NEW m \in Reviewers, DecideResume(m)
      PROVE  ReviewInv(k)'
  BY <1>14 DEF DecideResume
<1>15. ASSUME NEW m \in Reviewers, DecideCommit(m)
      PROVE  ReviewInv(k)'
  BY <1>15 DEF DecideCommit, EndReview
<1>16. ASSUME NEW m \in Reviewers, DecideAbort(m)
      PROVE  ReviewInv(k)'
  BY <1>16 DEF DecideAbort, EndReview
<1>17. ASSUME NEW s \in Starters, Cancel(s)
      PROVE  ReviewInv(k)'
  BY <1>17 DEF Cancel, CANCELLABLE, RowLocked
<1>18. CASE Crash
  BY <1>18 DEF Crash, Locking
<1>19. CASE UNCHANGED vars
  BY <1>19 DEF vars
<1> QED
  BY <1>1, <1>2, <1>3, <1>4, <1>5, <1>6, <1>7, <1>8, <1>9, <1>10,
     <1>11, <1>11a, <1>12, <1>13, <1>14, <1>15, <1>16, <1>17, <1>18, <1>19
  DEF Next, StartStep, GraphStep, DecideStep

\* The row locks keep two decisions from working on the same run.
LEMMA OneReviewStep ==
  ASSUME IInv, [Next]_vars
  PROVE  OneReviewPerRun'
<1> USE NoRunAssumption DEF IInv, TypeOK, OneReviewPerRun, reviewVars
<1>1. ASSUME NEW s \in Starters, NEW i \in Incidents, NEW d \in Diagnoses, Lock(s, i, d)
      PROVE  OneReviewPerRun'
  BY <1>1 DEF Lock
<1>2. ASSUME NEW s \in Starters, StartWithoutRun(s)
      PROVE  OneReviewPerRun'
  BY <1>2 DEF StartWithoutRun
<1>3. ASSUME NEW s \in Starters, StartPrepare(s)
      PROVE  OneReviewPerRun'
  BY <1>3 DEF StartPrepare
<1>4. ASSUME NEW s \in Starters, StartCommit(s)
      PROVE  OneReviewPerRun'
  BY <1>4 DEF StartCommit
<1>5. ASSUME NEW s \in Starters, PreconditionGate(s)
      PROVE  OneReviewPerRun'
  BY <1>5 DEF PreconditionGate, RunNode
<1>6. ASSUME NEW s \in Starters, Triage(s)
      PROVE  OneReviewPerRun'
  BY <1>6 DEF Triage, RunNode
<1>7. ASSUME NEW s \in Starters, Planning(s)
      PROVE  OneReviewPerRun'
  BY <1>7 DEF Planning, RunNode
<1>8. ASSUME NEW s \in Starters, Safety(s)
      PROVE  OneReviewPerRun'
  BY <1>8 DEF Safety, RunNode
<1>9. ASSUME NEW s \in Starters, Policy(s)
      PROVE  OneReviewPerRun'
  BY <1>9 DEF Policy, RunNode
<1>10. ASSUME NEW s \in Starters, RetryAgent(s)
      PROVE  OneReviewPerRun'
  BY <1>10 DEF RetryAgent, AgentNodes
<1>11. ASSUME NEW s \in Starters, GraphFails(s)
      PROVE  OneReviewPerRun'
  BY <1>11 DEF GraphFails
<1>11a. ASSUME NEW s \in Starters, ResultLost(s)
      PROVE  OneReviewPerRun'
  BY <1>11a DEF ResultLost
<1>12. ASSUME NEW s \in Starters, PersistResult(s)
      PROVE  OneReviewPerRun'
  BY <1>12 DEF PersistResult
<1>13. ASSUME NEW m \in Reviewers, NEW s \in Starters,
             NEW decision \in { "APPROVED", "REJECTED" }, DecideBegin(m, s, decision)
      PROVE  OneReviewPerRun'
  BY <1>13 DEF DecideBegin, RowLocked
<1>14. ASSUME NEW m \in Reviewers, DecideResume(m)
      PROVE  OneReviewPerRun'
  BY <1>14 DEF DecideResume
<1>15. ASSUME NEW m \in Reviewers, DecideCommit(m)
      PROVE  OneReviewPerRun'
  BY <1>15 DEF DecideCommit, EndReview
<1>16. ASSUME NEW m \in Reviewers, DecideAbort(m)
      PROVE  OneReviewPerRun'
  BY <1>16 DEF DecideAbort, EndReview
<1>17. ASSUME NEW s \in Starters, Cancel(s)
      PROVE  OneReviewPerRun'
  BY <1>17 DEF Cancel, CANCELLABLE, RowLocked
<1>18. CASE Crash
  BY <1>18 DEF Crash, Locking
<1>19. CASE UNCHANGED vars
  BY <1>19 DEF vars
<1> QED
  BY <1>1, <1>2, <1>3, <1>4, <1>5, <1>6, <1>7, <1>8, <1>9, <1>10,
     <1>11, <1>11a, <1>12, <1>13, <1>14, <1>15, <1>16, <1>17, <1>18, <1>19
  DEF Next, StartStep, GraphStep, DecideStep

\* Every step keeps what the graph was resumed with and what is on record in
\* agreement, unless a decision is lost between the two.
LEMMA AgreementStep ==
  ASSUME IInv, [Next]_vars, NEW t \in Starters
  PROVE  Agreement(t)'
<1> USE NoRunAssumption
    DEF IInv, TypeOK, RowsOfRun, ReviewInv, OneReviewPerRun, Agreement, Agrees, Unpersisted,
        Unstarted, startVars, threadVars, orderVars, reviewVars
<1>1. ASSUME NEW s \in Starters, NEW i \in Incidents, NEW d \in Diagnoses, Lock(s, i, d)
      PROVE  Agreement(t)'
  BY <1>1 DEF Lock
<1>2. ASSUME NEW s \in Starters, StartWithoutRun(s)
      PROVE  Agreement(t)'
  BY <1>2 DEF StartWithoutRun
<1>3. ASSUME NEW s \in Starters, StartPrepare(s)
      PROVE  Agreement(t)'
  BY <1>3 DEF StartPrepare
<1>4. ASSUME NEW s \in Starters, StartCommit(s)
      PROVE  Agreement(t)'
  BY <1>4 DEF StartCommit
<1>5. ASSUME NEW s \in Starters, PreconditionGate(s)
      PROVE  Agreement(t)'
  BY <1>5 DEF PreconditionGate, RunNode
<1>6. ASSUME NEW s \in Starters, Triage(s)
      PROVE  Agreement(t)'
  BY <1>6 DEF Triage, RunNode
<1>7. ASSUME NEW s \in Starters, Planning(s)
      PROVE  Agreement(t)'
  BY <1>7 DEF Planning, RunNode
<1>8. ASSUME NEW s \in Starters, Safety(s)
      PROVE  Agreement(t)'
  BY <1>8 DEF Safety, RunNode
<1>9. ASSUME NEW s \in Starters, Policy(s)
      PROVE  Agreement(t)'
  BY <1>9 DEF Policy, RunNode
<1>10. ASSUME NEW s \in Starters, RetryAgent(s)
      PROVE  Agreement(t)'
  BY <1>10 DEF RetryAgent
<1>11. ASSUME NEW s \in Starters, GraphFails(s)
      PROVE  Agreement(t)'
  BY <1>11 DEF GraphFails
<1>11a. ASSUME NEW s \in Starters, ResultLost(s)
      PROVE  Agreement(t)'
  BY <1>11a DEF ResultLost
<1>12. ASSUME NEW s \in Starters, PersistResult(s)
      PROVE  Agreement(t)'
  BY <1>12 DEF PersistResult
<1>13. ASSUME NEW m \in Reviewers, NEW s \in Starters,
             NEW decision \in { "APPROVED", "REJECTED" }, DecideBegin(m, s, decision)
      PROVE  Agreement(t)'
  BY <1>13 DEF DecideBegin, RowLocked
<1>14. ASSUME NEW m \in Reviewers, DecideResume(m)
      PROVE  Agreement(t)'
  BY <1>14 DEF DecideResume
<1>15. ASSUME NEW m \in Reviewers, DecideCommit(m)
      PROVE  Agreement(t)'
  <2>1. /\ rpc[m] = "resumed" /\ rrun[m] \in Starters
        /\ approval' = [approval EXCEPT ![rrun[m]] = rdecision[m]]
        /\ UNCHANGED << node, aborted >>
    BY <1>15 DEF DecideCommit
  <2>2. /\ rpc' = [rpc EXCEPT ![m] = "idle"]
        /\ rrun' = [rrun EXCEPT ![m] = NoRun]
        /\ rdecision' = [rdecision EXCEPT ![m] = "NONE"]
    BY <1>15 DEF DecideCommit, EndReview
  <2>3. CASE t = rrun[m]
    BY <2>1, <2>2, <2>3
  <2>4. CASE t # rrun[m]
    BY <2>1, <2>2, <2>4
  <2> QED BY <2>3, <2>4
<1>16. ASSUME NEW m \in Reviewers, DecideAbort(m)
      PROVE  Agreement(t)'
  BY <1>16 DEF DecideAbort, EndReview, Resumed
<1>17. ASSUME NEW s \in Starters, Cancel(s)
      PROVE  Agreement(t)'
  BY <1>17 DEF Cancel
<1>18. CASE Crash
  BY <1>18 DEF Crash, Resumed
<1>19. CASE UNCHANGED vars
  BY <1>19 DEF vars
<1> QED
  BY <1>1, <1>2, <1>3, <1>4, <1>5, <1>6, <1>7, <1>8, <1>9, <1>10,
     <1>11, <1>11a, <1>12, <1>13, <1>14, <1>15, <1>16, <1>17, <1>18, <1>19
  DEF Next, StartStep, GraphStep, DecideStep

\* The invariant holds initially and is kept by every step.
LEMMA Invariance == Spec => []IInv
<1>1. Init => IInv
  BY AttemptsAssumption, NoRunAssumption
  DEF Init, IInv, TypeOK, RowsOfRun, StateOfThread, ReviewInv, OneReviewPerRun, Agreement, Agrees,
      Unpersisted, Unstarted, IncidentStatuses, WorkflowStatuses, GraphNodes
<1>2. IInv /\ [Next]_vars => IInv'
  BY TypeStep, RowsStep, ThreadStep, ReviewStep, OneReviewStep, AgreementStep DEF IInv
<1> QED BY <1>1, <1>2, PTL DEF Spec

-----------------------------------------------------------------------------
(* What follows from the invariant                                          *)

\* The policy lets a plan through unasked only if it is grounded and low-risk.
LEMMA AutoAllowedIsLowRisk ==
  ASSUME NEW p \in Plans, NEW v, NEW valid, NEW st, NEW sev, NEW suf,
         decide(p, v, valid, st, sev, suf) = "AUTO_ALLOWED"
  PROVE  /\ st = "FAULT"
         /\ sev \notin { "HIGH", "CRITICAL" }
         /\ \A step \in p : step.action \notin APPROVAL_ACTIONS /\ step.evidence \subseteq valid
<1>1. ~Blocked(p, v, valid, st, suf) /\ ~NeedsApproval(p, sev)
  BY DEF decide
<1>2. \A step \in p : step.evidence \subseteq valid
  BY <1>1 DEF Blocked, validate_grounding
<1>3. \A step \in p : step.action \notin APPROVAL_ACTIONS
  BY <1>1 DEF NeedsApproval
<1> QED BY <1>1, <1>2, <1>3 DEF Blocked, NeedsApproval, EffectiveSeverity

\* Every work order carries the recorded plan and was approved or is low-risk.
THEOREM OrdersAreAuthorized == Spec => []OrderAuthorized
<1>1. IInv => OrderAuthorized
  <2> SUFFICES ASSUME IInv, NEW s \in Starters, orderPlan[s] # NoPlan
               PROVE  /\ orderPlan[s] = planRow[s]
                      /\ \/ /\ orderApproval[s] = "SET"
                            /\ approval[s] = "APPROVED"
                            /\ approvalPlan[s] = orderPlan[s]
                         \/ orderApproval[s] = "NULL" /\ LowRisk(s)
    BY DEF OrderAuthorized
  <2>1. RowsOfRun(s) /\ StateOfThread(s)
    BY DEF IInv
  <2>2. CASE node[s] = "auto_allowed"
    BY <2>1, <2>2, AutoAllowedIsLowRisk
    DEF RowsOfRun, StateOfThread, PolicyDecision, LowRisk
  <2>3. CASE node[s] # "auto_allowed"
    BY <2>1, <2>3 DEF RowsOfRun
  <2> QED BY <2>2, <2>3
<1> QED BY <1>1, Invariance, PTL

\* A run has a work order exactly when its status says so.
THEOREM OrdersMatchStatus == Spec => []OrderIffStatus
<1>1. IInv => OrderIffStatus
  BY DEF IInv, RowsOfRun, OrderIffStatus
<1> QED BY <1>1, Invariance, PTL

\* A waiting run can be decided, and the graph was resumed with the decision on record,
\* or with none while there is none, unless a decision was lost after its resume.
THEOREM ApprovalsAreSound == Spec => []ApprovalsSound
<1>1. IInv => WaitingIsDecidable
  BY DEF IInv, RowsOfRun, StateOfThread, WaitingIsDecidable
<1>2. IInv => DecisionsReachTheGraph
  <2> SUFFICES ASSUME IInv, NEW s \in Starters
               PROVE  /\ approval[s] \in { "APPROVED", "REJECTED" } =>
                           node[s] \in { "approved", "rejected" }
                      /\ s \notin aborted /\ ~RowLocked(s) => Agrees(s, approval[s])
    BY DEF DecisionsReachTheGraph, Agrees
  <2> QED BY DEF IInv, RowsOfRun, Agreement, RowLocked
<1> QED BY <1>1, <1>2, Invariance, PTL DEF ApprovalsSound

\* No step changes a decision that has been recorded or a work order that exists.
LEMMA DecisionsStandStep ==
  ASSUME IInv, [Next]_vars, NEW t \in Starters
  PROVE  /\ approval[t] \in { "APPROVED", "REJECTED" } => approval'[t] = approval[t]
         /\ orderPlan[t] # NoPlan => /\ orderPlan'[t] = orderPlan[t]
                                     /\ orderApproval'[t] = orderApproval[t]
<1> DEFINE Goal ==
      /\ approval[t] \in { "APPROVED", "REJECTED" } => approval'[t] = approval[t]
      /\ orderPlan[t] # NoPlan => /\ orderPlan'[t] = orderPlan[t]
                                  /\ orderApproval'[t] = orderApproval[t]
<1> USE DEF IInv, TypeOK, RowsOfRun, ReviewInv, Unpersisted, startVars, threadVars, orderVars,
        reviewVars
<1>1. ASSUME NEW s \in Starters, NEW i \in Incidents, NEW d \in Diagnoses, Lock(s, i, d)
      PROVE  Goal
  BY <1>1 DEF Lock
<1>2. ASSUME NEW s \in Starters, StartWithoutRun(s)
      PROVE  Goal
  BY <1>2 DEF StartWithoutRun
<1>3. ASSUME NEW s \in Starters, StartPrepare(s)
      PROVE  Goal
  BY <1>3 DEF StartPrepare
<1>4. ASSUME NEW s \in Starters, StartCommit(s)
      PROVE  Goal
  BY <1>4 DEF StartCommit
<1>5. ASSUME NEW s \in Starters, PreconditionGate(s)
      PROVE  Goal
  BY <1>5 DEF PreconditionGate, RunNode
<1>6. ASSUME NEW s \in Starters, Triage(s)
      PROVE  Goal
  BY <1>6 DEF Triage, RunNode
<1>7. ASSUME NEW s \in Starters, Planning(s)
      PROVE  Goal
  BY <1>7 DEF Planning, RunNode
<1>8. ASSUME NEW s \in Starters, Safety(s)
      PROVE  Goal
  BY <1>8 DEF Safety, RunNode
<1>9. ASSUME NEW s \in Starters, Policy(s)
      PROVE  Goal
  BY <1>9 DEF Policy, RunNode
<1>10. ASSUME NEW s \in Starters, RetryAgent(s)
      PROVE  Goal
  BY <1>10 DEF RetryAgent, AgentNodes
<1>11. ASSUME NEW s \in Starters, GraphFails(s)
      PROVE  Goal
  BY <1>11 DEF GraphFails
<1>11a. ASSUME NEW s \in Starters, ResultLost(s)
      PROVE  Goal
  BY <1>11a DEF ResultLost
<1>12. ASSUME NEW s \in Starters, PersistResult(s)
      PROVE  Goal
  BY <1>12 DEF PersistResult
<1>13. ASSUME NEW m \in Reviewers, NEW s \in Starters,
             NEW decision \in { "APPROVED", "REJECTED" }, DecideBegin(m, s, decision)
      PROVE  Goal
  BY <1>13 DEF DecideBegin
<1>14. ASSUME NEW m \in Reviewers, DecideResume(m)
      PROVE  Goal
  BY <1>14 DEF DecideResume
<1>15. ASSUME NEW m \in Reviewers, DecideCommit(m)
      PROVE  Goal
  BY <1>15 DEF DecideCommit, EndReview
<1>16. ASSUME NEW m \in Reviewers, DecideAbort(m)
      PROVE  Goal
  BY <1>16 DEF DecideAbort, EndReview
<1>17. ASSUME NEW s \in Starters, Cancel(s)
      PROVE  Goal
  BY <1>17 DEF Cancel, CANCELLABLE
<1>18. CASE Crash
  BY <1>18 DEF Crash, Locking
<1>19. CASE UNCHANGED vars
  BY <1>19 DEF vars
<1> QED
  BY <1>1, <1>2, <1>3, <1>4, <1>5, <1>6, <1>7, <1>8, <1>9, <1>10,
     <1>11, <1>11a, <1>12, <1>13, <1>14, <1>15, <1>16, <1>17, <1>18, <1>19
  DEF Next, StartStep, GraphStep, DecideStep

\* The first decision on an approval stands, and an issued work order is final.
THEOREM DecisionsAreFinal == Spec => DecisionsStand
<1>1. IInv /\ [Next]_vars =>
        [\A s \in Starters :
           /\ approval[s] \in { "APPROVED", "REJECTED" } => approval'[s] = approval[s]
           /\ orderPlan[s] # NoPlan => /\ orderPlan'[s] = orderPlan[s]
                                       /\ orderApproval'[s] = orderApproval[s]]_vars
  BY DecisionsStandStep
<1> QED BY <1>1, Invariance, PTL DEF Spec, DecisionsStand

-----------------------------------------------------------------------------
(* One run per request                                                      *)

\* Two calls never hold the lock of the same key, and a call that holds it past
\* its look-up knows that there is no run with that key.
KeyInv ==
  /\ \A s, t \in Starters :
       pc[s] \in Locking /\ pc[t] \in Locking /\ request[s] = request[t] => s = t
  /\ \A s, t \in Starters :
       pc[s] = "prepared" /\ status[t] # "NONE" => request[s] # request[t]
  /\ OneRunPerRequest

\* No step lets two runs have the same key: the advisory lock keeps any other call
\* from passing the look-up until the row is committed.
LEMMA KeyStep ==
  ASSUME IInv, KeyInv, [Next]_vars
  PROVE  KeyInv'
<1> USE DEF IInv, TypeOK, RowsOfRun, ReviewInv, KeyInv, OneRunPerRequest, Unstarted, Locking,
        startVars, threadVars
<1>1. ASSUME NEW s \in Starters, NEW i \in Incidents, NEW d \in Diagnoses, Lock(s, i, d)
      PROVE  KeyInv'
  <2>1. /\ status' = status /\ status[s] = "NONE" /\ pc[s] = "idle"
        /\ \A t \in Starters \ {s} : request'[t] = request[t] /\ pc'[t] = pc[t]
        /\ pc'[s] = "locked"
    BY <1>1 DEF Lock
  <2>2. ASSUME NEW t \in Starters, pc[t] \in Locking PROVE request'[t] # request'[s]
    <3>1. \A u \in Starters : pc[u] \in { "locked", "prepared" } => request'[u] # request'[s]
      BY <1>1 DEF Lock, idempotency_key
    <3> QED BY <2>2, <3>1
  <2> HIDE DEF IInv
  <2>3. ASSUME NEW u \in Starters, NEW t \in Starters, pc'[u] \in Locking, pc'[t] \in Locking,
               request'[u] = request'[t]
        PROVE  u = t
    BY <2>1, <2>2, <2>3
  <2>4. ASSUME NEW u \in Starters, NEW t \in Starters, pc'[u] = "prepared", status'[t] # "NONE"
        PROVE  request'[u] # request'[t]
    BY <2>1, <2>4
  <2>5. OneRunPerRequest'
    BY <2>1
  <2> QED BY <2>3, <2>4, <2>5
<1>2. ASSUME NEW s \in Starters, StartWithoutRun(s)
      PROVE  KeyInv'
  BY <1>2 DEF StartWithoutRun, Existing, idempotency_key
<1>3. ASSUME NEW s \in Starters, StartPrepare(s)
      PROVE  KeyInv'
  BY <1>3 DEF StartPrepare, Existing, idempotency_key
<1>4. ASSUME NEW s \in Starters, StartCommit(s)
      PROVE  KeyInv'
  BY <1>4 DEF StartCommit
<1>5. ASSUME NEW s \in Starters, PreconditionGate(s)
      PROVE  KeyInv'
  BY <1>5 DEF PreconditionGate, RunNode
<1>6. ASSUME NEW s \in Starters, Triage(s)
      PROVE  KeyInv'
  BY <1>6 DEF Triage, RunNode
<1>7. ASSUME NEW s \in Starters, Planning(s)
      PROVE  KeyInv'
  BY <1>7 DEF Planning, RunNode
<1>8. ASSUME NEW s \in Starters, Safety(s)
      PROVE  KeyInv'
  BY <1>8 DEF Safety, RunNode
<1>9. ASSUME NEW s \in Starters, Policy(s)
      PROVE  KeyInv'
  BY <1>9 DEF Policy, RunNode
<1>10. ASSUME NEW s \in Starters, RetryAgent(s)
      PROVE  KeyInv'
  BY <1>10 DEF RetryAgent, AgentNodes
<1>11. ASSUME NEW s \in Starters, GraphFails(s)
      PROVE  KeyInv'
  BY <1>11 DEF GraphFails
<1>11a. ASSUME NEW s \in Starters, ResultLost(s)
      PROVE  KeyInv'
  BY <1>11a DEF ResultLost
<1>12. ASSUME NEW s \in Starters, PersistResult(s)
      PROVE  KeyInv'
  <2>1. \A t \in Starters : status'[t] # "NONE" <=> status[t] # "NONE"
    <3>1. status[s] # "NONE" /\ \E v \in WorkflowStatuses \ {"NONE"} : status' = [status EXCEPT ![s] = v]
      BY <1>12 DEF PersistResult, WorkflowStatuses
    <3> QED BY <3>1
  <2>2. request' = request /\ pc' = [pc EXCEPT ![s] = "done"]
    BY <1>12 DEF PersistResult
  <2> QED BY <2>1, <2>2
<1>13. ASSUME NEW m \in Reviewers, NEW s \in Starters,
             NEW decision \in { "APPROVED", "REJECTED" }, DecideBegin(m, s, decision)
      PROVE  KeyInv'
  BY <1>13 DEF DecideBegin
<1>14. ASSUME NEW m \in Reviewers, DecideResume(m)
      PROVE  KeyInv'
  BY <1>14 DEF DecideResume
<1>15. ASSUME NEW m \in Reviewers, DecideCommit(m)
      PROVE  KeyInv'
  <2>1. \A t \in Starters : status'[t] # "NONE" <=> status[t] # "NONE"
    <3>1. rrun[m] \in Starters /\ status[rrun[m]] # "NONE"
      BY <1>15 DEF DecideCommit
    <3> QED BY <1>15, <3>1 DEF DecideCommit
  <2>2. pc' = pc /\ request' = request
    BY <1>15 DEF DecideCommit
  <2> QED BY <2>1, <2>2
<1>16. ASSUME NEW m \in Reviewers, DecideAbort(m)
      PROVE  KeyInv'
  BY <1>16 DEF DecideAbort, EndReview
<1>17. ASSUME NEW s \in Starters, Cancel(s)
      PROVE  KeyInv'
  BY <1>17 DEF Cancel, CANCELLABLE
<1>18. CASE Crash
  BY <1>18 DEF Crash, Locking
<1>19. CASE UNCHANGED vars
  BY <1>19 DEF vars
<1> QED
  BY <1>1, <1>2, <1>3, <1>4, <1>5, <1>6, <1>7, <1>8, <1>9, <1>10,
     <1>11, <1>11a, <1>12, <1>13, <1>14, <1>15, <1>16, <1>17, <1>18, <1>19
  DEF Next, StartStep, GraphStep, DecideStep

\* Concurrent and repeated start calls leave at most one run per request.
THEOREM RunsAreUnique == Spec => []OneRunPerRequest
<1>1. Init => KeyInv
  BY DEF Init, KeyInv, OneRunPerRequest, Locking
<1>2. IInv /\ KeyInv /\ [Next]_vars => KeyInv'
  BY KeyStep
<1>3. KeyInv => OneRunPerRequest
  BY DEF KeyInv
<1> QED BY <1>1, <1>2, <1>3, Invariance, PTL DEF Spec

\* Both together, as the run checks them: one run per request and a work order
\* exactly where its row announces one (start, _persist_result, decide_approval).
THEOREM RunsAndOrdersAgree == Spec => []RunsAndOrders
<1>1. OrderIffStatus /\ OneRunPerRequest => RunsAndOrders
  BY DEF RunsAndOrders
<1> QED BY <1>1, OrdersMatchStatus, RunsAreUnique, PTL

-----------------------------------------------------------------------------
(* The status of an incident is earned by one of its runs                   *)

\* What makes a run a witness for the status of its incident, and what it shows.
IsRun(t) == status[t] # "NONE"
CameToApproval(t) == approval[t] # "NONE"
HasOrder(t) == orderPlan[t] # NoPlan

\* A run stays a run of its request, and what it has shown stays shown.
WitnessKept(t) ==
  IsRun(t) => /\ IsRun(t)' /\ request'[t] = request[t]
              /\ CameToApproval(t) => CameToApproval(t)'
              /\ HasOrder(t) => HasOrder(t)'

\* No step takes a witness away: rows are never deleted, a request is dropped only by a
\* call that has no run yet, and a decision overwrites an approval by a decision.
LEMMA WitnessStep ==
  ASSUME IInv, [Next]_vars, NEW t \in Starters
  PROVE  WitnessKept(t)
<1> USE DEF IInv, TypeOK, WitnessKept, IsRun, CameToApproval, HasOrder, startVars, threadVars, orderVars
<1>0. pc[t] \in Unstarted => status[t] = "NONE"
  BY DEF RowsOfRun
<1>1. ASSUME NEW s \in Starters, NEW i \in Incidents, NEW d \in Diagnoses, Lock(s, i, d)
      PROVE  WitnessKept(t)
  BY <1>0, <1>1 DEF Lock, Unstarted
<1>2. ASSUME NEW s \in Starters, StartWithoutRun(s)
      PROVE  WitnessKept(t)
  BY <1>0, <1>2 DEF StartWithoutRun, Unstarted
<1>3. ASSUME NEW s \in Starters, StartPrepare(s)
      PROVE  WitnessKept(t)
  BY <1>0, <1>3 DEF StartPrepare
<1>4. ASSUME NEW s \in Starters, StartCommit(s)
      PROVE  WitnessKept(t)
  BY <1>0, <1>4 DEF StartCommit
<1>5. ASSUME NEW s \in Starters, PreconditionGate(s)
      PROVE  WitnessKept(t)
  BY <1>0, <1>5 DEF PreconditionGate, RunNode
<1>6. ASSUME NEW s \in Starters, Triage(s)
      PROVE  WitnessKept(t)
  BY <1>0, <1>6 DEF Triage, RunNode
<1>7. ASSUME NEW s \in Starters, Planning(s)
      PROVE  WitnessKept(t)
  BY <1>0, <1>7 DEF Planning, RunNode
<1>8. ASSUME NEW s \in Starters, Safety(s)
      PROVE  WitnessKept(t)
  BY <1>0, <1>8 DEF Safety, RunNode
<1>9. ASSUME NEW s \in Starters, Policy(s)
      PROVE  WitnessKept(t)
  BY <1>0, <1>9 DEF Policy, RunNode
<1>10. ASSUME NEW s \in Starters, RetryAgent(s)
      PROVE  WitnessKept(t)
  BY <1>0, <1>10 DEF RetryAgent
<1>11. ASSUME NEW s \in Starters, GraphFails(s)
      PROVE  WitnessKept(t)
  BY <1>0, <1>11 DEF GraphFails
<1>11a. ASSUME NEW s \in Starters, ResultLost(s)
      PROVE  WitnessKept(t)
  BY <1>0, <1>11a DEF ResultLost
<1>12. ASSUME NEW s \in Starters, PersistResult(s)
      PROVE  WitnessKept(t)
  BY <1>0, <1>12 DEF PersistResult, RowsOfRun, Unpersisted
<1>13. ASSUME NEW m \in Reviewers, NEW s \in Starters, NEW decision \in { "APPROVED", "REJECTED" }, DecideBegin(m, s, decision)
      PROVE  WitnessKept(t)
  BY <1>0, <1>13 DEF DecideBegin
<1>14. ASSUME NEW m \in Reviewers, DecideResume(m)
      PROVE  WitnessKept(t)
  BY <1>0, <1>14 DEF DecideResume
<1>15. ASSUME NEW m \in Reviewers, DecideCommit(m) PROVE WitnessKept(t)
  <2>1. rrun[m] \in Starters /\ rdecision[m] \in { "APPROVED", "REJECTED" }
    BY <1>15 DEF DecideCommit, ReviewInv
  <2>2. \/ orderPlan' = [orderPlan EXCEPT ![rrun[m]] = IF @ = NoPlan THEN plan[rrun[m]] ELSE @]
        \/ UNCHANGED orderPlan
    BY <1>15 DEF DecideCommit
  <2>3. HasOrder(t) => HasOrder(t)'
    BY <2>2
  <2>4. /\ request' = request /\ approval' = [approval EXCEPT ![rrun[m]] = rdecision[m]]
        /\ \E x \in { "WORK_ORDER_CREATED", "REJECTED" } : status' = [status EXCEPT ![rrun[m]] = x]
    BY <1>15 DEF DecideCommit
  <2>5. (IsRun(t) => IsRun(t)') /\ (CameToApproval(t) => CameToApproval(t)')
    BY <2>1, <2>4
  <2> QED BY <2>3, <2>4, <2>5
<1>16. ASSUME NEW m \in Reviewers, DecideAbort(m)
      PROVE  WitnessKept(t)
  BY <1>0, <1>16 DEF DecideAbort, EndReview
<1>17. ASSUME NEW s \in Starters, Cancel(s)
      PROVE  WitnessKept(t)
  BY <1>0, <1>17 DEF Cancel, CANCELLABLE
<1>18. CASE Crash
  BY <1>0, <1>18 DEF Crash, Locking, Unstarted
<1>19. CASE UNCHANGED vars
  BY <1>19 DEF vars
<1> QED
  BY <1>1, <1>2, <1>3, <1>4, <1>5, <1>6, <1>7, <1>8, <1>9, <1>10,
     <1>11, <1>11a, <1>12, <1>13, <1>14, <1>15, <1>16, <1>17, <1>18, <1>19
  DEF Next, StartStep, GraphStep, DecideStep

\* What a step makes of an incident: nothing, UNDER_ANALYSIS, or what a run of it has just
\* come to.
Moved(i) ==
  \/ incident'[i] \in { incident[i], "UNDER_ANALYSIS" }
  \/ \E s \in Starters :
       /\ IsRun(s)' /\ request'[s][1] = i
       /\ \/ incident'[i] = "ACTION_PENDING" /\ CameToApproval(s)'
          \/ incident'[i] = "WORK_ORDER_CREATED" /\ HasOrder(s)'

\* Only _persist_result and decide_approval write the two statuses, each in the commit that
\* brings its run to the approval or to the order.
LEMMA MovedStep ==
  ASSUME IInv, [Next]_vars, NEW i \in Incidents
  PROVE  Moved(i)
<1>0. /\ incident \in [Incidents -> IncidentStatuses] /\ approval \in [Starters -> { "NONE", "PENDING", "APPROVED", "REJECTED" }]
      /\ status \in [Starters -> WorkflowStatuses] /\ orderPlan \in [Starters -> Plans \cup {NoPlan}]
      /\ \A s \in Starters : RowsOfRun(s) /\ StateOfThread(s)
  BY DEF IInv, TypeOK
<1>a. UNCHANGED incident => Moved(i)
  BY DEF Moved
<1>1. ASSUME NEW s \in Starters, StartCommit(s) PROVE Moved(i)
  BY <1>0, <1>1 DEF StartCommit, Moved
<1>2. ASSUME NEW s \in Starters, PersistResult(s) PROVE Moved(i)
  <2>1. CASE node[s] = "blocked"
    BY <1>a, <1>2, <2>1 DEF PersistResult
  <2>2. CASE node[s] = "approval"
    <3>1. /\ incident' = [incident EXCEPT ![request[s][1]] = "ACTION_PENDING"] /\ request' = request
          /\ approval'[s] = "PENDING" /\ status'[s] = "WAITING_APPROVAL"
      BY <1>0, <1>2, <2>2 DEF PersistResult
    <3>2. CASE i = request[s][1]
      BY <1>0, <3>1, <3>2 DEF Moved, IsRun, CameToApproval
    <3>3. CASE i # request[s][1]
      BY <1>0, <3>1, <3>3 DEF Moved
    <3> QED BY <3>2, <3>3
  <2>3. CASE node[s] = "auto_allowed"
    <3>1. /\ incident' = [incident EXCEPT ![request[s][1]] = "WORK_ORDER_CREATED"] /\ request' = request
          /\ orderPlan'[s] = plan[s] /\ status'[s] = "WORK_ORDER_CREATED"
      BY <1>0, <1>2, <2>3 DEF PersistResult
    <3>2. plan[s] # NoPlan
      BY <1>0, <2>3, NoPlanAssumption DEF StateOfThread
    <3>3. CASE i = request[s][1]
      BY <1>0, <3>1, <3>2, <3>3 DEF Moved, IsRun, HasOrder
    <3>4. CASE i # request[s][1]
      BY <1>0, <3>1, <3>4 DEF Moved
    <3> QED BY <3>3, <3>4
  <2> QED BY <1>2, <2>1, <2>2, <2>3 DEF PersistResult
<1>3. ASSUME NEW m \in Reviewers, DecideCommit(m) PROVE Moved(i)
  <2>1. CASE rdecision[m] = "REJECTED"
    BY <1>a, <1>3, <2>1 DEF DecideCommit
  <2>2. CASE rdecision[m] = "APPROVED"
    <3>0. PICK s : s = rrun[m]
      OBVIOUS
    <3>1. s \in Starters /\ node[s] \in { "approved", "rejected" }
      BY <1>3, <3>0 DEF IInv, TypeOK, ReviewInv, DecideCommit
    <3>2. plan[s] # NoPlan
      BY <1>0, <3>1, NoPlanAssumption DEF StateOfThread
    <3>3. /\ incident' = [incident EXCEPT ![request[s][1]] = "WORK_ORDER_CREATED"] /\ request' = request
          /\ orderPlan' = [orderPlan EXCEPT ![s] = IF @ = NoPlan THEN plan[s] ELSE @]
          /\ status' = [status EXCEPT ![s] = "WORK_ORDER_CREATED"]
      BY <1>3, <2>2, <3>0 DEF DecideCommit, startVars
    <3>4. IsRun(s)' /\ HasOrder(s)'
      BY <1>0, <3>1, <3>2, <3>3 DEF IsRun, HasOrder
    <3>5. CASE i = request[s][1]
      BY <1>0, <3>1, <3>3, <3>4, <3>5 DEF Moved
    <3>6. CASE i # request[s][1]
      BY <1>0, <3>3, <3>6 DEF Moved
    <3> QED BY <3>5, <3>6
  <2> QED BY <1>3, <2>1, <2>2 DEF DecideCommit
<1>4. ASSUME NEW s \in Starters, GraphStep(s) PROVE UNCHANGED incident
  BY <1>4 DEF GraphStep, PreconditionGate, Triage, Planning, Safety, Policy, RetryAgent, GraphFails
<1>5. ASSUME NEW s \in Starters, StartStep(s) PROVE Moved(i)
  BY <1>a, <1>1, <1>2, <1>4, <1>5 DEF StartStep, StartWithoutRun, StartPrepare, ResultLost
<1>6. ASSUME NEW m \in Reviewers, DecideStep(m) PROVE Moved(i)
  BY <1>a, <1>3, <1>6 DEF DecideStep, DecideResume, DecideAbort
<1> QED BY <1>a, <1>5, <1>6 DEF Next, Lock, Cancel, DecideBegin, Crash, vars

\* The incident says ACTION_PENDING or WORK_ORDER_CREATED only if one of its runs has come to
\* the approval, or has its work order, however many runs of the incident write its status
\* over one another (service.py, start, _persist_result, decide_approval).
THEOREM IncidentStatusIsEarned == Spec => []IncidentStatusEarned
<1>1. Init => IncidentStatusEarned
  BY DEF Init, IncidentStatusEarned
<1>2. ASSUME IInv, IncidentStatusEarned, [Next]_vars PROVE IncidentStatusEarned'
  <2>1. ASSUME NEW i \in Incidents, incident'[i] = "ACTION_PENDING"
        PROVE  \E s \in Starters : IsRun(s)' /\ request'[s][1] = i /\ CameToApproval(s)'
    <3>1. CASE incident[i] = "ACTION_PENDING"
      <4>1. PICK s \in Starters : IsRun(s) /\ request[s][1] = i /\ CameToApproval(s)
        BY <1>2, <3>1 DEF IncidentStatusEarned, IsRun, CameToApproval
      <4> QED BY <1>2, <4>1, WitnessStep DEF WitnessKept
    <3>2. CASE incident[i] # "ACTION_PENDING"
      BY <1>2, <2>1, <3>2, MovedStep DEF Moved
    <3> QED BY <3>1, <3>2
  <2>2. ASSUME NEW i \in Incidents, incident'[i] = "WORK_ORDER_CREATED"
        PROVE  \E s \in Starters : IsRun(s)' /\ request'[s][1] = i /\ HasOrder(s)'
    <3>1. CASE incident[i] = "WORK_ORDER_CREATED"
      <4>1. PICK s \in Starters : IsRun(s) /\ request[s][1] = i /\ HasOrder(s)
        BY <1>2, <3>1 DEF IncidentStatusEarned, IsRun, HasOrder
      <4> QED BY <1>2, <4>1, WitnessStep DEF WitnessKept
    <3>2. CASE incident[i] # "WORK_ORDER_CREATED"
      BY <1>2, <2>2, <3>2, MovedStep DEF Moved
    <3> QED BY <3>1, <3>2
  <2> QED BY <2>1, <2>2 DEF IncidentStatusEarned, IsRun, CameToApproval, HasOrder
<1> QED BY <1>1, <1>2, Invariance, PTL DEF Spec

-----------------------------------------------------------------------------
(* Traces of the workflow, AgentTrace.                                     *)

\* The rows of TraceTypeOK.
TraceRows == [status : TERMINAL_STATUSES \cup {"absent", "RUNNING", "WAITING_APPROVAL"},
              linked : BOOLEAN, ended : BOOLEAN, steps : SUBSET Calls]

\* A call writes to its own trace or to one that is linked; only the trace of a start that
\* has ended is linked, one that has not begun has no trace and none is left running by one
\* that has ended; start times tell the traces apart.
OwnInv ==
  /\ DOMAIN call = Calls
  /\ \A d \in Deciders : call[d].at \notin {"begun", "engine"}
  /\ \A c \in Calls : call[c].at = "writing" =>
       call[c].target \in StartCalls /\ (call[c].target = c \/ call[c].target \in Linked)
  /\ \A s \in StartCalls : /\ trace[s].linked => call[s].at = "done"
                           /\ call[s].at = "idle" => trace[s] = NoTrace
                           /\ call[s].at = "done" /\ ~trace[s].linked => trace[s].status \in {"absent", "FAILED"}
  /\ wf = "none" => /\ Linked = {} /\ ruling = "none"
                    /\ \A c \in Calls : call[c].at # "writing"
                    /\ \A c \in Calls : call[c].at = "answered" => c \in StartCalls /\ call[c].status = "none"

OrderInv ==
  /\ \A s \in StartCalls : /\ call[s].at # "idle" => began[s] # 0
                           /\ began[s] <= opened
  /\ \A s, t \in StartCalls : began[s] # 0 /\ began[s] = began[t] => s = t

\* A call that is about to write the status the run has where it will be found.
Informed(c) ==
  /\ call[c].at \in {"answered", "writing"} /\ call[c].status = wf
  /\ call[c].at = "writing" => Newest(call[c].target)

\* One trace is linked, and no trace has two projections of the steps.
SoleInv ==
  /\ \A s, t \in Linked : s = t
  /\ \A s \in StartCalls : \A x, y \in trace[s].steps : x = y

\* The run is linked or a start is still to link it; the trace that is found has the run's
\* status or a call is still to write it.
StatusInv ==
  wf # "none" =>
    /\ Linked # {} \/ \E s \in StartCalls : Owes(s)
    /\ \/ \A s \in find_run_by_workflow_run : trace[s].status = map_workflow_status(wf)
       \/ \E c \in Calls : Informed(c)

\* All of it, as long as the histories allow.
TraceInv ==
  /\ TraceTypeOK
  /\ OwnInv
  /\ OrderInv
  /\ ~forked => SoleInv
  /\ ~stale => StatusInv

\* What stands for no trace, for a fresh one and for no call.
LEMMA Markers ==
  /\ NoTrace \in TraceRows /\ Provisional \in TraceRows
  /\ ~NoTrace.linked /\ ~Provisional.linked /\ NoTrace.status = "absent" /\ Provisional # NoTrace
  /\ NoTrace.steps = {} /\ Provisional.steps = {}
  /\ Idle.at = "idle"
BY DEF NoTrace, Provisional, TraceRows, TERMINAL_STATUSES, Idle

\* Whatever the run's status, the trace gets one of its own.
LEMMA MappedStatus ==
  ASSUME NEW w
  PROVE  map_workflow_status(w) \in TERMINAL_STATUSES \cup {"RUNNING", "WAITING_APPROVAL"}
PROOF
<1>1. CASE w \in {"WORK_ORDER_CREATED", "REJECTED"}
  BY <1>1 DEF map_workflow_status, TERMINAL_STATUSES
<1>2. CASE w \in {"WAITING_APPROVAL", "BLOCKED", "FAILED", "CANCELLED"}
  BY <1>2 DEF map_workflow_status, TERMINAL_STATUSES
<1>3. CASE w \notin {"WORK_ORDER_CREATED", "REJECTED", "WAITING_APPROVAL", "BLOCKED", "FAILED", "CANCELLED"}
  BY <1>3 DEF map_workflow_status
<1> QED BY <1>1, <1>2, <1>3

\* What finalize_run commits: the row of the target, and the provisional trace of a start
\* that found another one is gone.
LEMMA Finalized ==
  ASSUME TraceTypeOK, OwnInv, NEW c \in Calls, finalize_run(c)
  PROVE  \E t \in StartCalls, row \in TraceRows :
           /\ t = call[c].target
           /\ t = c \/ t \in Linked
           /\ row.linked /\ row.status = map_workflow_status(call[c].status)
           /\ row.steps = replace_steps(trace[t].steps, call[c].seen.steps, call[c].drafts, c)
           /\ trace' = [s \in StartCalls |-> IF s = t THEN row ELSE IF s = c THEN NoTrace ELSE trace[s]]
           /\ stale' = IF Newest(t) THEN call[c].status # wf ELSE stale
           /\ forked' = (forked \/ trace[t].steps # call[c].seen.steps \/ (c = t /\ Linked # {}))
PROOF
<1>1. PICK t \in StartCalls : t = call[c].target /\ (t = c \/ t \in Linked)
  BY DEF finalize_run, OwnInv
<1> DEFINE st == map_workflow_status(call[c].status)
           stored == replace_steps(trace[t].steps, call[c].seen.steps, call[c].drafts, c)
           row == [status |-> st, linked |-> TRUE, ended |-> st \in TERMINAL_STATUSES, steps |-> stored]
<1>2. st \in TERMINAL_STATUSES \cup {"RUNNING", "WAITING_APPROVAL"}
  BY MappedStatus
<1>3. stored \subseteq Calls
  BY <1>1 DEF TraceTypeOK, replace_steps
<1>4. row \in TraceRows /\ row.linked /\ row.status = st /\ row.steps = stored
  <2> HIDE DEF st, stored
  <2> QED BY <1>2, <1>3 DEF TraceRows
<1>5. /\ trace' = [s \in StartCalls |-> IF s = t THEN row ELSE IF s = c THEN NoTrace ELSE trace[s]]
      /\ stale' = IF Newest(t) THEN call[c].status # wf ELSE stale
      /\ forked' = (forked \/ trace[t].steps # call[c].seen.steps \/ (c = t /\ Linked # {}))
  BY <1>1 DEF finalize_run
<1> QED BY <1>1, <1>4, <1>5

\* Every step keeps the tables well typed.
LEMMA TraceTypeStep ==
  ASSUME TraceTypeOK, OwnInv, [TraceNext]_trace_vars
  PROVE  TraceTypeOK'
PROOF
<1> USE Markers, AgentAssumption DEF TraceTypeOK
<1>1. ASSUME NEW s \in StartCalls, begin(s) PROVE TraceTypeOK'
  BY <1>1 DEF begin, Reply, Answered, Raised, Decided, history, TraceRows, RunStatuses
<1>2. ASSUME NEW s \in StartCalls, StartCreates(s) PROVE TraceTypeOK'
  BY <1>2 DEF StartCreates, Reply, Answered, Raised, Decided, history, TraceRows, RunStatuses
<1>3. ASSUME NEW s \in StartCalls, StartReplays(s) PROVE TraceTypeOK'
  BY <1>3 DEF StartReplays, Reply, Answered, Raised, Decided, history, TraceRows, RunStatuses
<1>4. ASSUME NEW s \in StartCalls, StartRefused(s) PROVE TraceTypeOK'
  BY <1>4 DEF StartRefused, Reply, Answered, Raised, Decided, history, TraceRows, RunStatuses
<1>5. ASSUME NEW s \in StartCalls, AgentRecorded(s) PROVE TraceTypeOK'
  BY <1>5 DEF AgentRecorded, Reply, Answered, Raised, Decided, history, TraceRows, RunStatuses
<1>6. ASSUME NEW s \in StartCalls, NEW st \in {"WAITING_APPROVAL", "WORK_ORDER_CREATED", "BLOCKED"}, EngineReturns(s, st)
      PROVE  TraceTypeOK'
  BY <1>6 DEF EngineReturns, Reply, Answered, Raised, Decided, history, TraceRows, RunStatuses
<1>7. ASSUME NEW s \in StartCalls, NEW st \in {"FAILED", wf}, EngineRaises(s, st) PROVE TraceTypeOK'
  BY <1>7 DEF EngineRaises, Reply, Answered, Raised, Decided, history, TraceRows, RunStatuses
<1>8. ASSUME NEW s \in StartCalls, CompleteUntraced(s) PROVE TraceTypeOK'
  BY <1>8 DEF CompleteUntraced, Reply, Answered, Raised, Decided, history, TraceRows, RunStatuses
<1>9. ASSUME NEW s \in StartCalls, CompleteFailed(s) PROVE TraceTypeOK'
  <2> DEFINE row == [trace[s] EXCEPT !.status = "FAILED", !.ended = TRUE]
  <2>1. trace' = [trace EXCEPT ![s] = row] /\ UNCHANGED <<wf, ruling, agents, began, opened, stale, forked>>
    BY <1>9 DEF CompleteFailed, history
  <2>2. row \in TraceRows
    BY DEF TraceRows, TERMINAL_STATUSES
  <2> HIDE DEF row
  <2> QED BY <2>1, <2>2 DEF TraceRows
<1>10. ASSUME NEW s \in StartCalls, CompleteRead(s) PROVE TraceTypeOK'
  BY <1>10 DEF CompleteRead, Reply, Answered, Raised, Decided, history, TraceRows, RunStatuses
<1>11. ASSUME NEW d \in Deciders, NEW dn \in {"APPROVED", "REJECTED"}, decide_approval(d, dn)
      PROVE  TraceTypeOK'
  BY <1>11 DEF decide_approval, Reply, Answered, Raised, Decided, history, TraceRows, RunStatuses
<1>12. ASSUME NEW d \in Deciders, NEW dn \in {"APPROVED", "REJECTED"}, decide_again(d, dn) PROVE TraceTypeOK'
  BY <1>12 DEF decide_again, Reply, Answered, Raised, Decided, history, TraceRows, RunStatuses
<1>13. ASSUME NEW d \in Deciders, cancel(d) PROVE TraceTypeOK'
  BY <1>13 DEF cancel, Reply, Answered, Raised, Decided, history, TraceRows, RunStatuses
<1>14. ASSUME NEW d \in Deciders, RefreshRead(d) PROVE TraceTypeOK'
  BY <1>14 DEF RefreshRead, Reply, Answered, Raised, Decided, history, TraceRows, RunStatuses
<1>15. ASSUME NEW c \in Calls, finalize_run(c) PROVE TraceTypeOK'
  <2>1. UNCHANGED <<wf, ruling, agents, began, opened>>
    BY <1>15 DEF finalize_run
  <2>2. trace' \in [StartCalls -> TraceRows] /\ forked' \in BOOLEAN
    BY <1>15, Finalized DEF TraceRows
  <2>3. stale' \in BOOLEAN
    BY <1>15, Finalized
  <2> QED BY <2>1, <2>2, <2>3 DEF TraceRows
<1>16. ASSUME NEW c \in Calls, TraceLost(c) PROVE TraceTypeOK'
  BY <1>16 DEF TraceLost, Reply, Answered, Raised, Decided, history, TraceRows, RunStatuses
<1>17. CASE UNCHANGED trace_vars
  BY <1>17 DEF trace_vars
<1> QED BY <1>1, <1>2, <1>3, <1>4, <1>5, <1>6, <1>7, <1>8, <1>9, <1>10, <1>11, <1>12, <1>13, <1>14, <1>15,
           <1>16, <1>17 DEF TraceNext, TracedStart, TracedDecision, Calls

\* Every step leaves the traces of others alone but for one that is linked.
LEMMA OwnStep ==
  ASSUME TraceTypeOK, OwnInv, [TraceNext]_trace_vars
  PROVE  OwnInv'
PROOF
<1> USE Markers, TracedAssumption DEF OwnInv, TraceTypeOK, Calls, Linked
<1>1. ASSUME NEW s \in StartCalls, begin(s) PROVE OwnInv'
  <2>1. /\ call' = [call EXCEPT ![s] = [at |-> "begun"]] /\ wf' = wf /\ ruling' = ruling /\ trace[s] = NoTrace
        /\ trace' = trace \/ trace' = [trace EXCEPT ![s] = Provisional]
    BY <1>1 DEF begin
  <2>2. /\ \A r \in StartCalls \ {s} : trace'[r] = trace[r]
        /\ ~trace'[s].linked /\ ~trace[s].linked
    <3>1. trace \in [StartCalls -> TraceRows]
      BY DEF TraceRows
    <3> QED BY <2>1, <3>1
  <2>3. \A b \in Calls : IF b = s THEN call'[b].at = "begun" ELSE call'[b] = call[b]
    BY <2>1
  <2> QED BY <2>1, <2>2, <2>3
<1>2. ASSUME NEW s \in StartCalls, StartCreates(s) PROVE OwnInv'
  BY <1>2 DEF StartCreates, Reply, Answered, Raised, Decided, TraceRows
<1>3. ASSUME NEW s \in StartCalls, StartReplays(s) PROVE OwnInv'
  BY <1>3 DEF StartReplays, Reply, Answered, Raised, Decided, TraceRows
<1>4. ASSUME NEW s \in StartCalls, StartRefused(s) PROVE OwnInv'
  BY <1>4 DEF StartRefused, Reply, Answered, Raised, Decided, TraceRows
<1>5. ASSUME NEW s \in StartCalls, AgentRecorded(s) PROVE OwnInv'
  BY <1>5 DEF AgentRecorded, Reply, Answered, Raised, Decided, TraceRows
<1>6. ASSUME NEW s \in StartCalls, NEW st \in {"WAITING_APPROVAL", "WORK_ORDER_CREATED", "BLOCKED"}, EngineReturns(s, st)
      PROVE  OwnInv'
  BY <1>6 DEF EngineReturns, Reply, Answered, Raised, Decided, TraceRows
<1>7. ASSUME NEW s \in StartCalls, NEW st \in {"FAILED", wf}, EngineRaises(s, st) PROVE OwnInv'
  BY <1>7 DEF EngineRaises, Reply, Answered, Raised, Decided, TraceRows
<1>8. ASSUME NEW s \in StartCalls, CompleteUntraced(s) PROVE OwnInv'
  BY <1>8 DEF CompleteUntraced, Reply, Answered, Raised, Decided, TraceRows
<1>9. ASSUME NEW s \in StartCalls, CompleteFailed(s) PROVE OwnInv'
  <2>1. call' = [call EXCEPT ![s] = [at |-> "done"]] /\ call[s].at = "answered" /\ wf' = wf /\ ruling' = ruling
    BY <1>9 DEF CompleteFailed
  <2>2. /\ trace' = [trace EXCEPT ![s] = [trace[s] EXCEPT !.status = "FAILED", !.ended = TRUE]]
        /\ trace[s] \in TraceRows
    BY <1>9 DEF CompleteFailed, TraceRows
  <2>3. \A x \in TraceRows : LET y == [x EXCEPT !.status = "FAILED", !.ended = TRUE]
                            IN  y.linked = x.linked /\ y.status = "FAILED"
    BY DEF TraceRows
  <2>4. trace'[s].status = "FAILED" /\ \A r \in StartCalls : trace'[r].linked = trace[r].linked /\ (r # s => trace'[r] = trace[r])
    BY <2>2, <2>3
  <2> QED BY <2>1, <2>4
<1>10. ASSUME NEW s \in StartCalls, CompleteRead(s) PROVE OwnInv'
  <2>1. PICK t \in StartCalls :
          /\ t = s \/ t \in Linked
          /\ call' = [call EXCEPT ![s] = [at |-> "writing", status |-> call[s].status,
                                                            target |-> t, seen |-> trace[t], drafts |-> agents]]
    BY <1>10 DEF CompleteRead, Target, find_run_by_workflow_run
  <2>2. trace' = trace /\ call[s].at = "answered" /\ wf' = wf /\ wf # "none"
    BY <1>10 DEF CompleteRead
  <2> QED BY <2>1, <2>2
<1>11. ASSUME NEW d \in Deciders, NEW dn \in {"APPROVED", "REJECTED"}, decide_approval(d, dn) PROVE OwnInv'
  BY <1>11 DEF decide_approval, Reply, Answered, Raised, Decided, TraceRows
<1>12. ASSUME NEW d \in Deciders, NEW dn \in {"APPROVED", "REJECTED"}, decide_again(d, dn) PROVE OwnInv'
  BY <1>12 DEF decide_again, Reply, Answered, Raised, Decided, TraceRows
<1>13. ASSUME NEW d \in Deciders, cancel(d) PROVE OwnInv'
  BY <1>13 DEF cancel, Reply, Answered, Raised, Decided, TraceRows
<1>14. ASSUME NEW d \in Deciders, RefreshRead(d) PROVE OwnInv'
  <2>1. CASE find_run_by_workflow_run = {}
    BY <1>14, <2>1 DEF RefreshRead
  <2>2. CASE find_run_by_workflow_run # {}
    <3>1. PICK t \in Linked : call' = [call EXCEPT ![d] = [at |-> "writing", status |-> call[d].status,
                                                        target |-> t, seen |-> trace[t], drafts |-> agents]]
      BY <1>14, <2>2 DEF RefreshRead, find_run_by_workflow_run
    <3>2. trace' = trace /\ call[d].at = "answered" /\ wf' = wf /\ wf # "none"
      BY <1>14 DEF RefreshRead
    <3> QED BY <3>1, <3>2
  <2> QED BY <2>1, <2>2
<1>15. ASSUME NEW c \in Calls, finalize_run(c) PROVE OwnInv'
  <2>1. call' = [call EXCEPT ![c] = [at |-> "done"]] /\ call[c].at = "writing" /\ wf' = wf /\ wf # "none"
    BY <1>15 DEF finalize_run
  <2>2. PICK t \in StartCalls, row \in TraceRows :
          /\ t = c \/ t \in Linked
          /\ row.linked
          /\ trace' = [s \in StartCalls |-> IF s = t THEN row ELSE IF s = c THEN NoTrace ELSE trace[s]]
    BY <1>15, Finalized
  <2>3. \A s \in StartCalls :
          /\ trace'[s].linked <=> (s = t \/ trace[s].linked)
          /\ s \notin {t, c} => trace'[s] = trace[s]
    BY <2>1, <2>2
  <2>4. \A b \in Calls : IF b = c THEN call'[b].at = "done" ELSE call'[b] = call[b]
    BY <2>1
  <2>5. ASSUME NEW b \in Calls, call'[b].at = "writing"
        PROVE  call'[b].target \in StartCalls /\ (call'[b].target = b \/ trace'[call'[b].target].linked)
    BY <2>3, <2>4, <2>5
  <2>6. ASSUME NEW s \in StartCalls
        PROVE  /\ trace'[s].linked => call'[s].at = "done"
               /\ call'[s].at = "idle" => trace'[s] = NoTrace
               /\ call'[s].at = "done" /\ ~trace'[s].linked => trace'[s].status \in {"absent", "FAILED"}
    BY <2>1, <2>2, <2>3, <2>4
  <2> QED BY <2>1, <2>4, <2>5, <2>6
<1>16. ASSUME NEW c \in Calls, TraceLost(c) PROVE OwnInv'
  BY <1>16 DEF TraceLost, Reply, Answered, Raised, Decided, TraceRows
<1>17. CASE UNCHANGED trace_vars
  BY <1>17 DEF trace_vars
<1> HIDE DEF OwnInv
<1> QED BY <1>1, <1>2, <1>3, <1>4, <1>5, <1>6, <1>7, <1>8, <1>9, <1>10, <1>11, <1>12, <1>13, <1>14, <1>15,
           <1>16, <1>17 DEF TraceNext, TracedStart, TracedDecision, Calls

\* Start times tell the traces apart.
LEMMA OrderStep ==
  ASSUME TraceTypeOK, OwnInv, OrderInv, [TraceNext]_trace_vars
  PROVE  OrderInv'
PROOF
<1> USE TracedAssumption DEF OwnInv, TraceTypeOK, OrderInv, Calls
<1>1. ASSUME NEW s \in StartCalls, begin(s) PROVE OrderInv'
  BY <1>1 DEF begin
<1>2. ASSUME UNCHANGED <<began, opened>>, \A s \in StartCalls : call'[s].at # "idle" => call[s].at # "idle"
      PROVE  OrderInv'
  BY <1>2
<1> HIDE DEF OrderInv
<1>3. ASSUME NEW s \in StartCalls,
             \/ StartCreates(s) \/ StartReplays(s) \/ StartRefused(s) \/ AgentRecorded(s)
             \/ CompleteUntraced(s) \/ CompleteFailed(s) \/ CompleteRead(s)
             \/ \E st \in {"WAITING_APPROVAL", "WORK_ORDER_CREATED", "BLOCKED"} : EngineReturns(s, st)
             \/ \E st \in {"FAILED", wf} : EngineRaises(s, st)
      PROVE  OrderInv'
  BY <1>2, <1>3, Markers DEF StartCreates, StartReplays, StartRefused, AgentRecorded, CompleteUntraced,
     CompleteFailed, CompleteRead, EngineReturns, EngineRaises, Reply, Answered, Raised
<1>4. ASSUME NEW d \in Deciders,
             \/ \E dn \in {"APPROVED", "REJECTED"} : decide_approval(d, dn) \/ decide_again(d, dn)
             \/ cancel(d) \/ RefreshRead(d)
      PROVE  OrderInv'
  BY <1>2, <1>4 DEF decide_approval, decide_again, cancel, RefreshRead, Reply, Answered, Raised
<1>5. ASSUME NEW c \in Calls, finalize_run(c) \/ TraceLost(c) PROVE OrderInv'
  BY <1>2, <1>5, Markers DEF finalize_run, TraceLost
<1>6. CASE UNCHANGED trace_vars
  BY <1>2, <1>6 DEF trace_vars
<1> QED BY <1>1, <1>3, <1>4, <1>5, <1>6 DEF TraceNext, TracedStart, TracedDecision, Calls

\* While no two tracer transactions overlap on it, the run has one trace with one projection.
LEMMA SoleStep ==
  ASSUME TraceTypeOK, OwnInv, SoleInv, ~forked', [TraceNext]_trace_vars
  PROVE  SoleInv'
PROOF
<1> USE Markers, TracedAssumption DEF OwnInv, TraceTypeOK, Calls, Linked, SoleInv
<1>1. ASSUME \A s \in StartCalls : trace'[s].linked = trace[s].linked /\ trace'[s].steps = trace[s].steps
      PROVE  SoleInv'
  BY <1>1
<1>2. ASSUME NEW s \in StartCalls, begin(s) PROVE SoleInv'
  <2>1. trace[s] = NoTrace /\ (trace' = trace \/ trace' = [trace EXCEPT ![s] = Provisional])
    BY <1>2 DEF begin
  <2> QED BY <1>1, <2>1 DEF NoTrace, Provisional
<1>3. ASSUME NEW s \in StartCalls, CompleteFailed(s) PROVE SoleInv'
  <2>1. \A x \in TraceRows : LET y == [x EXCEPT !.status = "FAILED", !.ended = TRUE]
                            IN  y.linked = x.linked /\ y.steps = x.steps
    BY DEF TraceRows
  <2>2. trace' = [trace EXCEPT ![s] = [trace[s] EXCEPT !.status = "FAILED", !.ended = TRUE]]
        /\ trace \in [StartCalls -> TraceRows]
    BY <1>3 DEF CompleteFailed, TraceRows
  <2> QED BY <1>1, <2>1, <2>2
<1>4. ASSUME NEW c \in Calls, finalize_run(c) PROVE SoleInv'
  <2>1. PICK t \in StartCalls, row \in TraceRows :
          /\ t = c \/ t \in Linked
          /\ row.linked
          /\ row.steps = replace_steps(trace[t].steps, call[c].seen.steps, call[c].drafts, c)
          /\ trace' = [s \in StartCalls |-> IF s = t THEN row ELSE IF s = c THEN NoTrace ELSE trace[s]]
          /\ forked' = (forked \/ trace[t].steps # call[c].seen.steps \/ (c = t /\ Linked # {}))
    BY <1>4, Finalized
  <2>2. trace[t].steps = call[c].seen.steps /\ Linked \subseteq {t}
    BY <2>1
  <2>3. \A x, y \in row.steps : x = y
    BY <2>1, <2>2 DEF replace_steps
  <2>4. \A s \in StartCalls :
          /\ s = t => trace'[s] = row
          /\ s # t /\ s = c => trace'[s] = NoTrace
          /\ s # t /\ s # c => trace'[s] = trace[s]
    BY <2>1
  <2> QED BY <2>1, <2>2, <2>3, <2>4
<1>5. ASSUME UNCHANGED trace PROVE SoleInv'
  BY <1>1, <1>5
<1> QED BY <1>2, <1>3, <1>4, <1>5 DEF TraceNext, TracedStart, TracedDecision, Calls, trace_vars, StartCreates,
     StartReplays, StartRefused, AgentRecorded, EngineReturns, EngineRaises, CompleteUntraced, CompleteRead,
     decide_approval, decide_again, cancel, RefreshRead, TraceLost

\* Until a status is withheld from the tracer, every step keeps what the found trace says.
LEMMA StatusStep ==
  ASSUME TraceTypeOK, OwnInv, OrderInv, ~stale => StatusInv, ~stale', [TraceNext]_trace_vars
  PROVE  StatusInv'
PROOF
<1> USE Markers, TracedAssumption DEF OwnInv, TraceTypeOK, Calls, Linked, Owes, Informed, StatusInv, find_run_by_workflow_run, Newest
<1>1. ASSUME NEW s \in StartCalls, begin(s) PROVE StatusInv'
  <2>1. \A t \in StartCalls : /\ trace'[t].linked = trace[t].linked
                              /\ trace[t].linked => trace'[t] = trace[t] /\ began'[t] = began[t]
    BY <1>1 DEF begin, TraceRows
  <2>2. \A c \in Calls : call'[c] = call[c] \/ (c = s /\ call[c].at = "idle")
    BY <1>1 DEF begin
  <2>3. \A c \in Calls : call[c].at = "writing" => began'[call[c].target] = began[call[c].target]
    BY <1>1 DEF begin
  <2>4. wf' = wf /\ stale' = stale
    BY <1>1 DEF begin, history
  <2> QED BY <2>1, <2>2, <2>3, <2>4
<1>2. ASSUME NEW s \in StartCalls, StartCreates(s) PROVE StatusInv'
  BY <1>2 DEF StartCreates, Reply, Answered, Raised, Decided, history, TraceRows
<1>3. ASSUME NEW s \in StartCalls, StartReplays(s) PROVE StatusInv'
  BY <1>3 DEF StartReplays, Reply, Answered, Raised, Decided, history, TraceRows
<1>4. ASSUME NEW s \in StartCalls, StartRefused(s) PROVE StatusInv'
  BY <1>4 DEF StartRefused, Reply, Answered, Raised, Decided, history, TraceRows
<1>5. ASSUME NEW s \in StartCalls, AgentRecorded(s) PROVE StatusInv'
  BY <1>5 DEF AgentRecorded, Reply, Answered, Raised, Decided, history, TraceRows
<1>6. ASSUME NEW s \in StartCalls, NEW st \in {"WAITING_APPROVAL", "WORK_ORDER_CREATED", "BLOCKED"}, EngineReturns(s, st)
      PROVE  StatusInv'
  BY <1>6 DEF EngineReturns, Reply, Answered, Raised, Decided, history, TraceRows
<1>7. ASSUME NEW s \in StartCalls, NEW st \in {"FAILED", wf}, EngineRaises(s, st) PROVE StatusInv'
  BY <1>7 DEF EngineRaises, Reply, Answered, Raised, Decided, history, TraceRows
<1>8. ASSUME NEW s \in StartCalls, CompleteUntraced(s) PROVE StatusInv'
  <2>1. /\ UNCHANGED <<wf, trace, began>> /\ ~stale /\ call[s].at = "answered" /\ ~Owes(s)
        /\ call' = [call EXCEPT ![s] = [at |-> "done"]]
    BY <1>8 DEF CompleteUntraced
  <2>2. call[s].status = "none" /\ \A b \in Calls : IF b = s THEN call'[b].at = "done" ELSE call'[b] = call[b]
    BY <2>1
  <2> QED BY <2>1, <2>2
<1>9. ASSUME NEW s \in StartCalls, CompleteFailed(s) PROVE StatusInv'
  <2>1. call' = [call EXCEPT ![s] = [at |-> "done"]] /\ call[s].at = "answered" /\ call[s].status = "none"
        /\ UNCHANGED <<wf, began, stale>>
    BY <1>9 DEF CompleteFailed, history
  <2>2. \A r \in StartCalls : /\ trace'[r].linked = trace[r].linked
                              /\ trace[r].linked => trace'[r] = trace[r]
    <3>1. \A x \in TraceRows : [x EXCEPT !.status = "FAILED", !.ended = TRUE].linked = x.linked
      BY DEF TraceRows
    <3>2. trace' = [trace EXCEPT ![s] = [trace[s] EXCEPT !.status = "FAILED", !.ended = TRUE]]
          /\ trace \in [StartCalls -> TraceRows] /\ ~trace[s].linked
      BY <1>9 DEF CompleteFailed, TraceRows
    <3> QED BY <3>1, <3>2
  <2>3. \A b \in Calls : IF b = s THEN call'[b].at = "done" ELSE call'[b] = call[b]
    BY <2>1
  <2> QED BY <2>1, <2>2, <2>3
<1>10. ASSUME NEW s \in StartCalls, CompleteRead(s) PROVE StatusInv'
  <2>1. PICK t \in Target(s) :
          call' = [call EXCEPT ![s] = [at |-> "writing", status |-> call[s].status,
                                       target |-> t, seen |-> trace[t], drafts |-> agents]]
    BY <1>10 DEF CompleteRead
  <2>2. UNCHANGED <<wf, trace, began, stale>> /\ call[s].at = "answered" /\ call[s].status # "none"
    BY <1>10 DEF CompleteRead, history
  <2>3. find_run_by_workflow_run # {} => Newest(t)
    BY <2>1 DEF Target
  <2>4. \A b \in Calls : IF b = s THEN call'[b].at = "writing" /\ call'[b].status = call[b].status /\ call'[b].target = t
                                  ELSE call'[b] = call[b]
    BY <2>1
  <2> QED BY <2>2, <2>3, <2>4
<1>11. ASSUME NEW d \in Deciders, NEW dn \in {"APPROVED", "REJECTED"}, decide_approval(d, dn) PROVE StatusInv'
  <2>1. UNCHANGED <<trace, began>> /\ call[d].at = "idle" /\ wf # "none" /\ Reply(d, wf')
    BY <1>11 DEF decide_approval
  <2>2. ~stale /\ call' = [call EXCEPT ![d] = [at |-> "answered", status |-> wf']]
    BY <2>1 DEF Reply, Answered
  <2>3. \A b \in Calls : IF b = d THEN call'[b].at = "answered" /\ call'[b].status = wf' ELSE call'[b] = call[b]
    BY <2>2
  <2> QED BY <2>1, <2>2, <2>3
<1>12. ASSUME NEW d \in Deciders, NEW dn \in {"APPROVED", "REJECTED"}, decide_again(d, dn) PROVE StatusInv'
  BY <1>12 DEF decide_again, Reply, Answered, Raised, Decided, history, TraceRows
<1>13. ASSUME NEW d \in Deciders, cancel(d) PROVE StatusInv'
  BY <1>13 DEF cancel, Reply, Answered, Raised, Decided, history, TraceRows
<1>14. ASSUME NEW d \in Deciders, RefreshRead(d) PROVE StatusInv'
  <2>1. UNCHANGED <<wf, trace, began, stale>> /\ call[d].at = "answered"
    BY <1>14 DEF RefreshRead, history
  <2>2. CASE find_run_by_workflow_run = {}
    <3>1. \A b \in Calls \ {d} : call'[b] = call[b]
      BY <1>14, <2>2 DEF RefreshRead
    <3> QED BY <2>1, <2>2, <3>1
  <2>3. CASE find_run_by_workflow_run # {}
    <3>1. PICK t \in find_run_by_workflow_run :
            call' = [call EXCEPT ![d] = [at |-> "writing", status |-> call[d].status,
                                         target |-> t, seen |-> trace[t], drafts |-> agents]]
      BY <1>14, <2>3 DEF RefreshRead
    <3>2. \A b \in Calls : IF b = d THEN call'[b].at = "writing" /\ call'[b].status = call[b].status /\ call'[b].target = t
                                    ELSE call'[b] = call[b]
      BY <3>1
    <3> QED BY <2>1, <3>1, <3>2
  <2> QED BY <2>2, <2>3
<1>15. ASSUME NEW c \in Calls, finalize_run(c) PROVE StatusInv'
  <2>1. call' = [call EXCEPT ![c] = [at |-> "done"]] /\ call[c].at = "writing" /\ wf' = wf /\ began' = began
    BY <1>15 DEF finalize_run
  <2>2. PICK t \in StartCalls, row \in TraceRows :
          /\ t = call[c].target
          /\ t = c \/ t \in Linked
          /\ row.linked /\ row.status = map_workflow_status(call[c].status)
          /\ trace' = [s \in StartCalls |-> IF s = t THEN row ELSE IF s = c THEN NoTrace ELSE trace[s]]
          /\ stale' = IF Newest(t) THEN call[c].status # wf ELSE stale
    BY <1>15, Finalized
  <2>3. \A s \in StartCalls :
          /\ trace'[s].linked <=> (s = t \/ trace[s].linked)
          /\ s # t /\ trace'[s].linked => trace'[s] = trace[s]
    BY <2>1, <2>2
  <2>4. trace'[t] = row /\ row.linked
    BY <2>2
  <2>5. \A b \in Calls : IF b = c THEN call'[b].at = "done" ELSE call'[b] = call[b]
    BY <2>1
  <2>6. \A s \in StartCalls : began[s] \in Nat
    OBVIOUS
  <2>7. CASE Newest(t)
    <3>1. call[c].status = wf
      BY <2>2, <2>7
    <3>2. ASSUME NEW u \in find_run_by_workflow_run' PROVE u = t
      <4>1. u \in StartCalls /\ (u = t \/ trace[u].linked)
        BY <2>3, <3>2
      <4>2. u # t => began[u] > began[t]
        BY <2>1, <2>3, <3>2, <4>1
      <4>3. u # t => began[t] > began[u]
        BY <2>7, <4>1
      <4> QED BY <2>6, <4>1, <4>2, <4>3
    <3> QED BY <2>1, <2>2, <2>4, <3>1, <3>2
  <2>8. CASE ~Newest(t)
    <3>1. ~stale
      BY <2>2, <2>8
    <3>2. find_run_by_workflow_run' \subseteq find_run_by_workflow_run \ {t}
      <4> SUFFICES ASSUME NEW u \in find_run_by_workflow_run' PROVE u \in find_run_by_workflow_run \ {t}
        OBVIOUS
      <4>1. u # t
        BY <2>1, <2>3, <2>8
      <4> QED BY <2>1, <2>3, <4>1
    <3>3. PICK v \in Linked \ {t} : ~(began[t] > began[v])
      BY <2>8
    <3>4. CASE \A s \in find_run_by_workflow_run : trace[s].status = map_workflow_status(wf)
      BY <2>1, <2>3, <2>4, <3>2, <3>4
    <3>5. CASE wf # "none" /\ \E e \in Calls : Informed(e)
      <4>1. PICK e \in Calls : Informed(e)
        BY <3>5
      <4>2. e # c
        BY <2>1, <2>2, <2>8, <4>1
      <4>3. call'[e] = call[e]
        BY <2>5, <4>2
      <4>4. call[e].at = "writing" => Newest(call[e].target)'
        <5> SUFFICES ASSUME call[e].at = "writing", NEW u \in Linked', u # call[e].target
                     PROVE  began[call[e].target] > began[u]
          BY <2>1, <4>3
        <5> DEFINE x == call[e].target
        <5>1. x \in StartCalls /\ Newest(x)
          BY <4>1
        <5>2. CASE u # t
          BY <2>3, <5>1, <5>2
        <5>3. CASE u = t
          <6>1. began[x] >= began[v]
            BY <2>6, <3>3, <5>1
          <6>2. began[v] >= began[t]
            BY <2>6, <3>3
          <6>3. began[x] # began[t]
            <7>1. began[t] # 0
              BY <2>1, <2>2 DEF OrderInv
            <7> QED BY <5>1, <5>3, <7>1 DEF OrderInv
          <6> QED BY <2>6, <5>1, <5>3, <6>1, <6>2, <6>3
        <5> QED BY <5>2, <5>3
      <4> QED BY <2>1, <2>4, <4>1, <4>3, <4>4
    <3> QED BY <2>1, <3>1, <3>4, <3>5
  <2> QED BY <2>7, <2>8
<1>16. ASSUME NEW c \in Calls, TraceLost(c) PROVE StatusInv'
  <2>1. /\ UNCHANGED <<wf, trace, began>> /\ ~stale /\ ~Owes(c)
        /\ call' = [call EXCEPT ![c] = [at |-> "lost"]]
    BY <1>16 DEF TraceLost
  <2>2. \A b \in Calls : IF b = c THEN call'[b].at = "lost" ELSE call'[b] = call[b]
    BY <2>1
  <2>3. wf # "none" => ~Informed(c)
    BY <2>1
  <2> QED BY <2>1, <2>2, <2>3
<1>17. CASE UNCHANGED trace_vars
  BY <1>17 DEF trace_vars
<1> QED BY <1>1, <1>2, <1>3, <1>4, <1>5, <1>6, <1>7, <1>8, <1>9, <1>10, <1>11, <1>12, <1>13, <1>14, <1>15,
           <1>16, <1>17 DEF TraceNext, TracedStart, TracedDecision, Calls

\* The invariant holds in every state.
LEMMA TraceInvariance == TraceSpec => []TraceInv
PROOF
<1>1. TraceInit => TraceInv
  <2> SUFFICES ASSUME TraceInit PROVE TraceInv
    OBVIOUS
  <2>1. /\ \A s \in StartCalls : trace[s] = NoTrace /\ began[s] = 0
        /\ \A c \in Calls : call[c].at = "idle"
        /\ DOMAIN call = Calls /\ wf = "none" /\ ruling = "none" /\ Linked = {} /\ opened = 0
    BY Markers DEF TraceInit, Linked, Calls
  <2>2. TraceTypeOK
    <3>1. trace \in [StartCalls -> TraceRows] /\ agents \in 0..MaxAgents
      BY Markers, AgentAssumption DEF TraceInit
    <3> QED BY <3>1 DEF TraceInit, TraceTypeOK, TraceRows
  <2>3. OwnInv
    BY <2>1, Markers DEF OwnInv, Calls
  <2>4. OrderInv /\ SoleInv /\ StatusInv
    BY <2>1, Markers DEF OrderInv, SoleInv, StatusInv, Calls
  <2> QED BY <2>2, <2>3, <2>4 DEF TraceInv
<1>2. TraceInv /\ [TraceNext]_trace_vars => TraceInv'
  <2> SUFFICES ASSUME TraceInv, [TraceNext]_trace_vars PROVE TraceInv'
    OBVIOUS
  <2>1. TraceTypeOK' /\ OwnInv' /\ OrderInv'
    BY TraceTypeStep, OwnStep, OrderStep DEF TraceInv
  <2>2. forked => forked'
    BY DEF TraceNext, TracedStart, TracedDecision, trace_vars, history, begin, StartCreates,
       StartReplays, StartRefused, AgentRecorded, EngineReturns, EngineRaises, CompleteUntraced,
       CompleteFailed, CompleteRead, decide_approval, decide_again, cancel, RefreshRead,
       finalize_run, TraceLost
  <2>3. ~forked' => SoleInv'
    BY <2>2, SoleStep DEF TraceInv
  <2>4. ~stale' => StatusInv'
    BY StatusStep DEF TraceInv
  <2> QED BY <2>1, <2>3, <2>4 DEF TraceInv
<1> QED BY <1>1, <1>2, PTL DEF TraceSpec

\* For any number of start calls and decisions, whatever order their transactions commit in:
\* when every call has returned, the trace that is found shows the run's status, unless a call
\* raised after its commit, tracing was lost or an outdated answer was written last; without
\* overlapping tracer transactions it is the only trace, with one projection of the steps
\* (WorkflowTracer.complete and refresh_for_workflow).
THEOREM TracesAreTruthful == TraceSpec => []TraceIsTruthful
PROOF
<1>1. TraceInv => TraceIsTruthful
  <2> SUFFICES ASSUME TraceInv, Quiet, wf # "none"
               PROVE  /\ ~stale => /\ Linked # {}
                                   /\ \A s \in find_run_by_workflow_run : trace[s].status = map_workflow_status(wf)
                      /\ ~forked => /\ Cardinality(Linked) <= 1
                                    /\ \A s \in Linked : Cardinality(trace[s].steps) <= 1
                      /\ \A s \in StartCalls \ Linked : (trace[s].status \in {"absent", "FAILED"} \/ call[s].at = "lost")
    BY DEF TraceIsTruthful, TraceInv
  <2>1. OwnInv /\ TraceTypeOK
    BY DEF TraceInv
  <2>2. ASSUME NEW S, \A x, y \in S : x = y PROVE Cardinality(S) <= 1
    <3>1. CASE S = {}
      BY <3>1, FS_EmptySet
    <3>2. CASE S # {}
      <4>1. PICK x : S = {x}
        BY <2>2, <3>2
      <4>2. Cardinality({x}) = 1
        BY FS_Singleton
      <4> QED BY <4>1, <4>2
    <3> QED BY <3>1, <3>2
  <2>3. ~forked => Cardinality(Linked) <= 1 /\ \A s \in Linked : Cardinality(trace[s].steps) <= 1
    BY <2>2 DEF SoleInv, Linked, TraceInv
  <2>4. \A c \in Calls : ~Informed(c)
    BY DEF Quiet, Informed
  <2>5. \A s \in StartCalls : ~Owes(s)
    BY DEF Quiet, Owes, Calls
  <2>6. ~stale => /\ Linked # {}
                  /\ \A s \in find_run_by_workflow_run : trace[s].status = map_workflow_status(wf)
    BY <2>4, <2>5 DEF StatusInv, TraceInv
  <2>7. \A s \in StartCalls \ Linked : (trace[s].status \in {"absent", "FAILED"} \/ call[s].at = "lost")
    BY <2>1, Markers DEF Quiet, OwnInv, Linked, Calls
  <2> QED BY <2>3, <2>6, <2>7
<1> QED BY <1>1, TraceInvariance, PTL
==============================================================================
