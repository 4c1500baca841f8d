---------------------- MODULE DeviceConfigurationProofs ----------------------
(***************************************************************************)
(* What holds of DeviceConfiguration for any number of concurrent calls,   *)
(* versions, definitions and runtimes.                                     *)
(***************************************************************************)
EXTENDS MCDeviceConfiguration, FiniteSetTheorems, TLAPS

USE DEF statusVars

\* The record of a caller that has no call in flight is well typed.
LEMMA NoCallIsCall == NoCall \in Calls /\ 0 \in 0 .. MaxVersion
PROOF
<1>1. 0 \in 0 .. MaxVersion /\ {} \in SUBSET Versions /\ "idle" \in Phases
  BY VersionAssumption DEF Phases
<1> QED BY <1>1 DEF NoCall, Calls

\* A call record stays one when a call is begun, and when the phase, the archive,
\* the runtimes or the outcome of one in flight is replaced.
LEMMA CallsClosed ==
  /\ \A p \in Phases, v \in Versions, st \in { "DRAFT", "VALIDATED", "PUBLISHED" },
        x \in Contents \cup {NoContent} :
       [NoCall EXCEPT !.pc = p, !.version = v, !.status = st, !.content = x] \in Calls
  /\ \A k \in Calls, p \in Phases :
       /\ [k EXCEPT !.pc = p] \in Calls
       /\ \A a \in SUBSET Versions : [k EXCEPT !.pc = p, !.archive = a] \in Calls
       /\ [k EXCEPT !.pc = p, !.status = "PUBLISHED", !.archive = {}] \in Calls
       /\ \A q, r \in RuntimeIds \cup {NoRuntime} :
            [k EXCEPT !.pc = p, !.previous = q, !.candidate = r] \in Calls
       /\ [k EXCEPT !.pc = p, !.outcome = "APPLIED"] \in Calls
PROOF
<1> USE VersionAssumption
<1>1. NoCall \in Calls
  BY NoCallIsCall
<1>2. ASSUME NEW p \in Phases, NEW v \in Versions,
             NEW st \in { "DRAFT", "VALIDATED", "PUBLISHED" },
             NEW x \in Contents \cup {NoContent}
      PROVE  [NoCall EXCEPT !.pc = p, !.version = v, !.status = st, !.content = x] \in Calls
  <2>1. v \in 0 .. MaxVersion
    BY DEF Versions
  <2> QED BY <1>1, <2>1 DEF Calls
<1>3. ASSUME NEW k \in Calls, NEW p \in Phases
      PROVE  /\ [k EXCEPT !.pc = p] \in Calls
             /\ \A a \in SUBSET Versions : [k EXCEPT !.pc = p, !.archive = a] \in Calls
             /\ [k EXCEPT !.pc = p, !.status = "PUBLISHED", !.archive = {}] \in Calls
             /\ \A q, r \in RuntimeIds \cup {NoRuntime} :
                  [k EXCEPT !.pc = p, !.previous = q, !.candidate = r] \in Calls
             /\ [k EXCEPT !.pc = p, !.outcome = "APPLIED"] \in Calls
  BY DEF Calls
<1> QED BY <1>2, <1>3

\* Every step keeps the tables, the gateway and the calls in flight well typed.
LEMMA TypeStep == TypeOK /\ [Next]_vars => TypeOK'
PROOF
<1> SUFFICES ASSUME TypeOK, [Next]_vars PROVE TypeOK'
  OBVIOUS
<1> USE VersionAssumption, ContentsAssumption, RuntimeAssumption
<1>0. call \in [Callers -> Calls]
  BY DEF TypeOK
<1>1. CASE create_draft
  BY <1>1 DEF create_draft, InsertDraft, TypeOK, gatewayVars, Versions
<1>2. CASE \E v \in Versions : clone_version(v)
  BY <1>2 DEF clone_version, InsertDraft, TypeOK, gatewayVars, Versions, Exists
<1>3. ASSUME NEW c \in Callers, NEW op \in DOMAIN Admitted, NEW v \in Versions, Load(c, op, v)
      PROVE TypeOK'
  <2>1. /\ vstatus[v] \in { "DRAFT", "VALIDATED", "PUBLISHED" }
        /\ vcontent[v] \in Contents \cup {NoContent}
        /\ op \in Phases
    BY <1>3 DEF Load, Admitted, MUTABLE_STATUSES, Phases, TypeOK
  <2>2. [NoCall EXCEPT !.pc = op, !.version = v, !.status = vstatus[v],
                       !.content = vcontent[v]] \in Calls
    BY <2>1, CallsClosed
  <2>3. call' \in [Callers -> Calls]
    BY <1>0, <1>3, <2>2 DEF Load
  <2> QED BY <1>3, <2>3 DEF Load, TypeOK, dbVars, gatewayVars
<1>4. ASSUME NEW c \in Callers, apply_current(c)
      PROVE TypeOK'
  <2>1. PICK v \in Published :
          call' = [call EXCEPT ![c] = [NoCall EXCEPT !.pc = "published", !.version = v,
                                                     !.status = "PUBLISHED",
                                                     !.content = vcontent[v]]]
    BY <1>4 DEF apply_current
  <2>2. v \in Versions /\ vcontent[v] \in Contents \cup {NoContent}
        /\ "published" \in Phases
    BY DEF Published, Phases, TypeOK
  <2>3. [NoCall EXCEPT !.pc = "published", !.version = v, !.status = "PUBLISHED",
                       !.content = vcontent[v]] \in Calls
    BY <2>2, CallsClosed
  <2>4. call' \in [Callers -> Calls]
    BY <1>0, <2>1, <2>3
  <2> QED BY <1>4, <2>4 DEF apply_current, TypeOK, dbVars, gatewayVars
<1>5. ASSUME NEW c \in Callers, CallStep(c)
      PROVE TypeOK'
  <2>0. call[c] \in Calls /\ "idle" \in Phases
    BY <1>0 DEF Phases
  <2>a. EndCall(c) => call' \in [Callers -> Calls]
    BY <1>0, NoCallIsCall DEF EndCall
  <2>b. ASSUME NEW p \in Phases, call' = [call EXCEPT ![c].pc = p]
        PROVE call' \in [Callers -> Calls]
    BY <1>0, <2>0, <2>b, CallsClosed
  <2>1. CASE \E content \in Contents : update_draft(c, content)
    <3>1. PICK content \in Contents : update_draft(c, content)
      BY <2>1
    <3>2. /\ vcontent' \in [Versions -> Contents \cup {NoContent}]
          /\ vstatus' \in [Versions -> { "NONE", "DRAFT", "VALIDATED", "PUBLISHED", "ARCHIVED" }]
      BY <3>1 DEF update_draft, TypeOK
    <3> QED BY <2>a, <3>1, <3>2 DEF update_draft, TypeOK, gatewayVars
  <2>2. CASE delete_draft(c)
    BY <2>2, <2>a DEF delete_draft, TypeOK, gatewayVars
  <2>3. CASE validate_version(c)
    BY <2>3, <2>a DEF validate_version, TypeOK, gatewayVars
  <2>4. CASE archive_published_except(c)
    <3>1. [call[c] EXCEPT !.pc = "archived", !.archive = Published \ {call[c].version}] \in Calls
      <4>1. "archived" \in Phases /\ Published \ {call[c].version} \in SUBSET Versions
        BY DEF Phases, Published
      <4> QED BY <2>0, <4>1, CallsClosed
    <3>2. call' \in [Callers -> Calls]
      BY <1>0, <2>4, <3>1 DEF archive_published_except
    <3> QED BY <2>4, <3>2 DEF archive_published_except, TypeOK, dbVars, gatewayVars
  <2>5. CASE publish(c)
    <3>1. [call[c] EXCEPT !.pc = "published", !.status = "PUBLISHED", !.archive = {}] \in Calls
      <4>1. "published" \in Phases
        BY DEF Phases
      <4> QED BY <2>0, <4>1, CallsClosed
    <3>2. call' \in [Callers -> Calls]
      BY <1>0, <2>5, <3>1 DEF publish
    <3> QED BY <2>5, <3>2 DEF publish, TypeOK, gatewayVars, Versions
  <2>6. CASE Rollback(c)
    BY <2>6, <2>a DEF Rollback, TypeOK, dbVars, gatewayVars
  <2>7. CASE ApplyVanished(c)
    BY <2>7, <2>a DEF ApplyVanished, TypeOK, dbVars, gatewayVars
  <2>8. CASE _mark_applying(c)
    <3>1. call' \in [Callers -> Calls]
      BY <2>8, <2>b DEF _mark_applying, Phases
    <3> QED BY <2>8, <3>1 DEF _mark_applying, TypeOK, gatewayVars
  <2>9. CASE ApplyStart(c)
    <3>1. PICK r \in RuntimeIds :
            /\ running' = [running EXCEPT ![r] = call[c].content]
            /\ call' = [call EXCEPT ![c].pc = "starting", ![c].previous = tracked,
                                    ![c].candidate = r]
      BY <2>9 DEF ApplyStart
    <3>2. [call[c] EXCEPT !.pc = "starting", !.previous = tracked, !.candidate = r] \in Calls
      <4>1. "starting" \in Phases /\ tracked \in RuntimeIds \cup {NoRuntime}
        BY DEF Phases, TypeOK
      <4> QED BY <2>0, <4>1, CallsClosed
    <3>3. call' \in [Callers -> Calls]
      BY <1>0, <3>1, <3>2
    <3>4. running' \in [RuntimeIds -> Contents \cup {NoContent, Bootstrap}]
      BY <2>0, <3>1 DEF TypeOK, Calls
    <3> QED BY <2>9, <3>3, <3>4 DEF ApplyStart, TypeOK, dbVars
  <2>10. CASE ApplyNotReady(c)
    <3>1. call' \in [Callers -> Calls]
      BY <2>10, <2>b DEF ApplyNotReady, Phases
    <3> QED BY <2>10, <3>1 DEF ApplyNotReady, Stop, TypeOK, dbVars
  <2>11. CASE ApplyReady(c)
    <3>1. call' \in [Callers -> Calls]
      BY <2>11, <2>b DEF ApplyReady, Phases
    <3> QED BY <2>11, <3>1 DEF ApplyReady, Stop, TypeOK, dbVars
  <2>12. CASE ApplySwap(c)
    <3>1. [call[c] EXCEPT !.pc = "recording", !.outcome = "APPLIED"] \in Calls
      <4>1. "recording" \in Phases
        BY DEF Phases
      <4> QED BY <2>0, <4>1, CallsClosed
    <3>2. call' \in [Callers -> Calls]
      BY <1>0, <2>12, <3>1 DEF ApplySwap
    <3>3. /\ call[c].candidate \in RuntimeIds \cup {NoRuntime}
          /\ call[c].version \in 0 .. MaxVersion
          /\ call[c].content \in Contents \cup {NoContent}
      BY <2>0 DEF Calls
    <3> QED BY <2>12, <3>2, <3>3 DEF ApplySwap, TypeOK, dbVars
  <2>13. CASE _record_apply(c)
    <3>1. call[c].version \in 0 .. MaxVersion
      BY <2>0 DEF Calls
    <3> QED BY <2>13, <2>a, <3>1 DEF _record_apply, TypeOK, gatewayVars
  <2>14. CASE RecordLost(c)
    BY <2>14, <2>a DEF RecordLost, TypeOK, gatewayVars
  <2> QED
    BY <1>5, <2>1, <2>2, <2>3, <2>4, <2>5, <2>6, <2>7, <2>8, <2>9, <2>10, <2>11, <2>12, <2>13,
       <2>14
    DEF CallStep
<1>6. CASE Crash
  <2>1. /\ call' \in [Callers -> Calls]
        /\ running' \in [RuntimeIds -> Contents \cup {NoContent, Bootstrap}]
        /\ gatewayApplied' \in 0 .. MaxVersion
    BY <1>6, NoCallIsCall DEF Crash
  <2> QED BY <1>6, <2>1 DEF Crash, TypeOK, dbVars
<1>7. CASE BootPublished
  <2>1. PICK v \in Published, ready \in BOOLEAN :
          /\ StartRuntime(vcontent[v])
          /\ gatewayApplied' = IF ready THEN v ELSE 0
          /\ reported' = IF ready THEN [applied |-> v, status |-> "APPLIED"]
                         ELSE [applied |-> 0, status |-> "FAILED"]
    BY <1>7 DEF BootPublished
  <2>2. v \in Versions /\ v \in 0 .. MaxVersion /\ 0 \in 0 .. MaxVersion
    BY DEF Published, Versions
  <2>3. gatewayApplied' \in 0 .. MaxVersion
        /\ reported' \in [applied : 0 .. MaxVersion,
                          status : { "PENDING", "APPLYING", "APPLIED", "FAILED" }]
    BY <2>1, <2>2
  <2>4. tracked' \in RuntimeIds \cup {NoRuntime}
        /\ running' \in [RuntimeIds -> Contents \cup {NoContent, Bootstrap}]
    BY <2>1, <2>2 DEF StartRuntime, TypeOK
  <2>5. definition' \in Contents \cup {NoContent, Bootstrap}
    BY <2>1, <2>2 DEF StartRuntime, TypeOK
  <2> QED BY <1>7, <2>3, <2>4, <2>5 DEF BootPublished, TypeOK
<1>8. CASE BootFromFile
  <2>1. tracked' \in RuntimeIds \cup {NoRuntime}
        /\ running' \in [RuntimeIds -> Contents \cup {NoContent, Bootstrap}]
    BY <1>8 DEF BootFromFile, StartRuntime, TypeOK
  <2>2. definition' \in Contents \cup {NoContent, Bootstrap}
    BY <1>8 DEF BootFromFile, StartRuntime
  <2> QED BY <1>8, <2>1, <2>2 DEF BootFromFile, TypeOK
<1>9. CASE start_device \/ stop_device
  BY <1>9 DEF start_device, stop_device, Stop, TypeOK, dbVars
<1>10. ASSUME NEW r \in RuntimeIds, RuntimeEnds(r)
       PROVE TypeOK'
  BY <1>10 DEF RuntimeEnds, Stop, TypeOK, dbVars
<1>11. CASE UNCHANGED vars
  BY <1>11 DEF vars, dbVars, gatewayVars, TypeOK
<1> QED
  BY <1>1, <1>2, <1>3, <1>4, <1>5, <1>6, <1>7, <1>8, <1>9, <1>10, <1>11 DEF Next

\* The tables, the gateway and the calls in flight stay well typed.
THEOREM TypeCorrect == Spec => []TypeOK
PROOF
<1>1. ASSUME Init PROVE TypeOK
  <2>1. /\ call \in [Callers -> Calls]
        /\ reported \in [applied : 0 .. MaxVersion,
                         status : { "PENDING", "APPLYING", "APPLIED", "FAILED" }]
        /\ gatewayApplied \in 0 .. MaxVersion
    BY <1>1, NoCallIsCall DEF Init
  <2> QED BY <1>1, <2>1 DEF Init, TypeOK
<1> QED BY <1>1, TypeStep, PTL DEF Spec

-----------------------------------------------------------------------------
(* One published version                                                    *)

\* No step leaves two published versions: a publication commits only if every
\* version that is published then is one it archives.
LEMMA OnePublishedStep == TypeOK /\ OnePublished /\ [Next]_vars => OnePublished'
PROOF
<1> SUFFICES ASSUME TypeOK, OnePublished, [Next]_vars PROVE OnePublished'
  OBVIOUS
<1> USE DEF TypeOK, OnePublished, Published
<1>1. ASSUME NEW content, InsertDraft(content)
      PROVE OnePublished'
  BY <1>1 DEF InsertDraft
<1>2. ASSUME NEW c \in Callers, CallStep(c)
      PROVE OnePublished'
  <2>1. CASE \E content \in Contents : update_draft(c, content)
    BY <2>1 DEF update_draft
  <2>2. CASE delete_draft(c)
    BY <2>2 DEF delete_draft
  <2>3. CASE validate_version(c)
    BY <2>3 DEF validate_version
  <2>4. CASE publish(c)
    BY <2>4 DEF publish
  <2>5. CASE archive_published_except(c) \/ Rollback(c) \/ ApplyVanished(c)
    BY <2>5 DEF archive_published_except, Rollback, ApplyVanished, dbVars
  <2>6. CASE _mark_applying(c) \/ _record_apply(c) \/ RecordLost(c)
    BY <2>6 DEF _mark_applying, _record_apply, RecordLost
  <2>7. CASE ApplyStart(c) \/ ApplyNotReady(c) \/ ApplyReady(c) \/ ApplySwap(c)
    BY <2>7 DEF ApplyStart, ApplyNotReady, ApplyReady, ApplySwap, dbVars
  <2> QED BY <1>2, <2>1, <2>2, <2>3, <2>4, <2>5, <2>6, <2>7 DEF CallStep
<1>3. CASE UNCHANGED vstatus
  BY <1>3
<1>4. ASSUME NEW c \in Callers, apply_current(c)
      PROVE UNCHANGED vstatus
  BY <1>4 DEF apply_current, dbVars
<1>5. ASSUME NEW c \in Callers, NEW op \in DOMAIN Admitted, NEW v \in Versions, Load(c, op, v)
      PROVE UNCHANGED vstatus
  BY <1>5 DEF Load, dbVars
<1>6. Crash \/ BootPublished \/ BootFromFile \/ UNCHANGED vars => UNCHANGED vstatus
  BY DEF Crash, BootPublished, BootFromFile, vars, dbVars
<1>7. start_device \/ stop_device \/ (\E r \in RuntimeIds : RuntimeEnds(r)) => UNCHANGED vstatus
  BY DEF start_device, stop_device, RuntimeEnds, dbVars
<1> QED
  BY <1>1, <1>2, <1>3, <1>4, <1>5, <1>6, <1>7 DEF Next, create_draft, clone_version

\* At most one version of the device is published, however many calls overlap.
THEOREM SinglePublished == Spec => []OnePublished
PROOF
<1>1. Init => OnePublished
  BY DEF Init, OnePublished, Published
<1> QED BY <1>1, OnePublishedStep, TypeCorrect, PTL DEF Spec

-----------------------------------------------------------------------------
(* No application is left behind unexplained                                *)

\* Every step that leaves APPLYING on the row leaves a call that will settle it, or
\* has lost the outcome of one.
LEMMA ApplyingStep ==
  ASSUME TypeOK, ApplyingIsExplained, [Next]_vars
  PROVE  ApplyingIsExplained'
PROOF
<1> USE DEF ApplyingIsExplained, Applications
<1>0. call \in [Callers -> Calls]
  BY DEF TypeOK
<1>1. ASSUME UNCHANGED << reported, unrecorded, call >>
      PROVE ApplyingIsExplained'
  BY <1>1
<1>2. create_draft \/ (\E v \in Versions : clone_version(v)) \/ UNCHANGED vars
        => UNCHANGED << reported, unrecorded, call >>
  BY DEF create_draft, clone_version, InsertDraft, vars, dbVars, gatewayVars
<1>3. start_device \/ stop_device \/ (\E r \in RuntimeIds : RuntimeEnds(r))
        => UNCHANGED << reported, unrecorded, call >>
  BY DEF start_device, stop_device, RuntimeEnds, dbVars
\* A step of a call that is not applying leaves every other call alone.
<1>4. ASSUME NEW c \in Callers, c \notin Applications, UNCHANGED << reported, unrecorded >>,
             NEW k, call' = [call EXCEPT ![c] = k]
      PROVE ApplyingIsExplained'
  BY <1>0, <1>4
<1>5. ASSUME NEW c \in Callers, NEW op \in DOMAIN Admitted, NEW v \in Versions, Load(c, op, v)
      PROVE ApplyingIsExplained'
  BY <1>4, <1>5 DEF Load, dbVars, gatewayVars
<1>6. ASSUME NEW c \in Callers, apply_current(c)
      PROVE ApplyingIsExplained'
  BY <1>4, <1>6 DEF apply_current, dbVars, gatewayVars
<1>7. ASSUME NEW c \in Callers, CallStep(c)
      PROVE ApplyingIsExplained'
  <2>1. CASE \E content \in Contents : update_draft(c, content)
    BY <1>4, <2>1 DEF update_draft, EndCall, gatewayVars
  <2>2. CASE delete_draft(c) \/ validate_version(c)
    BY <1>4, <2>2 DEF delete_draft, validate_version, EndCall, gatewayVars
  <2>3. CASE Rollback(c) \/ ApplyVanished(c)
    BY <1>4, <2>3 DEF Rollback, ApplyVanished, EndCall, dbVars, gatewayVars
  <2>4. CASE archive_published_except(c) \/ publish(c)
    BY <1>4, <2>4 DEF archive_published_except, publish, dbVars, gatewayVars
  <2>5. CASE _mark_applying(c)
    BY <1>0, <2>5 DEF _mark_applying, gatewayVars, Calls
  <2>6. CASE ApplyStart(c)
    BY <1>0, <2>6 DEF ApplyStart, Calls, dbVars
  <2>7. CASE ApplyNotReady(c) \/ ApplyReady(c) \/ ApplySwap(c)
    BY <1>0, <2>7 DEF ApplyNotReady, ApplyReady, ApplySwap, Calls, dbVars
  <2>8. CASE _record_apply(c)
    BY <2>8 DEF _record_apply
  <2>9. CASE RecordLost(c)
    BY <2>9 DEF RecordLost
  <2> QED BY <1>7, <2>1, <2>2, <2>3, <2>4, <2>5, <2>6, <2>7, <2>8, <2>9 DEF CallStep
<1>8. CASE Crash
  BY <1>8 DEF Crash
<1>9. CASE BootPublished
  BY <1>9 DEF BootPublished
<1>10. CASE BootFromFile
  BY <1>10 DEF BootFromFile
<1> QED
  BY <1>1, <1>2, <1>3, <1>5, <1>6, <1>7, <1>8, <1>9, <1>10 DEF Next

-----------------------------------------------------------------------------
(* The gateway keeps polling                                                *)

\* Rows hold a definition, and so do every call in flight and the gateway's runtime.
HoldsContent ==
  /\ \A v \in Versions : Exists(v) => vcontent[v] \in Contents
  /\ \A c \in Callers : call[c].pc # "idle" => /\ call[c].content \in Contents
                                               /\ call[c].version \in Versions
  /\ tracked # NoRuntime => definition # NoContent

\* There are no calls while the process is down.
DownIsIdle == ~up => tracked = NoRuntime /\ \A c \in Callers : call[c] = NoCall

\* A candidate that has been started runs unless it has given up, and no one else
\* refers to it, until its own call puts it in the gateway or discards it.
CandidateInv ==
  \A c \in Callers : call[c].pc \in { "starting", "swapping" } =>
    /\ call[c].candidate \in RuntimeIds
    /\ running[call[c].candidate] # NoContent \/ call[c].candidate \in halted
    /\ call[c].candidate \notin { tracked, call[c].previous }
    /\ \A d \in Callers \ {c} : call[c].candidate \notin { call[d].previous, call[d].candidate }

RunInv == HoldsContent /\ DownIsIdle /\ CandidateInv /\ TrackedRuns

\* Every step keeps rows and calls in possession of a definition, and the calls
\* inside the life of the process.
LEMMA HoldsStep ==
  ASSUME TypeOK, HoldsContent, DownIsIdle, [Next]_vars
  PROVE  HoldsContent' /\ DownIsIdle'
PROOF
<1> USE ContentsAssumption DEF HoldsContent, DownIsIdle, Exists
<1>0. /\ call \in [Callers -> Calls]
      /\ vstatus \in [Versions -> { "NONE", "DRAFT", "VALIDATED", "PUBLISHED", "ARCHIVED" }]
      /\ vcontent \in [Versions -> Contents \cup {NoContent}]
      /\ NoCall.pc = "idle"
      /\ \A c \in Callers : call[c].pc # "idle" => up
  BY DEF TypeOK, NoCall
<1>1. ASSUME NEW x \in Contents, InsertDraft(x)
      PROVE HoldsContent' /\ DownIsIdle'
  BY <1>0, <1>1 DEF InsertDraft, gatewayVars
<1>2. ASSUME NEW c \in Callers, NEW op \in DOMAIN Admitted, NEW v \in Versions, Load(c, op, v)
      PROVE HoldsContent' /\ DownIsIdle'
  BY <1>0, <1>2 DEF Load, Admitted, MUTABLE_STATUSES, NoCall, dbVars, gatewayVars
<1>3. ASSUME NEW c \in Callers, apply_current(c)
      PROVE HoldsContent' /\ DownIsIdle'
  BY <1>0, <1>3 DEF apply_current, Published, NoCall, dbVars, gatewayVars
<1>4. ASSUME NEW c \in Callers, CallStep(c)
      PROVE HoldsContent' /\ DownIsIdle'
  <2>0. up
    BY <1>0, <1>4 DEF CallStep, update_draft, delete_draft, validate_version,
       archive_published_except, publish, Rollback, ApplyVanished, _mark_applying, ApplyStart,
       ApplyNotReady, ApplyReady, ApplySwap, _record_apply, RecordLost
  <2>1. up' = up
    BY <1>4 DEF CallStep, update_draft, delete_draft, validate_version,
       archive_published_except, publish, Rollback, ApplyVanished, _mark_applying, ApplyStart,
       ApplyNotReady, ApplyReady, ApplySwap, _record_apply, RecordLost, gatewayVars
  <2>2. DownIsIdle'
    BY <2>0, <2>1
  <2>3. CASE \E content \in Contents : update_draft(c, content)
    BY <1>0, <2>2, <2>3 DEF update_draft, EndCall, gatewayVars
  <2>4. CASE delete_draft(c)
    BY <1>0, <2>2, <2>4 DEF delete_draft, EndCall, gatewayVars
  <2>5. CASE validate_version(c)
    BY <1>0, <2>2, <2>5 DEF validate_version, EndCall, MUTABLE_STATUSES, gatewayVars
  <2>6. CASE publish(c)
    BY <1>0, <2>2, <2>6 DEF publish, Published, Calls, gatewayVars
  <2>7. CASE archive_published_except(c) \/ Rollback(c) \/ ApplyVanished(c)
    BY <1>0, <2>2, <2>7 DEF archive_published_except, Rollback, ApplyVanished, EndCall, Calls,
       dbVars, gatewayVars
  <2>8. CASE _mark_applying(c) \/ _record_apply(c) \/ RecordLost(c)
    BY <1>0, <2>2, <2>8 DEF _mark_applying, _record_apply, RecordLost, EndCall, Calls, gatewayVars
  <2>9. CASE ApplyStart(c)
    BY <1>0, <2>2, <2>9 DEF ApplyStart, Calls, dbVars
  <2>10. CASE ApplyNotReady(c) \/ ApplyReady(c) \/ ApplySwap(c)
    BY <1>0, <2>2, <2>10 DEF ApplyNotReady, ApplyReady, ApplySwap, Calls, dbVars
  <2> QED
    BY <1>4, <2>3, <2>4, <2>5, <2>6, <2>7, <2>8, <2>9, <2>10 DEF CallStep
<1>5. CASE Crash
  BY <1>0, <1>5 DEF Crash, dbVars
<1>6. CASE BootPublished
  <2>1. PICK v \in Published : StartRuntime(vcontent[v])
    BY <1>6 DEF BootPublished
  <2>2. vcontent[v] # NoContent
    BY DEF Published
  <2> QED BY <1>0, <1>6, <2>1, <2>2 DEF BootPublished, StartRuntime
<1>7. CASE BootFromFile
  BY <1>0, <1>7 DEF BootFromFile, StartRuntime
<1>9. CASE start_device \/ stop_device
  BY <1>9 DEF start_device, stop_device, dbVars
<1>10. ASSUME NEW r \in RuntimeIds, RuntimeEnds(r)
       PROVE HoldsContent' /\ DownIsIdle'
  BY <1>10 DEF RuntimeEnds, dbVars
<1>11. CASE UNCHANGED vars
  BY <1>11 DEF vars, dbVars, gatewayVars
<1>8. ASSUME NEW v \in Versions, clone_version(v)
      PROVE HoldsContent' /\ DownIsIdle'
  BY <1>1, <1>8 DEF clone_version
<1> QED
  BY <1>1, <1>2, <1>3, <1>4, <1>5, <1>6, <1>7, <1>8, <1>9, <1>10, <1>11 DEF Next, create_draft

\* Every step leaves a started candidate to its own call.
LEMMA CandidateStep ==
  ASSUME TypeOK, RunInv, [Next]_vars
  PROVE  CandidateInv'
PROOF
<1> USE ContentsAssumption, RuntimeAssumption DEF RunInv, CandidateInv
<1>0. /\ call \in [Callers -> Calls]
      /\ running \in [RuntimeIds -> Contents \cup {NoContent, Bootstrap}]
      /\ NoCall.pc = "idle" /\ NoCall.previous = NoRuntime /\ NoCall.candidate = NoRuntime
  BY DEF TypeOK, NoCall
<1>1. ASSUME UNCHANGED << tracked, running, halted, call >>
      PROVE CandidateInv'
  BY <1>1
<1>2. create_draft \/ (\E v \in Versions : clone_version(v)) \/ UNCHANGED vars
        => UNCHANGED << tracked, running, halted, call >>
  BY DEF create_draft, clone_version, InsertDraft, vars, dbVars, gatewayVars
\* A caller that has no candidate, or gives it up, disturbs no other call.
<1>3. ASSUME NEW c \in Callers, UNCHANGED << tracked, running, halted >>,
             NEW k, call' = [call EXCEPT ![c] = k], k.pc \notin { "starting", "swapping" },
             k.previous \in { NoRuntime, call[c].previous },
             k.candidate \in { NoRuntime, call[c].candidate }
      PROVE CandidateInv'
  BY <1>0, <1>3
<1>4. ASSUME NEW c \in Callers, NEW op \in DOMAIN Admitted, NEW v \in Versions, Load(c, op, v)
      PROVE CandidateInv'
  <2>1. op \notin { "starting", "swapping" }
    BY DEF Admitted
  <2> QED BY <1>3, <1>4, <2>1 DEF Load, NoCall, gatewayVars
<1>5. ASSUME NEW c \in Callers, apply_current(c)
      PROVE CandidateInv'
  BY <1>3, <1>5 DEF apply_current, NoCall, gatewayVars
<1>6. ASSUME NEW c \in Callers, CallStep(c)
      PROVE CandidateInv'
  <2>0. call[c] \in Calls
    BY <1>0
  <2>1. CASE \E content \in Contents : update_draft(c, content)
    BY <1>0, <1>3, <2>1 DEF update_draft, EndCall, gatewayVars
  <2>2. CASE delete_draft(c) \/ validate_version(c) \/ _record_apply(c) \/ RecordLost(c)
    BY <1>0, <1>3, <2>2 DEF delete_draft, validate_version, _record_apply, RecordLost,
       EndCall, gatewayVars
  <2>3. CASE Rollback(c) \/ ApplyVanished(c)
    BY <1>0, <1>3, <2>3 DEF Rollback, ApplyVanished, EndCall, gatewayVars
  <2>4. CASE archive_published_except(c) \/ publish(c) \/ _mark_applying(c)
    BY <2>0, <1>3, <2>4 DEF archive_published_except, publish, _mark_applying, Calls, gatewayVars
  <2>5. CASE ApplyStart(c)
    <3>1. PICK r \in RuntimeIds :
            /\ Free(r)
            /\ running' = [running EXCEPT ![r] = call[c].content]
            /\ halted' = halted \ {r}
            /\ call' = [call EXCEPT ![c] = [@ EXCEPT !.pc = "starting", !.previous = tracked,
                                                     !.candidate = r]]
      BY <1>0, <2>5 DEF ApplyStart, Calls
    <3>2. call[c].content # NoContent /\ tracked' = tracked
      BY <2>5 DEF ApplyStart, HoldsContent
    <3>3. call'[c].candidate = r /\ call'[c].previous = tracked
          /\ \A d \in Callers \ {c} : call'[d] = call[d]
      BY <1>0, <3>1 DEF Calls
    <3>4. \A d \in Callers : r \notin { call[d].previous, call[d].candidate }
          /\ r # tracked
      BY <3>1 DEF Free
    <3>5. ASSUME NEW d \in Callers, call'[d].pc \in { "starting", "swapping" }, d # c
          PROVE  /\ call'[d].candidate \in RuntimeIds
                 /\ running'[call'[d].candidate] # NoContent \/ call'[d].candidate \in halted'
                 /\ call'[d].candidate \notin { tracked', call'[d].previous }
                 /\ \A e \in Callers \ {d} :
                      call'[d].candidate \notin { call'[e].previous, call'[e].candidate }
      BY <1>0, <3>1, <3>2, <3>3, <3>4, <3>5
    <3>6. /\ call'[c].candidate \in RuntimeIds
          /\ running'[call'[c].candidate] # NoContent
          /\ call'[c].candidate \notin { tracked', call'[c].previous }
          /\ \A e \in Callers \ {c} :
               call'[c].candidate \notin { call'[e].previous, call'[e].candidate }
      BY <1>0, <3>1, <3>2, <3>3, <3>4
    <3> QED BY <3>5, <3>6
  <2>6. CASE ApplyNotReady(c)
    <3>1. /\ call[c].pc = "starting" /\ tracked' = tracked
          /\ call' = [call EXCEPT ![c] = [@ EXCEPT !.pc = "recording"]]
          /\ running' = Stop(call[c].candidate) /\ halted' = halted \ {call[c].candidate}
      BY <1>0, <2>6 DEF ApplyNotReady, Calls
    <3>2. /\ call'[c].candidate = call[c].candidate /\ call'[c].previous = call[c].previous
          /\ call'[c].pc = "recording"
          /\ \A d \in Callers \ {c} : call'[d] = call[d]
      BY <1>0, <3>1 DEF Calls
    <3> QED BY <1>0, <3>1, <3>2 DEF Stop
  <2>7. CASE ApplyReady(c)
    <3>1. /\ call[c].pc = "starting" /\ tracked' = tracked
          /\ call' = [call EXCEPT ![c] = [@ EXCEPT !.pc = "swapping"]]
          /\ running' = Stop(call[c].previous) /\ halted' = halted \ {call[c].previous}
      BY <1>0, <2>7 DEF ApplyReady, Calls
    <3>2. /\ call'[c].candidate = call[c].candidate /\ call'[c].previous = call[c].previous
          /\ call'[c].pc = "swapping"
          /\ \A d \in Callers \ {c} : call'[d] = call[d]
      BY <1>0, <3>1 DEF Calls
    <3> QED BY <1>0, <3>1, <3>2 DEF Stop
  <2>8. CASE ApplySwap(c)
    <3>1. /\ call[c].pc = "swapping" /\ tracked' = call[c].candidate
          /\ running' = running /\ halted' = halted
          /\ call' = [call EXCEPT ![c] = [@ EXCEPT !.pc = "recording",
                                                   !.outcome = "APPLIED"]]
      BY <1>0, <2>8 DEF ApplySwap, Calls
    <3>2. /\ call'[c].candidate = call[c].candidate /\ call'[c].previous = call[c].previous
          /\ call'[c].pc = "recording"
          /\ \A d \in Callers \ {c} : call'[d] = call[d]
      BY <1>0, <3>1 DEF Calls
    <3> QED BY <1>0, <3>1, <3>2
  <2> QED BY <1>6, <2>1, <2>2, <2>3, <2>4, <2>5, <2>6, <2>7, <2>8 DEF CallStep
<1>7. CASE Crash
  BY <1>0, <1>7 DEF Crash
<1>8. CASE BootPublished \/ BootFromFile
  BY <1>0, <1>8 DEF BootPublished, BootFromFile, DownIsIdle
<1>9. CASE start_device
  BY <1>0, <1>9 DEF start_device, HoldsContent
<1>10. CASE stop_device
  BY <1>0, <1>10 DEF stop_device, Stop
<1>11. ASSUME NEW r \in RuntimeIds, RuntimeEnds(r)
       PROVE CandidateInv'
  BY <1>0, <1>11 DEF RuntimeEnds, Stop
<1> QED BY <1>1, <1>2, <1>4, <1>5, <1>6, <1>7, <1>8, <1>9, <1>10, <1>11 DEF Next

\* Every step leaves the gateway a runtime that runs, or a call about to give
\* it one.
LEMMA TrackedStep ==
  ASSUME TypeOK, RunInv, [Next]_vars
  PROVE  TrackedRuns'
PROOF
<1> USE ContentsAssumption, RuntimeAssumption DEF RunInv, TrackedRuns
<1>0. /\ call \in [Callers -> Calls]
      /\ running \in [RuntimeIds -> Contents \cup {NoContent, Bootstrap}]
      /\ tracked \in RuntimeIds \cup {NoRuntime}
      /\ NoCall.pc = "idle"
  BY DEF TypeOK, NoCall
\* A call that is not swapping may go anywhere while the gateway is left alone.
<1>1. ASSUME NEW c \in Callers, UNCHANGED << up, tracked, running, halted >>, call[c].pc # "swapping",
             NEW k, call' = [call EXCEPT ![c] = k]
      PROVE TrackedRuns'
  BY <1>0, <1>1
<1>2. ASSUME UNCHANGED << gatewayVars, call >>
      PROVE TrackedRuns'
  BY <1>2 DEF gatewayVars
<1>3. create_draft \/ (\E v \in Versions : clone_version(v)) \/ UNCHANGED vars
        => UNCHANGED << gatewayVars, call >>
  BY DEF create_draft, clone_version, InsertDraft, vars, dbVars, gatewayVars
<1>4. ASSUME NEW c \in Callers, NEW op \in DOMAIN Admitted, NEW v \in Versions, Load(c, op, v)
      PROVE TrackedRuns'
  BY <1>1, <1>4 DEF Load, gatewayVars
<1>5. ASSUME NEW c \in Callers, apply_current(c)
      PROVE TrackedRuns'
  BY <1>1, <1>5 DEF apply_current, gatewayVars
<1>6. ASSUME NEW c \in Callers, CallStep(c)
      PROVE TrackedRuns'
  <2>1. CASE \E content \in Contents : update_draft(c, content)
    BY <1>1, <2>1 DEF update_draft, EndCall, gatewayVars
  <2>2. CASE delete_draft(c) \/ validate_version(c) \/ _record_apply(c) \/ RecordLost(c)
    BY <1>1, <2>2 DEF delete_draft, validate_version, _record_apply, RecordLost,
       EndCall, gatewayVars
  <2>3. CASE Rollback(c) \/ ApplyVanished(c)
    BY <1>1, <2>3 DEF Rollback, ApplyVanished, EndCall, gatewayVars
  <2>4. CASE archive_published_except(c) \/ publish(c) \/ _mark_applying(c)
    <3>1. /\ call[c].pc # "swapping"
          /\ up' = up /\ tracked' = tracked /\ running' = running /\ halted' = halted
          /\ \A d \in Callers \ {c} : call'[d] = call[d]
      BY <1>0, <2>4 DEF archive_published_except, publish, _mark_applying, gatewayVars
    <3> QED BY <3>1
  <2>5. CASE ApplyStart(c)
    <3>1. PICK r \in RuntimeIds :
            /\ Free(r)
            /\ running' = [running EXCEPT ![r] = call[c].content]
            /\ halted' = halted \ {r}
      BY <2>5 DEF ApplyStart
    <3>2. /\ tracked' = tracked /\ up' = up
          /\ call[c].pc = "applying"
          /\ \A d \in Callers \ {c} : call'[d] = call[d]
      BY <1>0, <2>5 DEF ApplyStart
    <3> QED BY <1>0, <3>1, <3>2 DEF Free
  <2>6. CASE ApplyNotReady(c)
    <3>1. /\ call[c].pc = "starting" /\ tracked' = tracked /\ up' = up
          /\ running' = Stop(call[c].candidate) /\ halted' = halted \ {call[c].candidate}
          /\ \A d \in Callers \ {c} : call'[d] = call[d]
      BY <1>0, <2>6 DEF ApplyNotReady
    <3>2. call[c].candidate # tracked
      BY <3>1 DEF CandidateInv
    <3> QED BY <1>0, <3>1, <3>2 DEF Stop
  <2>7. CASE ApplyReady(c)
    <3>1. call'[c].pc = "swapping"
      BY <1>0, <2>7 DEF ApplyReady, Calls
    <3> QED BY <3>1
  <2>8. CASE ApplySwap(c)
    <3>1. running'[tracked'] # NoContent \/ tracked' \in halted'
      BY <2>8 DEF ApplySwap, CandidateInv
    <3> QED BY <3>1
  <2> QED BY <1>6, <2>1, <2>2, <2>3, <2>4, <2>5, <2>6, <2>7, <2>8 DEF CallStep
<1>7. CASE Crash
  BY <1>7 DEF Crash
<1>8. CASE BootPublished
  <2>1. PICK v \in Published : StartRuntime(vcontent[v])
    BY <1>8 DEF BootPublished
  <2>2. vcontent[v] \in Contents
    BY DEF HoldsContent, Published, Exists
  <2> QED BY <1>0, <2>1, <2>2 DEF StartRuntime
<1>9. CASE BootFromFile
  BY <1>0, <1>9 DEF BootFromFile, StartRuntime, DownIsIdle
<1>10. CASE start_device
  BY <1>0, <1>10 DEF start_device, HoldsContent
<1>11. CASE stop_device
  BY <1>11 DEF stop_device
<1>12. ASSUME NEW r \in RuntimeIds, RuntimeEnds(r)
       PROVE TrackedRuns'
  BY <1>0, <1>12 DEF RuntimeEnds, Stop
<1> QED BY <1>2, <1>3, <1>4, <1>5, <1>6, <1>7, <1>8, <1>9, <1>10, <1>11, <1>12 DEF Next

\* The inductive invariant behind it holds throughout.
LEMMA RunInvariant == Spec => [](TypeOK /\ RunInv)
PROOF
<1>1. Init => RunInv
  BY DEF Init, RunInv, HoldsContent, DownIsIdle, CandidateInv, TrackedRuns, Exists, NoCall
<1>2. TypeOK /\ RunInv /\ [Next]_vars => RunInv'
  BY HoldsStep, CandidateStep, TrackedStep DEF RunInv
<1> QED BY <1>1, <1>2, TypeCorrect, PTL DEF Spec

\* However applications, commands, failures and restarts overlap, the runtime that the
\* gateway refers to runs, unless an operator stopped it or it gave up by itself
\* (stop_device, the end of a runtime's task), or a call is about to put its candidate
\* there: no application leaves the device without one.
THEOREM GatewayKeepsPolling == Spec => []TrackedRuns
PROOF
<1>1. RunInv => TrackedRuns
  BY DEF RunInv
<1> QED BY <1>1, RunInvariant, PTL

-----------------------------------------------------------------------------
(* A published version is kept                                              *)

\* The number handed out is above every version there is, so its row is new.
LEMMA NextVersionIsNew ==
  ASSUME NEW n \in Versions, Exists(n)
  PROVE  next_version # n
PROOF
<1> DEFINE S == { v \in Versions : \E w \in Versions : w >= v /\ Exists(w) }
<1>0. MaxVersion \in Nat /\ n \in Nat /\ n >= 1 /\ n <= MaxVersion
  BY VersionAssumption DEF Versions
<1>1. IsFiniteSet(Versions)
  BY <1>0, FS_Interval DEF Versions
<1>2. S \subseteq Versions /\ 1 .. n \subseteq S
  BY <1>0 DEF Versions
<1> HIDE DEF S
<1>3. IsFiniteSet(S)
  BY <1>1, <1>2, FS_Subset
<1>4. Cardinality(1 .. n) <= Cardinality(S)
  BY <1>2, <1>3, FS_Subset
<1>5. Cardinality(1 .. n) = n
  BY <1>0, FS_Interval
<1>6. Cardinality(S) \in Nat
  BY <1>3, FS_CardinalityType
<1>7. next_version = 1 + Cardinality(S)
  BY DEF next_version, S
<1> QED BY <1>0, <1>4, <1>5, <1>6, <1>7

\* A step that leaves a device without a published version deletes the row: a
\* publication archives the incumbent in the statement that promotes its successor.
LEMMA DesiredStep == TypeOK /\ HoldsContent /\ [Next]_vars => DesiredKept
PROOF
<1> SUFFICES ASSUME TypeOK, HoldsContent, [Next]_vars, Published # {} PROVE
      \/ Published' # {}
      \/ \E c \in Callers : call[c].pc = "delete" /\ call[c].version \in Published
  BY DEF DesiredKept
<1> DEFINE Kept == Published' # {}
<1> USE DEF Published
<1>0. PICK v \in Versions : vstatus[v] = "PUBLISHED"
  OBVIOUS
<1>1. ASSUME NEW content, InsertDraft(content)
      PROVE Kept
  <2>1. next_version # v
    BY <1>0, NextVersionIsNew DEF Exists
  <2> QED BY <1>0, <1>1, <2>1 DEF InsertDraft, TypeOK
<1>2. CASE UNCHANGED vstatus
  BY <1>0, <1>2
<1>3. ASSUME NEW c \in Callers, CallStep(c)
      PROVE Kept \/ (call[c].pc = "delete" /\ call[c].version \in Published)
  <2>1. CASE \E content \in Contents : update_draft(c, content)
    BY <1>0, <2>1 DEF update_draft, MUTABLE_STATUSES, TypeOK
  <2>2. CASE delete_draft(c)
    BY <1>0, <2>2 DEF delete_draft, TypeOK
  <2>3. CASE validate_version(c)
    BY <1>0, <2>3 DEF validate_version, MUTABLE_STATUSES, TypeOK
  <2>4. CASE publish(c)
    <3>1. call[c].version \in Versions
      BY <2>4 DEF publish, HoldsContent
    <3> QED BY <2>4, <3>1 DEF publish
  <2>5. CASE archive_published_except(c) \/ Rollback(c) \/ ApplyVanished(c)
    BY <1>2, <2>5 DEF archive_published_except, Rollback, ApplyVanished, dbVars
  <2>6. CASE _mark_applying(c) \/ _record_apply(c) \/ RecordLost(c)
    BY <1>2, <2>6 DEF _mark_applying, _record_apply, RecordLost
  <2>7. CASE ApplyStart(c) \/ ApplyNotReady(c) \/ ApplyReady(c) \/ ApplySwap(c)
    BY <1>2, <2>7 DEF ApplyStart, ApplyNotReady, ApplyReady, ApplySwap, dbVars
  <2> QED BY <1>3, <2>1, <2>2, <2>3, <2>4, <2>5, <2>6, <2>7 DEF CallStep
<1>4. ASSUME NEW c \in Callers, apply_current(c)
      PROVE UNCHANGED vstatus
  BY <1>4 DEF apply_current, dbVars
<1>5. ASSUME NEW c \in Callers, NEW op \in DOMAIN Admitted, NEW w \in Versions, Load(c, op, w)
      PROVE UNCHANGED vstatus
  BY <1>5 DEF Load, dbVars
<1>6. Crash \/ BootPublished \/ BootFromFile \/ UNCHANGED vars => UNCHANGED vstatus
  BY DEF Crash, BootPublished, BootFromFile, vars, dbVars
<1>7. start_device \/ stop_device \/ (\E r \in RuntimeIds : RuntimeEnds(r)) => UNCHANGED vstatus
  BY DEF start_device, stop_device, RuntimeEnds, dbVars
<1> QED
  BY <1>1, <1>2, <1>3, <1>4, <1>5, <1>6, <1>7 DEF Next, create_draft, clone_version

\* However calls overlap (publish, _mark_applying, _record_apply, the failures in
\* between): one published version and no less, and an APPLYING that no call will
\* settle is one whose outcome was lost with the process or with the database.
THEOREM VersionsAreSound == Spec => VersionsSound
PROOF
<1>1. Init => ApplyingIsExplained
  BY DEF Init, ApplyingIsExplained
<1>2. TypeOK /\ ApplyingIsExplained /\ [Next]_vars => ApplyingIsExplained'
  BY ApplyingStep
<1>3. Spec => []ApplyingIsExplained
  BY <1>1, <1>2, TypeCorrect, PTL DEF Spec
<1>4. Spec => [](OnePublished /\ ApplyingIsExplained)
  BY <1>3, SinglePublished, PTL
<1>5. TypeOK /\ RunInv /\ [Next]_vars => [DesiredKept]_vars
  BY DesiredStep DEF RunInv
<1>6. Spec => [][DesiredKept]_vars
  BY <1>5, RunInvariant, PTL DEF Spec
<1> QED BY <1>4, <1>6, PTL DEF VersionsSound

-----------------------------------------------------------------------------
(* One call at a time                                                       *)

Applying == { "applying", "starting", "swapping", "recording" }

Editing == { "update", "delete", "validate", "publish", "archived" }

\* What a call has read is what the row holds: a draft that is edited, judged or about to be
\* published, or the version that is published.
Fresh(k) ==
  /\ k.pc = "idle" => k = NoCall
  /\ k.pc \in Editing => /\ k.version \in Versions
                         /\ vstatus[k.version] = k.status /\ k.status \in MUTABLE_STATUSES
                         /\ vcontent[k.version] = k.content
                         /\ k.pc \in { "publish", "archived" } => k.content \in ValidContents
  /\ k.pc \in Applying \cup { "published" } => /\ k.version \in Versions
                                               /\ vstatus[k.version] = "PUBLISHED"
                                               /\ vcontent[k.version] = k.content

\* Calls are fresh, what is published is valid, and the version that is reported as applied
\* has been published and so cannot be edited any more.
RowsInv ==
  /\ \A c \in Callers : Fresh(call[c])
  /\ \A v \in Published : vcontent[v] \in ValidContents
  /\ reported.status = "APPLIED" => /\ reported.applied \in Versions
                                    /\ vstatus[reported.applied] \in { "PUBLISHED", "ARCHIVED" }

\* A runtime polls with a definition, or has given up or been stopped.
Polls(r, x) == running[r] = x \/ (r \in halted /\ running[r] = NoContent)

\* The gateway holds a version: the definition that can be run, and the runtime built with it.
InService(v, x) ==
  /\ tracked \in RuntimeIds /\ Polls(tracked, x)
  /\ definition = x /\ x \in RunnableContents
  /\ gatewayApplied = v

\* Where an application is: its candidate, the runtime it replaces and what it will report.
Handover(k) ==
  /\ k.pc \in Applying => reported.status = "APPLYING"
  /\ k.pc \in Editing \cup { "published", "applying", "starting", "swapping" } => k.outcome = "NONE"
  /\ k.pc = "starting" => /\ k.candidate \in RuntimeIds /\ Polls(k.candidate, k.content)
                          /\ k.previous = tracked /\ k.candidate # tracked
  /\ k.pc = "swapping" => /\ k.candidate \in RuntimeIds /\ Polls(k.candidate, k.content)
                          /\ k.content \in RunnableContents
                          /\ \A r \in RuntimeIds : running[r] # NoContent => r = k.candidate
  /\ k.pc = "recording" /\ k.outcome = "APPLIED" => InService(k.version, k.content)

\* Whatever runs is the gateway's or a candidate, what is reported as applied is in service,
\* and a settled report names the gateway's version.
GatewayInv ==
  /\ \A c \in Callers : Handover(call[c])
  /\ \A r \in RuntimeIds : running[r] # NoContent =>
       r = tracked \/ \E c \in Callers : call[c].pc \in { "starting", "swapping" } /\ r = call[c].candidate
  /\ up /\ reported.status = "APPLIED" => InService(reported.applied, vcontent[reported.applied])
  /\ up /\ reported.status # "APPLYING" => reported.applied = gatewayApplied
  /\ ~up => /\ tracked = NoRuntime /\ gatewayApplied = 0
            /\ \A r \in RuntimeIds : running[r] = NoContent

SerialInv == OneAtATime /\ RowsInv /\ GatewayInv

\* The call that takes a step is the only one in flight.
LEMMA Alone ==
  ASSUME call \in [Callers -> Calls], OneAtATime, OneAtATime', NEW c \in Callers,
         \A d \in Callers \ {c} : call'[d] = call[d], call[c] # NoCall \/ call'[c] # NoCall
  PROVE  \A d \in Callers \ {c} : call[d] = NoCall /\ call'[d] = NoCall
PROOF
<1> QED BY DEF OneAtATime

\* A step of a call replaces its record and no other: it ends, or its phase moves.
LEMMA CallStepShape ==
  ASSUME call \in [Callers -> Calls], NEW c \in Callers, CallStep(c)
  PROVE  /\ call[c].pc # "idle" /\ call[c] # NoCall
         /\ \A d \in Callers \ {c} : call'[d] = call[d]
PROOF
<1>1. call[c].pc # "idle"
  BY DEF CallStep, update_draft, delete_draft, validate_version,
     archive_published_except, publish, Rollback, ApplyVanished, _mark_applying, ApplyStart,
     ApplyNotReady, ApplyReady, ApplySwap, _record_apply, RecordLost
<1>2. call[c] # NoCall
  BY <1>1 DEF NoCall
<1> SUFFICES \A d \in Callers \ {c} : call'[d] = call[d]
  BY <1>1, <1>2
<1>3. CASE EndCall(c)
  BY <1>3 DEF EndCall
<1>4. CASE \E content \in Contents : update_draft(c, content)
  BY <1>3, <1>4 DEF update_draft
<1>5. CASE \/ delete_draft(c) \/ validate_version(c) \/ Rollback(c) \/ ApplyVanished(c)
           \/ _record_apply(c) \/ RecordLost(c)
  BY <1>3, <1>5 DEF delete_draft, validate_version, Rollback, ApplyVanished, _record_apply,
     RecordLost
<1>6. CASE archive_published_except(c)
  BY <1>6 DEF archive_published_except
<1>7. CASE publish(c)
  BY <1>7 DEF publish
<1>8. CASE _mark_applying(c)
  BY <1>8 DEF _mark_applying
<1>9. CASE ApplyStart(c)
  BY <1>9 DEF ApplyStart
<1>10. CASE ApplyNotReady(c)
  BY <1>10 DEF ApplyNotReady
<1>11. CASE ApplyReady(c)
  BY <1>11 DEF ApplyReady
<1>12. CASE ApplySwap(c)
  BY <1>12 DEF ApplySwap
<1> QED
  BY <1>4, <1>5, <1>6, <1>7, <1>8, <1>9, <1>10, <1>11, <1>12 DEF CallStep

\* The rows that a published version leaves behind, and a step that keeps them.
KeptRows ==
  \A v \in Versions :
    /\ vstatus[v] = "PUBLISHED" => /\ vstatus'[v] \in { "PUBLISHED", "ARCHIVED" }
                                   /\ vcontent'[v] = vcontent[v]
    /\ vstatus[v] = "ARCHIVED" => /\ vstatus'[v] = "ARCHIVED"
                                  /\ vcontent'[v] = vcontent[v]

\* A step taken by the only call in flight keeps it fresh, publishes only what is valid
\* and leaves published rows alone.
LEMMA RowsCallStep ==
  ASSUME TypeOK, TypeOK', OneAtATime, OneAtATime', RowsInv, NEW c \in Callers, CallStep(c)
  PROVE  RowsInv' /\ KeptRows
PROOF
<1> USE DEF Fresh, Published, KeptRows
<1>0. /\ call \in [Callers -> Calls] /\ call[c] \in Calls
      /\ vstatus \in [Versions -> { "NONE", "DRAFT", "VALIDATED", "PUBLISHED", "ARCHIVED" }]
      /\ vcontent \in [Versions -> Contents \cup {NoContent}]
      /\ NoCall.pc = "idle"
  BY DEF TypeOK, NoCall
<1>1. \A d \in Callers \ {c} : call[d] = NoCall /\ call'[d] = NoCall
  BY <1>0, CallStepShape, Alone
<1>2. Fresh(call[c])
  BY DEF RowsInv
\* The other calls are idle, so one record and the rows decide.
<1>3. ASSUME \/ call'[c] = NoCall
             \/ /\ call'[c].version = call[c].version /\ call'[c].content = call[c].content
                /\ call'[c].pc \in Editing => /\ call[c].pc \in Editing
                                              /\ call'[c].status = call[c].status
                                              /\ vstatus' = vstatus /\ vcontent' = vcontent
                                              /\ call'[c].pc \in { "publish", "archived" } =>
                                                   call[c].pc \in { "publish", "archived" }
                /\ call'[c].pc # "idle"
                /\ call'[c].pc \in Applying \cup { "published" } =>
                     /\ call[c].version \in Versions
                     /\ vstatus'[call[c].version] = "PUBLISHED"
                     /\ vcontent'[call[c].version] = call[c].content
      PROVE  \A d \in Callers : Fresh(call[d])'
  <2>1. ASSUME NEW d \in Callers, d # c
        PROVE  Fresh(call[d])'
    BY <1>0, <1>1, <2>1 DEF Editing, Applying
  <2>2. CASE call'[c] = NoCall
    BY <1>0, <2>1, <2>2 DEF Editing, Applying
  <2>3. CASE call'[c] # NoCall
    BY <1>2, <1>3, <2>1, <2>3
  <2> QED BY <2>2, <2>3
<1>4. EndCall(c) => call'[c] = NoCall
  BY <1>0 DEF EndCall
<1>5. ASSUME UNCHANGED << vstatus, vcontent >>
      PROVE  KeptRows /\ \A v \in Published' : vcontent'[v] \in ValidContents
  BY <1>5 DEF RowsInv
<1>6. CASE \E content \in Contents : update_draft(c, content)
  <2>1. PICK content \in Contents : update_draft(c, content)
    BY <1>6
  <2>2. /\ call[c].version \in Versions /\ vstatus[call[c].version] \in MUTABLE_STATUSES
        /\ vstatus[call[c].version] = call[c].status
    BY <1>2, <2>1 DEF update_draft, Editing
  <2>3. /\ \A v \in Versions : v # call[c].version => vstatus'[v] = vstatus[v] /\ vcontent'[v] = vcontent[v]
        /\ vstatus'[call[c].version] = "DRAFT"
        /\ reported' = reported /\ call'[c] = NoCall
    BY <1>0, <1>4, <2>1, <2>2 DEF update_draft, MUTABLE_STATUSES
  <2>4. \A d \in Callers : Fresh(call[d])'
    BY <1>3, <2>3
  <2> QED BY <2>2, <2>3, <2>4 DEF RowsInv, MUTABLE_STATUSES
<1>7. CASE delete_draft(c) \/ validate_version(c)
  <2>2. /\ call[c].version \in Versions /\ vstatus[call[c].version] \in MUTABLE_STATUSES
        /\ vstatus[call[c].version] = call[c].status
    BY <1>2, <1>7 DEF delete_draft, validate_version, Editing
  <2>3. /\ \A v \in Versions : v # call[c].version => vstatus'[v] = vstatus[v] /\ vcontent'[v] = vcontent[v]
        /\ vstatus'[call[c].version] \in { "NONE", "VALIDATED" }
        /\ reported' = reported /\ call'[c] = NoCall
    BY <1>0, <1>4, <1>7, <2>2 DEF delete_draft, validate_version, MUTABLE_STATUSES
  <2>4. \A d \in Callers : Fresh(call[d])'
    BY <1>3, <2>3
  <2> QED BY <2>2, <2>3, <2>4 DEF RowsInv, MUTABLE_STATUSES
<1>8. CASE archive_published_except(c)
  <2>1. /\ call'[c].version = call[c].version /\ call'[c].content = call[c].content
        /\ call'[c].status = call[c].status /\ call[c].pc = "publish" /\ call'[c].pc = "archived"
        /\ UNCHANGED << vstatus, vcontent, reported >>
    BY <1>0, <1>8 DEF archive_published_except, Calls, dbVars
  <2>2. \A d \in Callers : Fresh(call[d])'
    BY <1>3, <2>1 DEF Editing, Applying
  <2> QED BY <1>5, <2>1, <2>2 DEF RowsInv
<1>9. CASE publish(c)
  <2>1. /\ call'[c].version = call[c].version /\ call'[c].content = call[c].content
        /\ call[c].pc = "archived" /\ call'[c].pc = "published"
        /\ UNCHANGED << vcontent, reported >>
    BY <1>0, <1>9 DEF publish, Calls
  <2>2. /\ call[c].version \in Versions /\ vstatus[call[c].version] \in MUTABLE_STATUSES
        /\ vcontent[call[c].version] = call[c].content /\ call[c].content \in ValidContents
    BY <1>2, <2>1 DEF Editing
  <2>3. /\ vstatus'[call[c].version] = "PUBLISHED"
        /\ \A w \in Versions : w # call[c].version =>
             vstatus'[w] = IF vstatus[w] = "PUBLISHED" THEN "ARCHIVED" ELSE vstatus[w]
    BY <1>9, <2>2 DEF publish
  <2>4. \A d \in Callers : Fresh(call[d])'
    BY <1>3, <2>1, <2>2, <2>3 DEF Editing, Applying
  <2>5. /\ KeptRows
        /\ \A v \in Published' : vcontent'[v] \in ValidContents
    BY <2>1, <2>2, <2>3 DEF MUTABLE_STATUSES
  <2>6. reported.status = "APPLIED" => /\ reported.applied \in Versions
                                       /\ vstatus'[reported.applied] \in { "PUBLISHED", "ARCHIVED" }
    BY <2>2, <2>3 DEF RowsInv, MUTABLE_STATUSES
  <2> QED BY <2>1, <2>4, <2>5, <2>6 DEF RowsInv
<1>10. CASE Rollback(c) \/ ApplyVanished(c) \/ RecordLost(c)
  <2>1. call'[c] = NoCall /\ UNCHANGED << vstatus, vcontent, reported >>
    BY <1>4, <1>10 DEF Rollback, ApplyVanished, RecordLost, dbVars
  <2> QED BY <1>3, <1>5, <2>1 DEF RowsInv
<1>11. CASE _mark_applying(c) \/ ApplyStart(c) \/ ApplyNotReady(c) \/ ApplyReady(c) \/ ApplySwap(c)
  <2>1. /\ call'[c].version = call[c].version /\ call'[c].content = call[c].content
        /\ call[c].pc \in Applying \cup { "published" } /\ call'[c].pc \in Applying
        /\ UNCHANGED << vstatus, vcontent >>
        /\ reported'.status = "APPLIED" => reported' = reported
    <3>1. CASE _mark_applying(c)
      BY <1>0, <3>1 DEF _mark_applying, Calls, Applying
    <3>2. CASE ApplyStart(c)
      BY <1>0, <3>2 DEF ApplyStart, Calls, Applying, dbVars
    <3>3. CASE ApplyNotReady(c) \/ ApplyReady(c) \/ ApplySwap(c)
      BY <1>0, <3>3 DEF ApplyNotReady, ApplyReady, ApplySwap, Calls, Applying, dbVars
    <3> QED BY <1>11, <3>1, <3>2, <3>3
  <2>2. call'[c].pc \notin Editing /\ call'[c].pc # "idle"
    BY <2>1 DEF Applying, Editing
  <2>3. \A d \in Callers : Fresh(call[d])'
    BY <1>2, <1>3, <2>1, <2>2
  <2> QED BY <1>5, <2>1, <2>3 DEF RowsInv
<1>12. CASE _record_apply(c)
  <2>1. /\ call'[c] = NoCall /\ UNCHANGED << vstatus, vcontent >>
        /\ call[c].version \in Versions /\ vstatus[call[c].version] = "PUBLISHED"
        /\ reported'.status = "APPLIED" => reported'.applied = call[c].version
    BY <1>2, <1>4, <1>12 DEF _record_apply, Applying
  <2> QED BY <1>3, <1>5, <2>1 DEF RowsInv
<1> QED
  BY <1>6, <1>7, <1>8, <1>9, <1>10, <1>11, <1>12 DEF CallStep

\* One call at a time, every step keeps what a call has read true of its row, and leaves
\* published rows alone.
LEMMA RowsStep ==
  ASSUME Bootstrap # NoContent, TypeOK, TypeOK', OneAtATime, OneAtATime', RowsInv, [Next]_vars
  PROVE  RowsInv' /\ KeptRows
PROOF
<1> USE DEF Fresh, Published, KeptRows
<1>0. /\ call \in [Callers -> Calls]
      /\ vstatus \in [Versions -> { "NONE", "DRAFT", "VALIDATED", "PUBLISHED", "ARCHIVED" }]
      /\ vcontent \in [Versions -> Contents \cup {NoContent}]
      /\ NoCall.pc = "idle"
  BY DEF TypeOK, NoCall
<1>1. ASSUME NEW x, InsertDraft(x)
      PROVE  RowsInv' /\ KeptRows
  <2> DEFINE n == next_version
  <2>1. n \in Versions /\ \A v \in Versions : Exists(v) => v # n
    BY <1>1, NextVersionIsNew DEF InsertDraft
  <2>2. /\ vstatus' = [vstatus EXCEPT ![n] = "DRAFT"] /\ vcontent' = [vcontent EXCEPT ![n] = x]
        /\ UNCHANGED << reported, call >>
    BY <1>1 DEF InsertDraft
  <2> HIDE DEF n
  <2>3. /\ \A v \in Versions : v # n => vstatus'[v] = vstatus[v] /\ vcontent'[v] = vcontent[v]
        /\ vstatus'[n] = "DRAFT" /\ vstatus[n] = "NONE"
    BY <1>0, <2>1, <2>2 DEF Exists
  <2>4. \A d \in Callers : Fresh(call[d])'
    BY <2>2, <2>3 DEF RowsInv, MUTABLE_STATUSES
  <2> QED BY <2>2, <2>3, <2>4 DEF RowsInv
\* A call is begun.
<1>2. ASSUME NEW c \in Callers, NEW k, k # NoCall, call' = [call EXCEPT ![c] = k],
             k.pc # "idle",
             UNCHANGED << vstatus, vcontent, reported >>, Fresh(k)
      PROVE  RowsInv' /\ KeptRows
  <2>1. \A d \in Callers \ {c} : call'[d] = NoCall
    BY <1>0, <1>2, Alone
  <2>2. \A d \in Callers : Fresh(call[d])'
    BY <1>0, <1>2, <2>1 DEF Editing, Applying
  <2> QED BY <1>2, <2>2 DEF RowsInv
<1>3. ASSUME NEW c \in Callers, NEW op \in DOMAIN Admitted, NEW v \in Versions, Load(c, op, v)
      PROVE  RowsInv' /\ KeptRows
  <2>1. PICK k : /\ k = [NoCall EXCEPT !.pc = op, !.version = v, !.status = vstatus[v],
                                       !.content = vcontent[v]]
                 /\ call' = [call EXCEPT ![c] = k]
    BY <1>3 DEF Load
  <2>2. /\ k.pc = op /\ k.version = v /\ k.status = vstatus[v] /\ k.content = vcontent[v]
        /\ op \in { "update", "delete", "validate", "publish" }
        /\ vstatus[v] \in MUTABLE_STATUSES
        /\ op = "publish" => vcontent[v] \in ValidContents
        /\ UNCHANGED << vstatus, vcontent, reported >>
    BY <1>3, <2>1 DEF Load, NoCall, Admitted, MUTABLE_STATUSES, dbVars
  <2>3. k # NoCall /\ k.pc # "idle"
    BY <1>0, <2>2
  <2>4. Fresh(k)
    BY <2>2 DEF Editing, Applying
  <2> QED BY <1>2, <2>1, <2>2, <2>3, <2>4
<1>4. ASSUME NEW c \in Callers, apply_current(c)
      PROVE  RowsInv' /\ KeptRows
  <2>1. PICK v \in Published :
          call' = [call EXCEPT ![c] = [NoCall EXCEPT !.pc = "published", !.version = v,
                                                     !.status = "PUBLISHED",
                                                     !.content = vcontent[v]]]
    BY <1>4, Zenon DEF apply_current
  <2>2. PICK k : /\ k = [NoCall EXCEPT !.pc = "published", !.version = v, !.status = "PUBLISHED",
                                       !.content = vcontent[v]]
                 /\ call' = [call EXCEPT ![c] = k]
    BY <2>1
  <2>3. /\ k.pc = "published" /\ k.version = v /\ k.content = vcontent[v] /\ v \in Versions
        /\ vstatus[v] = "PUBLISHED"
        /\ UNCHANGED << vstatus, vcontent, reported >>
    BY <1>4, <2>2 DEF apply_current, NoCall, dbVars
  <2>4. k # NoCall
    BY <1>0, <2>3
  <2>5. Fresh(k)
    BY <2>3 DEF Editing, Applying
  <2> QED BY <1>2, <2>2, <2>3, <2>4, <2>5
<1>5. ASSUME NEW c \in Callers, CallStep(c)
      PROVE  RowsInv' /\ KeptRows
  BY <1>5, RowsCallStep
<1>6. CASE Crash
  <2>1. UNCHANGED << vstatus, vcontent, reported >> /\ \A d \in Callers : call'[d] = NoCall
    BY <1>6 DEF Crash, dbVars
  <2>2. \A d \in Callers : Fresh(call[d])'
    BY <1>0, <2>1 DEF Editing, Applying
  <2> QED BY <2>1, <2>2 DEF RowsInv
<1>7. CASE BootPublished \/ BootFromFile
  <2>1. /\ UNCHANGED << vstatus, vcontent, call >>
        /\ reported'.status = "APPLIED" => reported'.applied \in Published
    BY <1>7 DEF BootPublished, BootFromFile
  <2> QED BY <2>1 DEF RowsInv
<1>8. CASE UNCHANGED vars
  BY <1>8 DEF vars, dbVars, RowsInv
<1>9. ASSUME NEW v \in Versions, clone_version(v)
      PROVE  RowsInv' /\ KeptRows
  BY <1>1, <1>9 DEF clone_version
<1>10. CASE start_device \/ stop_device \/ (\E r \in RuntimeIds : RuntimeEnds(r))
  BY <1>10 DEF start_device, stop_device, RuntimeEnds, dbVars, RowsInv
<1> QED
  BY <1>1, <1>3, <1>4, <1>5, <1>6, <1>7, <1>8, <1>9, <1>10 DEF Next, create_draft

\* A step taken by the only call in flight hands the gateway over as its phase says.
LEMMA GatewayCallStep ==
  ASSUME TypeOK, RunInv, OneAtATime, OneAtATime', RowsInv, KeptRows, GatewayInv,
         NEW c \in Callers, CallStep(c)
  PROVE  GatewayInv'
PROOF
<1> USE RuntimeAssumption DEF Handover, Polls, InService
<1>0. /\ call \in [Callers -> Calls] /\ call[c] \in Calls
      /\ running \in [RuntimeIds -> Contents \cup {NoContent, Bootstrap}]
      /\ tracked \in RuntimeIds \cup {NoRuntime}
      /\ NoCall.pc = "idle"
  BY DEF TypeOK, NoCall
<1>1. /\ \A d \in Callers \ {c} : call[d] = NoCall /\ call'[d] = NoCall
      /\ call[c].pc # "idle"
  BY <1>0, CallStepShape, Alone
<1>2. /\ Handover(call[c]) /\ Fresh(call[c])
      /\ \A r \in RuntimeIds : running[r] # NoContent =>
           r = tracked \/ (call[c].pc \in { "starting", "swapping" } /\ r = call[c].candidate)
  BY <1>0, <1>1 DEF GatewayInv, RowsInv
<1>3. up /\ up'
  <2>1. up
    BY <1>0, <1>1 DEF RunInv, DownIsIdle
  <2>2. up' = up
    BY CallStep(c) DEF CallStep, update_draft, delete_draft, validate_version,
       archive_published_except, publish, Rollback, ApplyVanished, _mark_applying, ApplyStart,
       ApplyNotReady, ApplyReady, ApplySwap, _record_apply, RecordLost, gatewayVars
  <2> QED BY <2>1, <2>2
\* The other calls are idle, so one record and the gateway decide.
<1>4. ASSUME Handover(call[c])',
             \A r \in RuntimeIds : running'[r] # NoContent =>
               r = tracked' \/ (call'[c].pc \in { "starting", "swapping" } /\ r = call'[c].candidate),
             reported'.status = "APPLIED" => InService(reported.applied, vcontent[reported.applied])',
             reported'.status # "APPLYING" => reported'.applied = gatewayApplied'
      PROVE  GatewayInv'
  <2>1. \A d \in Callers : Handover(call[d])'
    BY <1>0, <1>1, <1>4 DEF Applying, Editing
  <2> HIDE DEF Handover, InService
  <2> QED BY <1>3, <1>4, <2>1 DEF GatewayInv
\* What is reported as applied is a published row, which the step leaves alone.
<1>5. ASSUME UNCHANGED << reported, gatewayVars >>
      PROVE  /\ reported'.status = "APPLIED" => InService(reported.applied, vcontent[reported.applied])'
             /\ reported'.status # "APPLYING" => reported'.applied = gatewayApplied'
  BY <1>3, <1>5 DEF GatewayInv, RowsInv, KeptRows, gatewayVars
\* Calls that leave the gateway alone.
<1>6. ASSUME UNCHANGED << reported, gatewayVars >>, call[c].pc \notin { "starting", "swapping" },
             \/ call'[c] = NoCall
             \/ call'[c].pc \in { "archived", "published" } /\ call'[c].outcome = "NONE"
      PROVE  GatewayInv'
  <2>1. Handover(call[c])'
    BY <1>0, <1>6 DEF Applying, Editing
  <2>2. \A r \in RuntimeIds : running'[r] # NoContent => r = tracked'
    BY <1>2, <1>6 DEF gatewayVars
  <2> HIDE DEF Handover, InService
  <2> QED BY <1>4, <1>5, <1>6, <2>1, <2>2
<1>7. EndCall(c) => call'[c] = NoCall
  BY <1>0 DEF EndCall
<1>8. CASE \E content \in Contents : update_draft(c, content)
  BY <1>6, <1>7, <1>8 DEF update_draft
<1>9. CASE delete_draft(c) \/ validate_version(c)
  BY <1>6, <1>7, <1>9 DEF delete_draft, validate_version
<1>10. CASE Rollback(c) \/ ApplyVanished(c) \/ RecordLost(c)
  BY <1>6, <1>7, <1>10 DEF Rollback, ApplyVanished, RecordLost, dbVars
<1>11. CASE archive_published_except(c)
  <2>1. /\ call'[c].pc = "archived" /\ call[c].pc = "publish" /\ call'[c].outcome = call[c].outcome
        /\ UNCHANGED << reported, gatewayVars >>
    BY <1>0, <1>11 DEF archive_published_except, Calls, dbVars
  <2> QED BY <1>2, <1>6, <2>1 DEF Editing
<1>12. CASE publish(c)
  <2>1. /\ call'[c].pc = "published" /\ call[c].pc = "archived" /\ call'[c].outcome = call[c].outcome
        /\ UNCHANGED << reported, gatewayVars >>
    BY <1>0, <1>12 DEF publish, Calls, dbVars
  <2> QED BY <1>2, <1>6, <2>1 DEF Editing
<1>13. CASE _mark_applying(c)
  <2>1. /\ call'[c].pc = "applying" /\ call[c].pc = "published" /\ call'[c].outcome = call[c].outcome
        /\ reported'.status = "APPLYING" /\ UNCHANGED << tracked, running >>
    BY <1>0, <1>13 DEF _mark_applying, Calls, gatewayVars
  <2>2. Handover(call[c])'
    BY <1>2, <2>1 DEF Editing
  <2>3. \A r \in RuntimeIds : running'[r] # NoContent => r = tracked'
    BY <1>2, <2>1
  <2> HIDE DEF Handover, InService
  <2> QED BY <1>4, <2>1, <2>2, <2>3
<1>14. CASE ApplyStart(c)
  <2>1. PICK r \in RuntimeIds :
          /\ Free(r)
          /\ running' = [running EXCEPT ![r] = call[c].content]
          /\ call' = [call EXCEPT ![c].pc = "starting", ![c].previous = tracked,
                                  ![c].candidate = r]
    BY <1>14 DEF ApplyStart
  <2>2. /\ call'[c].pc = "starting" /\ call'[c].previous = tracked /\ call'[c].candidate = r
        /\ call'[c].content = call[c].content /\ call'[c].outcome = call[c].outcome
        /\ running'[r] = call[c].content /\ \A s \in RuntimeIds \ {r} : running'[s] = running[s]
        /\ r # tracked
    BY <1>0, <2>1 DEF Free, Calls
  <2>3. call[c].pc = "applying" /\ UNCHANGED << reported, tracked >>
    BY <1>14 DEF ApplyStart, dbVars
  <2>4. call[c].outcome = "NONE" /\ reported.status = "APPLYING"
    BY <1>2, <2>3 DEF Applying, Editing
  <2>5. Handover(call[c])'
    BY <2>2, <2>3, <2>4 DEF Editing
  <2>6. \A s \in RuntimeIds : running'[s] # NoContent => s = tracked' \/ s = r
    BY <1>2, <2>2, <2>3
  <2> HIDE DEF Handover, InService
  <2> QED BY <1>4, <2>2, <2>3, <2>4, <2>5, <2>6
<1>15. CASE ApplyNotReady(c)
  <2>1. /\ call[c].pc = "starting" /\ call'[c].pc = "recording" /\ call'[c].outcome = call[c].outcome
        /\ running' = Stop(call[c].candidate) /\ UNCHANGED << reported, tracked >>
    BY <1>0, <1>15 DEF ApplyNotReady, Calls, dbVars
  <2>2. /\ call[c].outcome = "NONE" /\ reported.status = "APPLYING" /\ call[c].candidate \in RuntimeIds
    BY <1>2, <2>1 DEF Applying, Editing
  <2>3. running' = [running EXCEPT ![call[c].candidate] = NoContent]
    BY <2>1, <2>2 DEF Stop
  <2>4. \A s \in RuntimeIds : running'[s] # NoContent => s = tracked'
    BY <1>0, <1>2, <2>1, <2>2, <2>3
  <2>5. Handover(call[c])'
    BY <2>1, <2>2 DEF Editing
  <2> HIDE DEF Handover, InService
  <2> QED BY <1>4, <2>1, <2>2, <2>4, <2>5
<1>16. CASE ApplyReady(c)
  <2>1. /\ call[c].pc = "starting" /\ call'[c].pc = "swapping" /\ call'[c].outcome = call[c].outcome
        /\ call'[c].candidate = call[c].candidate /\ call'[c].content = call[c].content
        /\ running' = Stop(call[c].previous) /\ UNCHANGED << reported, tracked >>
        /\ call[c].content \in RunnableContents /\ running[call[c].candidate] # NoContent
    BY <1>0, <1>16 DEF ApplyReady, Calls, dbVars
  <2>2. /\ call[c].outcome = "NONE" /\ reported.status = "APPLYING" /\ call[c].candidate \in RuntimeIds
        /\ call[c].previous = tracked /\ call[c].candidate # tracked
        /\ running[call[c].candidate] = call[c].content
    BY <1>2, <2>1 DEF Applying, Editing
  <2>3. /\ running'[call[c].candidate] = call[c].content
        /\ \A s \in RuntimeIds : running'[s] # NoContent => s = call[c].candidate
    BY <1>0, <1>2, <2>1, <2>2 DEF Stop
  <2>4. Handover(call[c])'
    BY <2>1, <2>2, <2>3 DEF Editing
  <2> HIDE DEF Handover, InService
  <2> QED BY <1>4, <2>1, <2>2, <2>3, <2>4
<1>17. CASE ApplySwap(c)
  <2>1. /\ call[c].pc = "swapping" /\ call'[c].pc = "recording"
        /\ call'[c].content = call[c].content
        /\ call'[c].version = call[c].version
        /\ tracked' = call[c].candidate /\ UNCHANGED << reported, running, halted >>
        /\ gatewayApplied' = call[c].version /\ definition' = call[c].content
    BY <1>0, <1>17 DEF ApplySwap, Calls, dbVars
  <2>2. /\ reported.status = "APPLYING" /\ call[c].candidate \in RuntimeIds
        /\ Polls(call[c].candidate, call[c].content) /\ call[c].content \in RunnableContents
        /\ \A s \in RuntimeIds : running[s] # NoContent => s = call[c].candidate
    BY <1>2, <2>1 DEF Applying, Editing
  <2>3. Handover(call[c])'
    BY <2>1, <2>2 DEF Editing
  <2> HIDE DEF Handover, InService
  <2> QED BY <1>4, <2>1, <2>2, <2>3
<1>18. CASE _record_apply(c)
  <2>1. /\ call[c].pc = "recording" /\ call'[c] = NoCall
        /\ UNCHANGED << vcontent, tracked, running, halted, definition, gatewayApplied >>
        /\ reported'.status = "APPLIED" =>
             call[c].outcome = "APPLIED" /\ reported'.applied = call[c].version
        /\ reported'.status # "APPLIED" => reported'.applied = gatewayApplied
    BY <1>7, <1>18 DEF _record_apply, gatewayVars
  <2>2. /\ vcontent[call[c].version] = call[c].content
        /\ call[c].outcome = "APPLIED" => InService(call[c].version, call[c].content)
    BY <1>2, <2>1 DEF Fresh, Applying
  <2>5. /\ reported'.status = "APPLIED" => InService(reported.applied, vcontent[reported.applied])'
        /\ reported'.applied = gatewayApplied'
    BY <2>1, <2>2
  <2>3. Handover(call[c])'
    BY <1>0, <2>1 DEF Applying, Editing
  <2>4. \A r \in RuntimeIds : running'[r] # NoContent => r = tracked'
    BY <1>2, <2>1
  <2> HIDE DEF Handover, InService
  <2> QED BY <1>4, <2>3, <2>4, <2>5
<1> QED
  BY <1>8, <1>9, <1>10, <1>11, <1>12, <1>13, <1>14, <1>15, <1>16, <1>17, <1>18 DEF CallStep

\* One call at a time, with crashes and start-ups anywhere, every step keeps what is
\* reported as applied running and nothing else but a candidate.
LEMMA GatewayStep ==
  ASSUME Bootstrap # NoContent, TypeOK, RunInv, OneAtATime, OneAtATime', RowsInv, KeptRows,
         GatewayInv, UNCHANGED vars \/ (Next /\ (start_device => NoneInFlight))
  PROVE  GatewayInv'
PROOF
<1> USE RuntimeAssumption, ContentsAssumption DEF Handover, Polls, InService
<1>0. /\ call \in [Callers -> Calls]
      /\ running \in [RuntimeIds -> Contents \cup {NoContent, Bootstrap}]
      /\ NoCall.pc = "idle"
  BY DEF TypeOK, NoCall
\* The gateway and the calls are left alone.
<1>1. ASSUME UNCHANGED << reported, gatewayVars, call >>
      PROVE  GatewayInv'
  <2>1. UNCHANGED << reported, up, tracked, running, halted, definition, gatewayApplied, call >>
    BY <1>1 DEF gatewayVars
  <2>2. \A d \in Callers : Handover(call[d])'
    BY <2>1 DEF GatewayInv
  <2>3. up => /\ reported.status = "APPLIED" => InService(reported.applied, vcontent[reported.applied])'
              /\ reported'.status # "APPLYING" => reported'.applied = gatewayApplied'
    BY <2>1 DEF GatewayInv, RowsInv, KeptRows
  <2> HIDE DEF Handover, InService
  <2> QED BY <2>1, <2>2, <2>3 DEF GatewayInv
<1>2. create_draft \/ (\E v \in Versions : clone_version(v)) \/ UNCHANGED vars
        => UNCHANGED << reported, gatewayVars, call >>
  BY DEF create_draft, clone_version, InsertDraft, vars, dbVars, gatewayVars
\* A call is begun.
<1>3. ASSUME NEW c \in Callers, call[c].pc = "idle", NEW k, call' = [call EXCEPT ![c] = k],
             k.pc \in Editing \cup { "published" }, k.outcome = "NONE",
             UNCHANGED << dbVars, gatewayVars >>
      PROVE  GatewayInv'
  <2>1. call'[c] = k /\ \A d \in Callers \ {c} : call'[d] = call[d]
    BY <1>0, <1>3
  <2>2. k # NoCall
    BY <1>0, <1>3 DEF Editing
  <2>3. \A d \in Callers \ {c} : call[d] = NoCall /\ call'[d] = NoCall
    BY <1>0, <2>1, <2>2, Alone
  <2>4. \A d \in Callers : call[d].pc = "idle"
    BY <1>0, <1>3, <2>3
  <2>5. \A r \in RuntimeIds : running[r] # NoContent => r = tracked
    BY <2>4 DEF GatewayInv
  <2>6. \A d \in Callers : Handover(call[d])'
    BY <1>0, <1>3, <2>1, <2>3 DEF Editing, Applying
  <2>7. UNCHANGED << reported, vcontent, up, tracked, running, halted, definition, gatewayApplied >>
    BY <1>3 DEF dbVars, gatewayVars
  <2>8. up => /\ reported.status = "APPLIED" => InService(reported.applied, vcontent[reported.applied])'
              /\ reported'.status # "APPLYING" => reported'.applied = gatewayApplied'
    BY <2>7 DEF GatewayInv
  <2> HIDE DEF Handover, InService
  <2> QED BY <2>5, <2>6, <2>7, <2>8 DEF GatewayInv
<1>4. ASSUME NEW c \in Callers, NEW op \in DOMAIN Admitted, NEW v \in Versions, Load(c, op, v)
      PROVE  GatewayInv'
  <2>1. PICK k : /\ k = [NoCall EXCEPT !.pc = op, !.version = v, !.status = vstatus[v],
                                       !.content = vcontent[v]]
                 /\ call' = [call EXCEPT ![c] = k]
    BY <1>4 DEF Load
  <2>2. k.pc = op /\ k.outcome = "NONE" /\ op \in Editing
    BY <2>1 DEF NoCall, Admitted, Editing
  <2>3. call[c].pc = "idle" /\ UNCHANGED << dbVars, gatewayVars >>
    BY <1>4 DEF Load
  <2> QED BY <1>3, <2>1, <2>2, <2>3
<1>5. ASSUME NEW c \in Callers, apply_current(c)
      PROVE  GatewayInv'
  <2>1. PICK v \in Published :
          call' = [call EXCEPT ![c] = [NoCall EXCEPT !.pc = "published", !.version = v,
                                                     !.status = "PUBLISHED",
                                                     !.content = vcontent[v]]]
    BY <1>5 DEF apply_current
  <2>2. PICK k : /\ k = [NoCall EXCEPT !.pc = "published", !.version = v, !.status = "PUBLISHED",
                                       !.content = vcontent[v]]
                 /\ call' = [call EXCEPT ![c] = k]
    BY <2>1
  <2>3. k.pc = "published" /\ k.outcome = "NONE"
    BY <2>2 DEF NoCall
  <2>4. call[c].pc = "idle" /\ UNCHANGED << dbVars, gatewayVars >>
    BY <1>5 DEF apply_current
  <2> QED BY <1>3, <2>2, <2>3, <2>4
<1>6. ASSUME NEW c \in Callers, CallStep(c)
      PROVE  GatewayInv'
  BY <1>6, GatewayCallStep
<1>7. CASE Crash
  <2>1. /\ ~up' /\ gatewayApplied' = 0 /\ tracked' = NoRuntime /\ \A r \in RuntimeIds : running'[r] = NoContent
        /\ \A d \in Callers : call'[d] = NoCall
    BY <1>7 DEF Crash
  <2>2. \A d \in Callers : Handover(call[d])'
    BY <1>0, <2>1 DEF Applying, Editing
  <2> HIDE DEF Handover, InService
  <2> QED BY <2>1, <2>2 DEF GatewayInv
\* A start-up finds nothing running and no calls, and starts one runtime.
<1>8. ASSUME ~up, up', call' = call, NEW x, x # NoContent, StartRuntime(x),
             reported'.applied = gatewayApplied',
             reported'.status = "APPLIED" => x = vcontent'[reported'.applied] /\ x \in RunnableContents
      PROVE  GatewayInv'
  <2>1. PICK r \in RuntimeIds : tracked' = r /\ running' = [running EXCEPT ![r] = x]
    BY <1>8 DEF StartRuntime
  <2>5. definition' = x
    BY <1>8 DEF StartRuntime
  <2>2. \A d \in Callers : call'[d] = NoCall
    BY <1>8 DEF RunInv, DownIsIdle
  <2>3. \A d \in Callers : Handover(call[d])'
    BY <1>0, <2>2 DEF Applying, Editing
  <2>4. running'[r] = x /\ \A s \in RuntimeIds : running'[s] # NoContent => s = r
    BY <1>0, <1>8, <2>1 DEF GatewayInv
  <2>6. reported'.status = "APPLIED" => InService(reported.applied, vcontent[reported.applied])'
    BY <1>8, <2>1, <2>4, <2>5
  <2> HIDE DEF Handover, InService
  <2> QED BY <1>8, <2>1, <2>3, <2>4, <2>6 DEF GatewayInv
<1>9. CASE BootPublished
  <2>1. PICK v \in Published, ready \in BOOLEAN :
          /\ ready => vcontent[v] \in RunnableContents
          /\ StartRuntime(vcontent[v])
          /\ gatewayApplied' = IF ready THEN v ELSE 0
          /\ reported' = IF ready THEN [applied |-> v, status |-> "APPLIED"]
                         ELSE [applied |-> 0, status |-> "FAILED"]
    BY <1>9 DEF BootPublished
  <2>2. vcontent[v] # NoContent
    BY DEF RunInv, HoldsContent, Published, Exists
  <2>3. ~up /\ up' /\ call' = call /\ vcontent' = vcontent
    BY <1>9 DEF BootPublished
  <2>4. /\ reported'.applied = gatewayApplied'
        /\ reported'.status = "APPLIED" => reported'.applied = v /\ vcontent[v] \in RunnableContents
    BY <2>1
  <2> QED BY <1>8, <2>1, <2>2, <2>3, <2>4
<1>10. CASE BootFromFile
  <2>1. gatewayApplied' = 0
    BY <1>10 DEF BootFromFile, GatewayInv
  <2> QED BY <1>8, <1>10, <2>1 DEF BootFromFile
\* A runtime is stopped or gives up: whatever polled with a definition has now been halted.
<1>11. ASSUME NEW s \in RuntimeIds, running' = [running EXCEPT ![s] = NoContent],
              halted' = halted \cup {s},
              UNCHANGED << dbVars, up, tracked, gatewayApplied, definition, call >>
       PROVE  GatewayInv'
  <2>1. /\ \A r \in RuntimeIds, x \in Contents : Polls(r, x) => Polls(r, x)'
        /\ \A r \in RuntimeIds : running'[r] # NoContent => running[r] # NoContent
    BY <1>0, <1>11
  <2>2. UNCHANGED << reported, vcontent, up, tracked, gatewayApplied, definition, call >>
    BY <1>11 DEF dbVars
  <2>3. \A d \in Callers : call[d].pc # "idle" => call[d].content \in Contents
    BY DEF RunInv, HoldsContent
  <2>4. RunnableContents \subseteq Contents
    OBVIOUS
  <2> HIDE DEF Polls
  <2>5. \A d \in Callers : Handover(call[d])'
    BY <2>1, <2>2, <2>3, <2>4 DEF GatewayInv
  <2>6. up => /\ reported.status = "APPLIED" => InService(reported.applied, vcontent[reported.applied])'
              /\ reported'.status # "APPLYING" => reported'.applied = gatewayApplied'
    BY <2>1, <2>2, <2>4 DEF GatewayInv
  <2> HIDE DEF Handover, InService
  <2> QED BY <2>1, <2>2, <2>5, <2>6 DEF GatewayInv
<1>12. CASE stop_device
  <2>1. tracked \in RuntimeIds /\ running' = [running EXCEPT ![tracked] = NoContent]
    BY <1>12 DEF stop_device, Stop, TypeOK
  <2> QED BY <1>11, <1>12, <2>1 DEF stop_device
<1>13. ASSUME NEW r \in RuntimeIds, RuntimeEnds(r)
       PROVE  GatewayInv'
  <2>1. running' = [running EXCEPT ![r] = NoContent]
    BY <1>13 DEF RuntimeEnds, Stop
  <2> QED BY <1>11, <1>13, <2>1 DEF RuntimeEnds
\* A start gives the gateway's runtime the definition it was built with, between calls.
<1>14. ASSUME start_device, NoneInFlight
       PROVE  GatewayInv'
  <2>1. /\ tracked \in RuntimeIds /\ up
        /\ running' = [running EXCEPT ![tracked] = definition]
        /\ UNCHANGED << reported, vcontent, up, tracked, gatewayApplied, definition, call >>
    BY <1>14 DEF start_device, TypeOK, dbVars
  <2>2. \A d \in Callers : call[d].pc = "idle"
    BY <1>0, <1>14 DEF NoneInFlight
  <2>3. \A d \in Callers : Handover(call[d])'
    BY <2>1, <2>2 DEF Applying, Editing
  <2>4. \A s \in RuntimeIds : running'[s] # NoContent => s = tracked
    BY <1>0, <2>1, <2>2 DEF GatewayInv
  <2>5. /\ reported.status = "APPLIED" => InService(reported.applied, vcontent[reported.applied])'
        /\ reported'.status # "APPLYING" => reported'.applied = gatewayApplied'
    BY <1>0, <2>1 DEF GatewayInv
  <2> HIDE DEF Handover, InService
  <2> QED BY <2>1, <2>3, <2>4, <2>5 DEF GatewayInv
<1> QED
  BY <1>1, <1>2, <1>4, <1>5, <1>6, <1>7, <1>9, <1>10, <1>12, <1>13, <1>14 DEF Next

\* The inductive invariant of serial behaviours, and the rows that every one of their
\* steps keeps.
LEMMA SerialStep ==
  ASSUME Bootstrap # NoContent, TypeOK, TypeOK', RunInv, serial => SerialInv,
         [EitherNext]_<<vars, serial>>
  PROVE  /\ serial' = serial
         /\ serial => SerialInv' /\ KeptRows
PROOF
<1>1. serial' = serial /\ [Next]_vars
  BY DEF EitherNext
<1>2. ASSUME serial
      PROVE  SerialInv' /\ KeptRows
  <2>1. OneAtATime /\ RowsInv /\ GatewayInv
    BY <1>2 DEF SerialInv
  <2>2. OneAtATime'
    BY <1>2, <2>1 DEF EitherNext, OneAtATime, vars
  <2>3. RowsInv' /\ KeptRows
    BY <1>1, <2>1, <2>2, RowsStep
  <2>4. UNCHANGED vars \/ (Next /\ (start_device => NoneInFlight))
    BY <1>2 DEF EitherNext
  <2>5. GatewayInv'
    BY <2>1, <2>2, <2>3, <2>4, GatewayStep
  <2> QED BY <2>2, <2>3, <2>5 DEF SerialInv
<1> QED BY <1>1, <1>2

\* One at a time, calls, crashes and start-ups keep the inductive invariant.
LEMMA SerialInvariant ==
  ASSUME Bootstrap # NoContent
  PROVE  EitherSpec => [](TypeOK /\ RunInv /\ (serial => SerialInv))
PROOF
<1>1. EitherSpec => Spec
  <2>1. MCInit => Init
    BY DEF MCInit
  <2>2. [EitherNext]_<<vars, serial>> => [Next]_vars
    BY DEF EitherNext
  <2> QED BY <2>1, <2>2, PTL DEF EitherSpec, Spec
<1>2. MCInit => SerialInv
  <2> SUFFICES ASSUME Init PROVE SerialInv
    BY DEF MCInit
  <2>1. \A c \in Callers : call[c] = NoCall
    BY DEF Init
  <2>2. NoCall.pc = "idle"
    BY DEF NoCall
  <2>3. OneAtATime
    BY <2>1 DEF OneAtATime
  <2>4. RowsInv
    BY <2>1, <2>2 DEF Init, RowsInv, Fresh, Published, Editing, Applying
  <2>5. GatewayInv
    BY <2>1, <2>2 DEF Init, GatewayInv, Handover, Applying, Editing
  <2> QED BY <2>3, <2>4, <2>5 DEF SerialInv
<1>3. TypeOK /\ TypeOK' /\ RunInv /\ (serial => SerialInv) /\ [EitherNext]_<<vars, serial>>
        => (serial => SerialInv)'
  BY SerialStep
<1> QED BY <1>1, <1>2, <1>3, RunInvariant, PTL DEF EitherSpec

\* One request at a time, with crashes, lost records, stops, failed applications and runtimes
\* that give up anywhere: what the API calls in sync is what the gateway's runtime was built
\* with and, unless stopped or given up, polls with; a settled report names the gateway's
\* version; nothing polls behind the gateway's back; and what is published was accepted.  The
\* device must be in the YAML file: without it a start-up that cannot read the published rows
\* leaves an APPLIED that nothing runs.
THEOREM SerialIsTruthful ==
  ASSUME Bootstrap # NoContent
  PROVE  EitherSpec => []SerialTruth
PROOF
<1>1. ASSUME TypeOK, RunInv, serial => SerialInv
      PROVE  SerialTruth
  <2> SUFFICES ASSUME serial
               PROVE  /\ InSyncTruth
                      /\ up /\ reported.status # "APPLYING" => reported.applied = gatewayApplied
                      /\ NoOrphanRuntime
                      /\ \A v \in Published : vcontent[v] \in ValidContents
    BY DEF SerialTruth
  <2>0. RowsInv /\ GatewayInv
    BY <1>1 DEF SerialInv
  <2>1. InSyncTruth
    <3> SUFFICES ASSUME NEW v \in Versions, in_sync(v), up
                 PROVE  /\ tracked # NoRuntime
                        /\ definition = vcontent[v]
                        /\ vcontent[v] \in RunnableContents
                        /\ running[tracked] = vcontent[v] \/ tracked \in halted
      BY DEF InSyncTruth
    <3>1. reported.status = "APPLIED" /\ reported.applied = v
      BY DEF in_sync
    <3>2. InService(v, vcontent[v])
      BY <2>0, <3>1 DEF GatewayInv
    <3> QED BY <3>2, RuntimeAssumption DEF InService, Polls
  <2>2. NoOrphanRuntime
    <3> SUFFICES ASSUME \A c \in Callers : call[c].candidate = NoRuntime,
                        NEW r \in RuntimeIds, running[r] # NoContent
                 PROVE  r = tracked
      BY DEF NoOrphanRuntime
    <3> QED BY <2>0, RuntimeAssumption DEF GatewayInv
  <2>3. up /\ reported.status # "APPLYING" => reported.applied = gatewayApplied
    BY <2>0 DEF GatewayInv
  <2>4. \A v \in Published : vcontent[v] \in ValidContents
    BY <2>0 DEF RowsInv
  <2> QED BY <2>1, <2>2, <2>3, <2>4
<1> QED BY <1>1, SerialInvariant, PTL

\* One call at a time, a published row keeps its content and can only be archived, and an
\* archived one never changes (update_draft, delete_draft, publish).
THEOREM SerialRowsAreImmutable ==
  ASSUME Bootstrap # NoContent
  PROVE  EitherSpec => SerialRowsImmutable
PROOF
<1>1. ASSUME TypeOK, TypeOK', RunInv, serial => SerialInv, [EitherNext]_<<vars, serial>>
      PROVE  [serial => KeptRows]_<<vars, serial>>
  BY <1>1, SerialStep
<1>2. [serial => KeptRows]_<<vars, serial>> =>
        [serial =>
          \A v \in Versions :
            /\ vstatus[v] = "PUBLISHED" => /\ vstatus'[v] \in { "PUBLISHED", "ARCHIVED" }
                                           /\ vcontent'[v] = vcontent[v]
            /\ vstatus[v] = "ARCHIVED" => /\ vstatus'[v] = "ARCHIVED"
                                          /\ vcontent'[v] = vcontent[v]]_<<vars, serial>>
  BY DEF KeptRows
<1> QED BY <1>1, <1>2, SerialInvariant, PTL DEF EitherSpec, SerialRowsImmutable
=============================================================================
