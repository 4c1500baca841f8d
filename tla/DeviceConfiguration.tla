-------------------------- MODULE DeviceConfiguration --------------------------
(***************************************************************************)
(* The versioned configuration of one device and its application to the    *)
(* gateway: ConfigurationService (backend/app/assetconfig/service.py), the *)
(* device_configurations and runtime-status tables and their constraints   *)
(* (models.py, repository.py), apply_device_definition                     *)
(* (backend/app/gateway/gateway.py) and the start-up that rebuilds the     *)
(* gateway from the published rows (backend/app/main.py).                  *)
(*                                                                         *)
(* A service call reads its row, validates what it has read, and writes    *)
(* in a later statement: no row is locked in between, and the session      *)
(* writes only the columns the call has changed.  What the database's      *)
(* CHECK constraints and its partial unique index refuse rolls back.       *)
(* Runtimes are named, so that one the gateway no longer refers to can     *)
(* still be seen running.  Operators start and stop the gateway's runtime, *)
(* and any runtime may give up by itself.                                  *)
(***************************************************************************)
EXTENDS Integers, FiniteSets

CONSTANTS
  Contents,        \* definitions a draft may hold
  ValidContents,   \* those that validate_configuration accepts
  RunnableContents,\* those that an adapter can be built for and connect, or that need none
  Bootstrap,       \* the device's definition in the YAML file, or NoContent
  MaxVersion,      \* bound on the version numbers handed out
  Callers,         \* service calls in flight at a time
  RuntimeIds,      \* names for DeviceRuntime objects
  NoContent, NoRuntime

ASSUME VersionAssumption == MaxVersion \in Nat \ {0}
ASSUME ContentsAssumption ==
  ValidContents \cup RunnableContents \subseteq Contents /\ NoContent \notin Contents
ASSUME RuntimeAssumption == NoRuntime \notin RuntimeIds

VARIABLES
  vstatus,         \* device_configurations.status, "NONE" while there is no row
  vcontent,        \* device_configurations.configuration
  reported,        \* runtime-status row: applied_version and apply_status
  unrecorded,      \* history: the APPLYING of that row had its outcome lost
  up,              \* whether the process serves requests
  tracked,         \* gateway._runtimes of the device
  gatewayApplied,  \* gateway._applied_versions of the device, 0 for None
  definition,      \* gateway._registry: what the tracked runtime was built with
  running,         \* what each runtime polls with, NoContent when it is stopped
  halted,          \* history: runtimes that gave up or were stopped by an operator
  call             \* the service calls in flight

statusVars  == << reported, unrecorded >>
dbVars      == << vstatus, vcontent, statusVars >>
gatewayVars == << up, tracked, gatewayApplied, definition, running, halted >>
vars        == << dbVars, gatewayVars, call >>

Versions == 1 .. MaxVersion

MUTABLE_STATUSES == { "DRAFT", "VALIDATED" }

NoCall == [ pc |-> "idle", version |-> 0, status |-> "NONE", content |-> NoContent,
            archive |-> {}, previous |-> NoRuntime, candidate |-> NoRuntime,
            outcome |-> "NONE" ]

Exists(v) == vstatus[v] # "NONE"

\* next_version: one more than the highest version there is.
next_version == 1 + Cardinality({ v \in Versions : \E w \in Versions : w >= v /\ Exists(w) })

\* The versions that current_published may return.
Published == { v \in Versions : vstatus[v] = "PUBLISHED" }

Stop(runtime) == IF runtime = NoRuntime THEN running
                 ELSE [running EXCEPT ![runtime] = NoContent]

\* The calls between the commit of APPLYING and that of the outcome.
Applications ==
  { c \in Callers : call[c].pc \in { "applying", "starting", "swapping", "recording" } }

Free(runtime) ==
  /\ running[runtime] = NoContent
  /\ tracked # runtime
  /\ \A c \in Callers : runtime \notin { call[c].previous, call[c].candidate }

Init ==
  /\ vstatus = [v \in Versions |-> "NONE"]
  /\ vcontent = [v \in Versions |-> NoContent]
  /\ reported = [applied |-> 0, status |-> "PENDING"]
  /\ up = FALSE
  /\ tracked = NoRuntime
  /\ gatewayApplied = 0
  /\ unrecorded = FALSE
  /\ definition = NoContent
  /\ running = [r \in RuntimeIds |-> NoContent]
  /\ halted = {}
  /\ call = [c \in Callers |-> NoCall]

-----------------------------------------------------------------------------
(* Drafts                                                                   *)

InsertDraft(content) ==
  /\ up
  /\ next_version \in Versions
  /\ vstatus' = [vstatus EXCEPT ![next_version] = "DRAFT"]
  /\ vcontent' = [vcontent EXCEPT ![next_version] = content]
  /\ UNCHANGED << statusVars, gatewayVars, call >>

\* The number is read and the row inserted without a lock, but of two calls
\* that read the same number the unique constraint lets one through.
create_draft == \E content \in Contents : InsertDraft(content)

clone_version(source) == Exists(source) /\ InsertDraft(vcontent[source])

\* Mutant: a published version can be edited in place.
AdmittedToPublished ==
  [ update   |-> MUTABLE_STATUSES \cup { "PUBLISHED" },
    delete   |-> { "DRAFT" },
    validate |-> MUTABLE_STATUSES,
    publish  |-> MUTABLE_STATUSES ]

\* What get_configuration must find for each operation to go on.
Admitted ==
  [ update   |-> MUTABLE_STATUSES,
    delete   |-> { "DRAFT" },
    validate |-> MUTABLE_STATUSES,
    publish  |-> MUTABLE_STATUSES ]

\* The row is read and checked.  A validation or a publication whose content
\* fails the validator writes nothing but the validation's own columns.
Load(c, op, v) ==
  /\ up
  /\ call[c].pc = "idle"
  /\ vstatus[v] \in Admitted[op]
  /\ op \in { "validate", "publish" } => vcontent[v] \in ValidContents
  /\ call' = [call EXCEPT ![c] = [NoCall EXCEPT !.pc = op, !.version = v,
                                                !.status = vstatus[v],
                                                !.content = vcontent[v]]]
  /\ UNCHANGED << dbVars, gatewayVars >>

EndCall(c) == call' = [call EXCEPT ![c] = NoCall]

\* A row that was read as DRAFT gets the new content and nothing else; one read
\* as VALIDATED is also set back to DRAFT, which the CHECK on published_at
\* refuses if the row has been published since.
update_draft(c, content) ==
  LET v == call[c].version IN
  /\ call[c].pc = "update"
  /\ Exists(v)
  /\ content # call[c].content
  /\ call[c].status = "VALIDATED" => vstatus[v] \in MUTABLE_STATUSES
  /\ vcontent' = [vcontent EXCEPT ![v] = content]
  /\ vstatus' = [vstatus EXCEPT ![v] = IF call[c].status = "VALIDATED" THEN "DRAFT" ELSE @]
  /\ EndCall(c)
  /\ UNCHANGED << statusVars, gatewayVars >>

\* DELETE by primary key, whatever the row has become.
delete_draft(c) ==
  LET v == call[c].version IN
  /\ call[c].pc = "delete"
  /\ vstatus' = [vstatus EXCEPT ![v] = "NONE"]
  /\ vcontent' = [vcontent EXCEPT ![v] = NoContent]
  /\ EndCall(c)
  /\ UNCHANGED << statusVars, gatewayVars >>

\* Only a row read as DRAFT has its status written.
validate_version(c) ==
  LET v == call[c].version IN
  /\ call[c].pc = "validate"
  /\ vstatus[v] \in MUTABLE_STATUSES
  /\ vstatus' = [vstatus EXCEPT ![v] = IF call[c].status = "DRAFT" THEN "VALIDATED" ELSE @]
  /\ EndCall(c)
  /\ UNCHANGED << vcontent, statusVars, gatewayVars >>

-----------------------------------------------------------------------------
(* Publication                                                              *)

\* archive_published_except: the rows the statement's snapshot shows as
\* published; it is re-evaluated for rows that another transaction holds.
archive_published_except(c) ==
  /\ call[c].pc = "publish"
  /\ call' = [call EXCEPT ![c].pc = "archived",
                          ![c].archive = Published \ {call[c].version}]
  /\ UNCHANGED << dbVars, gatewayVars >>

\* Mutant: the successor is promoted and the incumbent is left as it is.
publish_keeping_incumbent(c) ==
  /\ call[c].pc = "archived"
  /\ Exists(call[c].version)
  /\ vstatus' = [vstatus EXCEPT ![call[c].version] = "PUBLISHED"]
  /\ call' = [call EXCEPT ![c].pc = "published", ![c].status = "PUBLISHED", ![c].archive = {}]
  /\ UNCHANGED << vcontent, statusVars, gatewayVars >>

\* The row is promoted and the transaction commits, unless a version published
\* meanwhile meets it in uq_device_configurations_single_published.
publish(c) ==
  LET v == call[c].version IN
  /\ call[c].pc = "archived"
  /\ Exists(v)
  /\ Published \ {v} \subseteq call[c].archive
  /\ vstatus' = [w \in Versions |-> IF w = v THEN "PUBLISHED"
                                    ELSE IF w \in Published THEN "ARCHIVED"
                                    ELSE vstatus[w]]
  /\ call' = [call EXCEPT ![c].pc = "published", ![c].status = "PUBLISHED", ![c].archive = {}]
  /\ UNCHANGED << vcontent, statusVars, gatewayVars >>

\* The database refuses the write or loses the connection: nothing is written.
\* After a publication this is the failure to write APPLYING.
Rollback(c) ==
  /\ call[c].pc \in { "update", "delete", "validate", "publish", "archived", "published" }
  /\ EndCall(c)
  /\ UNCHANGED << dbVars, gatewayVars >>

\* apply_current takes up the version that is published now.
apply_current(c) ==
  /\ up
  /\ call[c].pc = "idle"
  /\ \E v \in Published :
       call' = [call EXCEPT ![c] = [NoCall EXCEPT !.pc = "published", !.version = v,
                                                  !.status = "PUBLISHED",
                                                  !.content = vcontent[v]]]
  /\ UNCHANGED << dbVars, gatewayVars >>

-----------------------------------------------------------------------------
(* _apply_published: from here on a call holds the version and the content  *)
(* it has read: the session keeps the row object it has.                    *)

\* The row is read once more, and may have gone (ConfigurationNotFoundError).
ApplyVanished(c) ==
  /\ call[c].pc = "published"
  /\ ~Exists(call[c].version)
  /\ EndCall(c)
  /\ UNCHANGED << dbVars, gatewayVars >>

_mark_applying(c) ==
  /\ call[c].pc = "published"
  /\ Exists(call[c].version)
  /\ reported' = [applied |-> gatewayApplied, status |-> "APPLYING"]
  /\ unrecorded' = FALSE
  /\ call' = [call EXCEPT ![c].pc = "applying"]
  /\ UNCHANGED << vstatus, vcontent, gatewayVars >>

\* apply_device_definition up to its first await: the runtime to be replaced is
\* remembered and the candidate started.
ApplyStart(c) ==
  /\ call[c].pc = "applying"
  /\ \E r \in RuntimeIds :
       /\ Free(r)
       /\ running' = [running EXCEPT ![r] = call[c].content]
       /\ call' = [call EXCEPT ![c].pc = "starting", ![c].previous = tracked,
                               ![c].candidate = r]
       /\ halted' = halted \ {r}
  /\ UNCHANGED << dbVars, up, tracked, gatewayApplied, definition >>

\* Mutant: the runtime in service is given up with the candidate.
ApplyNotReadyStopsBoth(c) ==
  /\ call[c].pc = "starting"
  /\ running' = [r \in RuntimeIds |-> IF r \in { call[c].candidate, call[c].previous }
                                     THEN NoContent ELSE running[r]]
  /\ call' = [call EXCEPT ![c].pc = "recording"]
  /\ UNCHANGED << dbVars, up, tracked, gatewayApplied, definition, halted >>

\* The candidate cannot start or does not connect in time, and is discarded.
ApplyNotReady(c) ==
  /\ call[c].pc = "starting"
  /\ running' = Stop(call[c].candidate)
  /\ halted' = halted \ {call[c].candidate}
  /\ call' = [call EXCEPT ![c].pc = "recording"]
  /\ UNCHANGED << dbVars, up, tracked, gatewayApplied, definition >>

\* The candidate is connected: previous.stop() is awaited.
ApplyReady(c) ==
  /\ call[c].pc = "starting"
  /\ call[c].content \in RunnableContents
  /\ running[call[c].candidate] # NoContent
  /\ running' = Stop(call[c].previous)
  /\ halted' = halted \ {call[c].previous}
  /\ call' = [call EXCEPT ![c].pc = "swapping"]
  /\ UNCHANGED << dbVars, up, tracked, gatewayApplied, definition >>

ApplySwap(c) ==
  /\ call[c].pc = "swapping"
  /\ tracked' = call[c].candidate
  /\ gatewayApplied' = call[c].version
  /\ definition' = call[c].content
  /\ call' = [call EXCEPT ![c].pc = "recording", ![c].outcome = "APPLIED"]
  /\ UNCHANGED << dbVars, up, running, halted >>

\* Mutant: the version that was asked for is reported as the one applied.
_record_apply_requested(c) ==
  /\ call[c].pc = "recording"
  /\ reported' = [applied |-> call[c].version, status |-> "APPLIED"]
  /\ unrecorded' = FALSE
  /\ EndCall(c)
  /\ UNCHANGED << vstatus, vcontent, gatewayVars >>

_record_apply(c) ==
  /\ call[c].pc = "recording"
  /\ reported' = IF call[c].outcome = "APPLIED"
                 THEN [applied |-> call[c].version, status |-> "APPLIED"]
                 ELSE [applied |-> gatewayApplied, status |-> "FAILED"]
  /\ unrecorded' = FALSE
  /\ EndCall(c)
  /\ UNCHANGED << vstatus, vcontent, gatewayVars >>

\* The database fails while the outcome is recorded: the call raises and the row
\* keeps the APPLYING that was committed before.
RecordLost(c) ==
  /\ call[c].pc = "recording"
  /\ unrecorded' = (unrecorded \/ reported.status = "APPLYING")
  /\ EndCall(c)
  /\ UNCHANGED << vstatus, vcontent, reported, gatewayVars >>

-----------------------------------------------------------------------------
(* The operator's commands and the end of a runtime                         *)

\* POST start: a runtime that runs is left alone, any other starts anew with the
\* definition it was built with.
start_device ==
  /\ up /\ tracked # NoRuntime
  /\ running[tracked] = NoContent
  /\ running' = [running EXCEPT ![tracked] = definition]
  /\ halted' = halted \ {tracked}
  /\ UNCHANGED << dbVars, up, tracked, gatewayApplied, definition, call >>

\* POST stop: neither the applied version nor the status row takes notice.
stop_device ==
  /\ up /\ tracked # NoRuntime
  /\ running' = Stop(tracked)
  /\ halted' = halted \cup {tracked}
  /\ UNCHANGED << dbVars, up, tracked, gatewayApplied, definition, call >>

\* The task of a runtime ends in ERROR: the device is not registered, its adapter
\* cannot be built, the retries are exhausted.
RuntimeEnds(r) ==
  /\ running[r] # NoContent
  /\ running' = Stop(r)
  /\ halted' = halted \cup {r}
  /\ UNCHANGED << dbVars, up, tracked, gatewayApplied, definition, call >>

-----------------------------------------------------------------------------
(* Start-up and crash                                                       *)

\* The process dies with its calls and runtimes; the tables stay.
Crash ==
  /\ up
  /\ up' = FALSE
  /\ tracked' = NoRuntime
  /\ gatewayApplied' = 0
  /\ definition' = NoContent
  /\ running' = [r \in RuntimeIds |-> NoContent]
  /\ halted' = {}
  /\ unrecorded' = (unrecorded \/ (reported.status = "APPLYING" /\ Applications # {}))
  /\ call' = [c \in Callers |-> NoCall]
  /\ UNCHANGED << vstatus, vcontent, reported >>

\* A runtime is built for the content and started; it is never torn down.
StartRuntime(content) ==
  /\ definition' = content
  /\ IF content = NoContent
     THEN UNCHANGED << tracked, running >>
     ELSE \E r \in RuntimeIds : /\ tracked' = r
                                /\ running' = [running EXCEPT ![r] = content]

\* _build_managed_gateway with a published version: confirm_ready settles
\* whether the version counts as applied.
BootPublished ==
  /\ ~up
  /\ up' = TRUE
  /\ \E v \in Published, ready \in BOOLEAN :
       /\ ready => vcontent[v] \in RunnableContents
       /\ StartRuntime(vcontent[v])
       /\ gatewayApplied' = IF ready THEN v ELSE 0
       /\ reported' = IF ready THEN [applied |-> v, status |-> "APPLIED"]
                      ELSE [applied |-> 0, status |-> "FAILED"]
  /\ unrecorded' = FALSE
  /\ UNCHANGED << vstatus, vcontent, halted, call >>

\* The device is taken from the YAML file, if it is there: it has no published
\* version, or the published versions could not be read (the exception is
\* logged and start-up goes on).  A device that is nowhere gets no row.
BootFromFile ==
  /\ ~up
  /\ up' = TRUE
  /\ StartRuntime(Bootstrap)
  /\ reported' = IF Bootstrap = NoContent THEN reported
                 ELSE [applied |-> 0, status |-> "PENDING"]
  /\ unrecorded' = (unrecorded /\ Bootstrap = NoContent)
  /\ UNCHANGED << vstatus, vcontent, gatewayApplied, halted, call >>

-----------------------------------------------------------------------------
CallStep(c) ==
  \/ \E content \in Contents : update_draft(c, content)
  \/ delete_draft(c) \/ validate_version(c)
  \/ archive_published_except(c) \/ publish(c) \/ Rollback(c)
  \/ ApplyVanished(c) \/ _mark_applying(c)
  \/ ApplyStart(c) \/ ApplyNotReady(c) \/ ApplyReady(c) \/ ApplySwap(c)
  \/ _record_apply(c) \/ RecordLost(c)

Next ==
  \/ create_draft
  \/ \E v \in Versions : clone_version(v)
  \/ \E c \in Callers, op \in DOMAIN Admitted, v \in Versions : Load(c, op, v)
  \/ \E c \in Callers : apply_current(c) \/ CallStep(c)
  \/ start_device \/ stop_device
  \/ \E r \in RuntimeIds : RuntimeEnds(r)
  \/ Crash \/ BootPublished \/ BootFromFile

Spec == Init /\ [][Next]_vars

-----------------------------------------------------------------------------
(* Properties                                                               *)

Phases == { "idle", "update", "delete", "validate", "publish", "archived", "published",
            "applying", "starting", "swapping", "recording" }

Calls ==
  [ pc        : Phases,
    version   : 0 .. MaxVersion,
    status    : { "NONE", "DRAFT", "VALIDATED", "PUBLISHED" },
    content   : Contents \cup {NoContent},
    archive   : SUBSET Versions,
    previous  : RuntimeIds \cup {NoRuntime},
    candidate : RuntimeIds \cup {NoRuntime},
    outcome   : { "NONE", "APPLIED" } ]

\* Rows, gateway and calls hold the values their columns and types admit.
TypeOK ==
  /\ vstatus \in [Versions -> { "NONE", "DRAFT", "VALIDATED", "PUBLISHED", "ARCHIVED" }]
  /\ vcontent \in [Versions -> Contents \cup {NoContent}]
  /\ reported \in [applied : 0 .. MaxVersion,
                   status : { "PENDING", "APPLYING", "APPLIED", "FAILED" }]
  /\ up \in BOOLEAN
  /\ tracked \in RuntimeIds \cup {NoRuntime}
  /\ gatewayApplied \in 0 .. MaxVersion
  /\ unrecorded \in BOOLEAN
  /\ definition \in Contents \cup {NoContent, Bootstrap}
  /\ running \in [RuntimeIds -> Contents \cup {NoContent, Bootstrap}]
  /\ halted \subseteq RuntimeIds
  /\ call \in [Callers -> Calls]

\* At most one version is published, however publications overlap.
OnePublished == \A v, w \in Published : v = w

\* APPLYING is only ever reported while an application is under way, or after one
\* whose outcome was lost, with the process or with the database, and which nothing
\* has settled since: no other path through _apply_published leaves it behind.
ApplyingIsExplained ==
  reported.status = "APPLYING" => Applications # {} \/ unrecorded

\* A device that has a published version keeps one at every step, failed
\* publications and start-ups included; only a deletion that had read the row as a
\* draft, before another call published it, can take it away.
DesiredKept ==
  Published # {} =>
    \/ Published' # {}
    \/ \E c \in Callers : call[c].pc = "delete" /\ call[c].version \in Published

\* However calls overlap: one published version and no less, and no APPLYING that
\* is neither under way nor explained by a lost outcome.
VersionsSound == [](OnePublished /\ ApplyingIsExplained) /\ [][DesiredKept]_vars

\* No application takes the device down: whatever applications and commands
\* overlap, the runtime the gateway refers to runs, unless an operator stopped it
\* or it gave up by itself, or an application is about to put its candidate there.
TrackedRuns ==
  up /\ tracked # NoRuntime =>
    \/ running[tracked] # NoContent
    \/ tracked \in halted
    \/ \E c \in Callers : call[c].pc = "swapping"

\* The status that the API calls in_sync.
in_sync(v) == v \in Published /\ reported = [applied |-> v, status |-> "APPLIED"]

\* When the API says a version is in sync, the gateway's runtime was built with the
\* content that is published under that version, which is one that can be run, and
\* polls with it unless it gave up or was stopped: of that only runtime_state tells.
InSyncTruth ==
  \A v \in Versions : in_sync(v) /\ up =>
    /\ tracked # NoRuntime
    /\ definition = vcontent[v]
    /\ vcontent[v] \in RunnableContents
    /\ running[tracked] = vcontent[v] \/ tracked \in halted

\* Nothing polls the device behind the gateway's back: outside an application
\* the only runtime is the one that the gateway refers to.
NoOrphanRuntime ==
  (\A c \in Callers : call[c].candidate = NoRuntime) =>
    \A r \in RuntimeIds : running[r] # NoContent => r = tracked
=============================================================================
