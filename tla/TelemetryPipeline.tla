--------------------------- MODULE TelemetryPipeline ---------------------------
(***************************************************************************)
(* What becomes of a sample of one device once its transaction commits     *)
(* (backend/app/services/telemetry.py): the latest-value cache             *)
(* (infrastructure/redis/latest.py), the fan-out to WebSocket clients      *)
(* (websocket/manager.py, api/websockets.py) and the online diagnosis      *)
(* (services/diagnosis.py, ml/features.py, ml/runtime.py), with restarts.  *)
(*                                                                         *)
(* A sample is its timestamp.  Several ingestions of a device overlap when *)
(* it is both polled and pushed, or while its runtime is replaced; each is *)
(* cut into steps where the code awaits Redis, the database or a thread.   *)
(* The fan-out and the handling up to the inference are one step, since    *)
(* nothing is awaited between them.  The alarms of a sample are the matter *)
(* of AlarmCorrelation, and so is the incident that a diagnosis refers to. *)
(***************************************************************************)
EXTENDS Integers, Sequences, FiniteSets, SequencesExt

CONSTANTS
  MaxTime,        \* bound: timestamps are 1 .. MaxTime
  Workers,        \* ingestions in flight at a time
  Readers,        \* reads of the latest value in flight at a time
  Clients,        \* WebSocket clients of the device
  QueueSize,      \* websocket_queue_size
  window_size, stride,
  MaxGapFactor

ASSUME SizeAssumption ==
  /\ { MaxTime, QueueSize, stride, MaxGapFactor } \subseteq Nat \ {0}
  /\ window_size \in Nat /\ window_size >= 2

VARIABLES
  stored,         \* telemetry: the timestamps of the committed rows
  cache,          \* Redis: the latest value, or 0
  fate,           \* what became of the newest row: "pending", "announced", "cut" or "rebuilt"
  worker,         \* ingestions
  reader,         \* the rows that reads of the latest value want to cache, or 0
  client,         \* subscriptions: queue, and the last value sent
  last,           \* the last value that was broadcast
  buffer, samples_since_inference,
  diagnosis       \* diagnoses: end of window -> the statuses of its rows, in order

vars == << stored, cache, fate, worker, reader, client, last, buffer, samples_since_inference, diagnosis >>

Times     == 1 .. MaxTime
NoWork    == [pc |-> "idle", sample |-> 0, window |-> << >>]
NoClient  == [on |-> FALSE, queue |-> << >>, seen |-> 0]

Newest(rows) == IF rows = {} THEN 0 ELSE CHOOSE t \in rows : \A u \in rows : u <= t

Init ==
  /\ stored = {} /\ cache = 0 /\ fate = "announced" /\ last = 0
  /\ worker = [w \in Workers |-> NoWork]
  /\ reader = [r \in Readers |-> 0]
  /\ client = [c \in Clients |-> NoClient]
  /\ buffer = << >> /\ samples_since_inference = 0
  /\ diagnosis = [t \in Times |-> << >>]

\* Oldest first.
Increasing(s) == \A i, j \in DOMAIN s : i < j => s[i] < s[j]

live == << client, last, buffer, samples_since_inference, diagnosis >>

-----------------------------------------------------------------------------
(* Ingestion                                                                *)

\* ON CONFLICT DO NOTHING on (device_id, timestamp)
insert_once(t) == t \notin stored

\* A sample that is valid, of this device and new is committed.  One that is rejected or
\* known leaves nothing behind.
Persist(w, t) ==
  /\ worker[w].pc = "idle"
  /\ insert_once(t)
  /\ stored' = stored \cup {t}
  /\ fate' = IF t > Newest(stored) THEN "pending" ELSE fate
  /\ worker' = [worker EXCEPT ![w] = [NoWork EXCEPT !.pc = "persisted", !.sample = t]]
  /\ UNCHANGED << cache, reader, live >>

\* Mutant: the last write wins.
set_if_newer_always(t) == cache' = t

\* The script compares and writes in one step of Redis.
set_if_newer(t) == cache' = IF cache >= t THEN cache ELSE t

Publish(w, is_latest) ==
  worker' = [worker EXCEPT ![w] = IF is_latest THEN [@ EXCEPT !.pc = "latest"] ELSE NoWork]

CacheWrite(w) ==
  /\ worker[w].pc = "persisted"
  /\ set_if_newer(worker[w].sample)
  /\ Publish(w, cache' # cache)
  /\ UNCHANGED << stored, fate, reader, live >>

\* Mutant: an unavailable cache ends the publication.
CacheFails_silent(w) ==
  /\ worker[w].pc = "persisted"
  /\ set_if_newer(worker[w].sample)
  /\ Publish(w, FALSE)
  /\ UNCHANGED << stored, fate, reader, live >>

\* Redis raises, having written or not: the newest row of the table decides.
CacheFails(w) ==
  /\ worker[w].pc = "persisted"
  /\ UNCHANGED cache \/ set_if_newer(worker[w].sample)
  /\ Publish(w, worker[w].sample = Newest(stored))
  /\ UNCHANGED << stored, fate, reader, live >>

\* The ingestion ends between its commit and its broadcast while the process stays up: its task
\* is cancelled (the runtime or the consumer is stopped), or the query that decides in place of
\* Redis fails.  Nobody is told of the row, and nothing makes up for it.
Abandon(w) ==
  /\ worker[w].pc \in { "persisted", "latest" }
  /\ fate' = IF worker[w].sample = Newest(stored) /\ fate = "pending" THEN "cut" ELSE fate
  /\ worker' = [worker EXCEPT ![w] = NoWork]
  /\ UNCHANGED << stored, cache, reader, live >>

-----------------------------------------------------------------------------
(* Fan-out                                                                  *)

\* Mutant: a full queue refuses the newer value.
Offer_refusing(queue, t) == IF Len(queue) = QueueSize THEN queue ELSE Append(queue, t)

\* A full queue gives up its oldest value.
Offer(queue, t) == Append(IF Len(queue) = QueueSize THEN Tail(queue) ELSE queue, t)

broadcast(t) ==
  /\ last' = t
  /\ fate' = IF t = Newest(stored) THEN "announced" ELSE fate
  /\ client' = [c \in Clients |->
       IF client[c].on THEN [client[c] EXCEPT !.queue = Offer(@, t)] ELSE client[c]]

Connect(c) ==
  /\ ~client[c].on
  /\ client' = [client EXCEPT ![c].on = TRUE]
  /\ UNCHANGED << stored, cache, fate, worker, reader, last, buffer, samples_since_inference, diagnosis >>

Send(c) ==
  /\ client[c].queue # << >>
  /\ client' = [client EXCEPT ![c].seen = Head(client[c].queue), ![c].queue = Tail(@)]
  /\ UNCHANGED << stored, cache, fate, worker, reader, last, buffer, samples_since_inference, diagnosis >>

Disconnect(c) ==
  /\ client[c].on
  /\ client' = [client EXCEPT ![c] = NoClient]
  /\ UNCHANGED << stored, cache, fate, worker, reader, last, buffer, samples_since_inference, diagnosis >>

-----------------------------------------------------------------------------
(* Diagnosis                                                                *)

\* deque(maxlen=window_size)
Push(t) == IF Len(buffer) = window_size THEN Append(Tail(buffer), t) ELSE Append(buffer, t)

Fresh(t) == buffer = << >> \/ t > Last(buffer)

Due(b, n) == Len(b) = window_size /\ n >= stride

\* Mutant: the counter is not reset.
handle_no_reset(w, t) ==
  LET b == Push(t)
      n == IF samples_since_inference < stride THEN samples_since_inference + 1 ELSE stride
  IN  /\ buffer' = b
      /\ samples_since_inference' = n
      /\ worker' = [worker EXCEPT ![w] = IF Due(b, n) THEN [@ EXCEPT !.pc = "inferring", !.window = b]
                                         ELSE NoWork]

\* handle: up to the inference, which gets a copy of the window.
handle(w, t) ==
  LET b == Push(t)
      n == samples_since_inference + 1
  IN  IF ~Fresh(t)
      THEN UNCHANGED << buffer, samples_since_inference >> /\ worker' = [worker EXCEPT ![w] = NoWork]
      ELSE /\ buffer' = b
           /\ samples_since_inference' = IF Due(b, n) THEN 0 ELSE IF n > stride THEN stride ELSE n
           /\ worker' = [worker EXCEPT ![w] = IF Due(b, n) THEN [@ EXCEPT !.pc = "inferring", !.window = b]
                                              ELSE NoWork]

Announce(w) ==
  /\ worker[w].pc = "latest"
  /\ broadcast(worker[w].sample)
  /\ handle(w, worker[w].sample)
  /\ UNCHANGED << stored, cache, reader, diagnosis >>

\* FeatureExtractor.extract: no interval is longer than MaxGapFactor times the median one.
Intervals(window) == [i \in 1 .. Len(window) - 1 |-> window[i + 1] - window[i]]

TwiceMedian(s) ==
  LET sorted == SortSeq(s, <)
      n == Len(s)
  IN  IF n % 2 = 1 THEN 2 * sorted[(n + 1) \div 2] ELSE sorted[n \div 2] + sorted[n \div 2 + 1]

extract(window) ==
  LET gaps == Intervals(window)
  IN  \A i \in DOMAIN gaps : 2 * gaps[i] <= MaxGapFactor * TwiceMedian(gaps)

\* A window with a gap has no prediction.  NORMAL, FAULT and UNCERTAIN are one here.
predict(window) == IF extract(window) THEN {"PREDICTED"} ELSE {}

\* The diagnosis is stored: the prediction, or FAILED when the inference or its commit raised.
Diagnose(w) ==
  /\ worker[w].pc = "inferring"
  /\ \E status \in predict(worker[w].window) \cup {"FAILED"} :
       diagnosis' = [diagnosis EXCEPT ![Last(worker[w].window)] = Append(@, status)]
  /\ worker' = [worker EXCEPT ![w] = NoWork]
  /\ UNCHANGED << stored, cache, fate, reader, client, last, buffer, samples_since_inference >>

\* FAILED cannot be stored either and the consumer rolls back and goes on, or the task is cancelled.
DiagnoseLost(w) ==
  /\ worker[w].pc = "inferring"
  /\ worker' = [worker EXCEPT ![w] = NoWork]
  /\ UNCHANGED << stored, cache, fate, reader, live >>

-----------------------------------------------------------------------------
(* Reads of the latest value                                                *)

\* TelemetryService.latest: a miss reads the table,
LatestMiss(r) ==
  /\ reader[r] = 0 /\ cache = 0 /\ stored # {}
  /\ reader' = [reader EXCEPT ![r] = Newest(stored)]
  /\ UNCHANGED << stored, cache, fate, worker, live >>

\* and caches what it read, or fails to.
LatestRebuild(r) ==
  /\ reader[r] # 0
  /\ \/ /\ set_if_newer(reader[r])
        /\ fate' = IF cache' = Newest(stored) /\ fate = "pending" THEN "rebuilt" ELSE fate
     \/ UNCHANGED << cache, fate >>
  /\ reader' = [reader EXCEPT ![r] = 0]
  /\ UNCHANGED << stored, worker, live >>

-----------------------------------------------------------------------------
(* Faults                                                                   *)

RedisForgets ==
  /\ cache # 0
  /\ cache' = 0
  /\ UNCHANGED << stored, fate, worker, reader, live >>

\* recent_window: the newest rows,
recent == { t \in stored : Cardinality({ u \in stored : u > t }) < window_size }

\* oldest first
recent_window == { rows \in [1 .. Cardinality(recent) -> recent] : Increasing(rows) }

\* The process ends and starts again: warmup restores the window from the table.
Restart ==
  /\ worker' = [w \in Workers |-> NoWork]
  /\ reader' = [r \in Readers |-> 0]
  /\ client' = [c \in Clients |-> NoClient]
  /\ buffer' \in recent_window
  /\ samples_since_inference' = 0
  /\ fate' = IF fate = "pending" THEN "cut" ELSE fate
  /\ UNCHANGED << stored, cache, last, diagnosis >>

-----------------------------------------------------------------------------
WorkerStep(w) ==
  \/ \E t \in Times : Persist(w, t)
  \/ CacheWrite(w) \/ CacheFails(w) \/ Abandon(w)
  \/ Announce(w) \/ Diagnose(w) \/ DiagnoseLost(w)

Next ==
  \/ \E w \in Workers : WorkerStep(w)
  \/ \E r \in Readers : LatestMiss(r) \/ LatestRebuild(r)
  \/ \E c \in Clients : Connect(c) \/ Send(c) \/ Disconnect(c)
  \/ RedisForgets \/ Restart

Spec == Init /\ [][Next]_vars

-----------------------------------------------------------------------------
(* Properties                                                               *)

\* Types; the window of the device holds stored samples in the order of their timestamps and
\* never more than its size, whatever order handlers run in (diagnosis.py, handle: line 71).
TypeOK ==
  /\ stored \subseteq Times /\ cache \in stored \cup {0} /\ last \in stored \cup {0}
  /\ fate \in { "pending", "announced", "cut", "rebuilt" }
  /\ \A c \in Clients : Len(client[c].queue) <= QueueSize /\ client[c].seen \in stored \cup {0}
  /\ samples_since_inference \in 0 .. stride
  /\ buffer \in Seq(stored) /\ Len(buffer) <= window_size /\ Increasing(buffer)

\* The cache implements the latest-value register (latest.py, the script and its callers).
Register == INSTANCE LatestValue WITH known <- stored, shown <- cache
LatestWins == Register!Spec

\* The newest row that clients were not told of is on its way to them, in an ingestion that will
\* find it to be the latest value, however late samples, lost caches and overlapping ingestions
\* interleave.  The exceptions are the ones the code has: the process ended or the ingestion was
\* abandoned before the broadcast ("cut"), or a read of the latest value had cached the row
\* first ("rebuilt": telemetry.py, latest and _publish_latest).
NothingUnannounced ==
  fate = "pending" =>
    \E w \in Workers :
      /\ worker[w].sample = Newest(stored)
      /\ \/ worker[w].pc = "persisted" /\ cache # Newest(stored)
         \/ worker[w].pc = "latest"

\* A client that was sent anything since it connected has, or will be sent next, the value
\* broadcast last: a slow client loses values but not the last one (manager.py, broadcast).
ClientsCatchUp ==
  \A c \in Clients :
    /\ client[c].queue # << >> => Last(client[c].queue) = last
    /\ client[c].queue = << >> /\ client[c].seen # 0 => client[c].seen = last

\* The window of the device holds samples in the order of their timestamps (TypeOK), and
\* however often samples are delivered and handlers overlap, a sample ends at most one
\* diagnosed window, and between two diagnosed windows lie at least stride samples, restarts
\* included (diagnosis.py, handle: the counter is reset before the inference is awaited).
DiagnosesSpaced ==
  TypeOK /\
  \A t \in Times : diagnosis[t] # << >> =>
    /\ Len(diagnosis[t]) = 1
    /\ \A u \in Times : u > t /\ diagnosis[u] # << >> =>
         Cardinality({ s \in stored : t < s /\ s <= u }) >= stride
=============================================================================
