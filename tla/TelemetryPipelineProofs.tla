------------------------ MODULE TelemetryPipelineProofs ------------------------
(***************************************************************************)
(* Proofs about TelemetryPipeline, for any number of overlapping           *)
(* ingestions, reads and WebSocket clients, any queue, window and stride.  *)
(***************************************************************************)
EXTENDS TelemetryPipeline, FiniteSetTheorems, SequenceTheorems, WellFoundedInduction, TLAPS

Works == [pc : { "idle", "persisted", "latest", "inferring" }, sample : Times \cup {0}, window : Seq(Times)]

\* What the cache, the reads and the ingestions refer to is in the table.
DataInv ==
  /\ stored \subseteq Times
  /\ cache \in stored \cup {0} /\ last \in stored \cup {0}
  /\ fate \in { "pending", "announced", "cut", "rebuilt" }
  /\ reader \in [Readers -> stored \cup {0}]
  /\ worker \in [Workers -> Works]
  /\ \A w \in Workers : worker[w].pc \in { "persisted", "latest" } => worker[w].sample \in stored

\* Queues are bounded and hold stored samples; who is not connected has nothing.
ClientInv ==
  /\ client \in [Clients -> [on : BOOLEAN, queue : Seq(stored), seen : stored \cup {0}]]
  /\ \A c \in Clients :
       /\ Len(client[c].queue) <= QueueSize
       /\ ~client[c].on => client[c].queue = << >> /\ client[c].seen = 0

\* The window holds stored samples, oldest first.
BufferInv ==
  /\ samples_since_inference \in 0 .. stride
  /\ buffer \in Seq(stored) /\ Len(buffer) <= window_size /\ Increasing(buffer)

Inferring(w) == worker[w].pc = "inferring"
End(w)       == Last(worker[w].window)

\* The samples that end a diagnosed window, or one whose inference is under way.
Ends == { t \in Times : diagnosis[t] # << >> } \cup { End(w) : w \in { v \in Workers : Inferring(v) } }

Between(t, u) == { s \in stored : t < s /\ s <= u }

\* No two windows in inference, and no window in inference and a diagnosed one, end alike.
OnceInv ==
  /\ diagnosis \in [Times -> Seq({ "PREDICTED", "FAILED" })]
  /\ \A t \in Times : Len(diagnosis[t]) <= 1
  /\ \A w \in Workers : Inferring(w) => End(w) \in Times /\ diagnosis[End(w)] = << >>
  /\ \A v, w \in Workers : Inferring(v) /\ Inferring(w) /\ End(v) = End(w) => v = w

\* The counter has seen no more samples than are in the table behind any of these ends, and
\* between two of them there are enough.
SpaceInv ==
  /\ \A t \in Ends : /\ t \in stored /\ buffer # << >> /\ t <= Last(buffer)
                     /\ samples_since_inference <= Cardinality(Between(t, Last(buffer)))
  /\ \A t, u \in Ends : t < u => stride <= Cardinality(Between(t, u))

TInv == DataInv /\ ClientInv /\ BufferInv /\ OnceInv /\ SpaceInv

-----------------------------------------------------------------------------
(* Sets of timestamps and sequences of them                                 *)

\* A nonempty set of timestamps has a least element.
LEMMA LeastExists ==
  ASSUME NEW S \in SUBSET Times, S # {}
  PROVE  \E t \in S : \A u \in S : t <= u
PROOF
<1>1. S \subseteq Nat
  BY SizeAssumption DEF Times
<1>2. PICK t \in S : \A u \in S : ~ (<< u, t >> \in OpToRel(<, Nat))
  BY <1>1, WFMin, NatLessThanWellFounded
<1>3. ASSUME NEW u \in S PROVE t <= u
  <2>1. ~ (u < t)
    BY <1>1, <1>2 DEF OpToRel
  <2> QED BY <2>1, <1>1
<1> QED BY <1>3

\* A nonempty set of timestamps has a greatest element.
LEMMA GreatestExists ==
  ASSUME NEW S \in SUBSET Times, S # {}
  PROVE  \E t \in S : \A u \in S : u <= t
PROOF
<1> DEFINE R == { MaxTime + 1 - t : t \in S }
<1>0. MaxTime \in Nat /\ S \subseteq 1 .. MaxTime
  BY SizeAssumption DEF Times
<1>1. R \subseteq Times /\ R # {}
  <2>1. ASSUME NEW t \in S PROVE MaxTime + 1 - t \in 1 .. MaxTime
    BY <1>0
  <2>2. PICK t \in S : TRUE
    OBVIOUS
  <2>3. MaxTime + 1 - t \in R
    BY <2>2
  <2> QED BY <2>1, <2>3 DEF Times
<1>2. PICK r \in R : \A q \in R : r <= q
  BY <1>1, LeastExists
<1>3. PICK t \in S : r = MaxTime + 1 - t
  BY <1>2
<1>4. ASSUME NEW u \in S PROVE u <= t
  <2>1. MaxTime + 1 - u \in R
    OBVIOUS
  <2>2. r <= MaxTime + 1 - u
    BY <2>1, <1>2
  <2>3. u \in 1 .. MaxTime /\ t \in 1 .. MaxTime
    BY <1>0
  <2> QED BY <2>2, <2>3, <1>0, <1>3
<1> QED BY <1>4

\* Newest is the greatest timestamp of the table.
LEMMA NewestIsGreatest ==
  ASSUME NEW S \in SUBSET Times, S # {}
  PROVE  Newest(S) \in S /\ \A u \in S : u <= Newest(S)
BY GreatestExists DEF Newest

\* Sets of timestamps are finite, and larger sets have more elements.
LEMMA CountTimes ==
  ASSUME NEW S \in SUBSET Times, NEW T \in SUBSET S
  PROVE  /\ IsFiniteSet(S) /\ IsFiniteSet(T)
         /\ Cardinality(S) \in Nat /\ Cardinality(T) \in Nat
         /\ Cardinality(T) <= Cardinality(S)
PROOF
<1>1. IsFiniteSet(Times)
  BY SizeAssumption, FS_Interval DEF Times
<1>2. IsFiniteSet(S)
  BY <1>1, FS_Subset
<1> QED BY <1>2, FS_Subset, FS_CardinalityType

\* What appending to a sequence of timestamps does to its length and its end.
LEMMA Appending ==
  ASSUME NEW S, NEW s \in Seq(S), NEW t \in S
  PROVE  /\ Append(s, t) \in Seq(S) /\ Len(Append(s, t)) = Len(s) + 1
         /\ Append(s, t) # << >> /\ Last(Append(s, t)) = t
         /\ \A i \in 1 .. Len(s) : Append(s, t)[i] = s[i]
PROOF
<1>1. /\ Append(s, t) \in Seq(S) /\ Len(Append(s, t)) = Len(s) + 1
      /\ Append(s, t)[Len(s) + 1] = t /\ Len(s) \in Nat
      /\ \A i \in 1 .. Len(s) : Append(s, t)[i] = s[i]
  BY AppendProperties, LenProperties
<1>2. Append(s, t) # << >>
  BY <1>1, EmptySeq
<1> QED BY <1>1, <1>2 DEF Last

\* What is left of a sequence keeps its end.
LEMMA Dropping ==
  ASSUME NEW S, NEW s \in Seq(S), s # << >>
  PROVE  /\ Head(s) \in S /\ Last(s) \in S
         /\ Tail(s) \in Seq(S) /\ Len(Tail(s)) = Len(s) - 1 /\ Len(s) \in Nat \ {0}
         /\ Tail(s) = << >> => Head(s) = Last(s)
         /\ Tail(s) # << >> => Last(Tail(s)) = Last(s)
         /\ \A i \in 1 .. Len(Tail(s)) : Tail(s)[i] = s[i + 1]
PROOF
<1>1. /\ Head(s) \in S /\ Tail(s) \in Seq(S) /\ Len(Tail(s)) = Len(s) - 1
      /\ \A i \in 1 .. Len(Tail(s)) : Tail(s)[i] = s[i + 1]
  BY HeadTailProperties
<1>2. Len(s) \in Nat \ {0} /\ Len(<< >>) = 0
  BY EmptySeq
<1>3. Last(s) \in S
  BY <1>2, ElementOfSeq DEF Last
<1>4. ASSUME Tail(s) = << >> PROVE Head(s) = Last(s)
  <2>0. Len(Tail(s)) = 0
    BY <1>4, <1>2, Zenon
  <2>1. Len(s) = 1
    <3>1. \A n \in Nat : \A m : m = n - 1 /\ m = 0 => n = 1
      OBVIOUS
    <3>2. Len(Tail(s)) = Len(s) - 1 /\ Len(s) \in Nat
      BY <1>1, <1>2
    <3> QED BY <3>1, <3>2, <2>0, Zenon
  <2>2. Head(s) = s[1]
    BY <2>1
  <2> QED BY <2>1, <2>2 DEF Last
<1>5. ASSUME Tail(s) # << >> PROVE Last(Tail(s)) = Last(s)
  <2>1. Len(Tail(s)) \in Nat \ {0}
    BY <1>1, <1>5, EmptySeq
  <2> QED BY <2>1, <1>1, <1>2 DEF Last
<1> QED BY <1>1, <1>2, <1>3, <1>4, <1>5

\* A newer sample at the end of the window leaves it in order and within its size.
LEMMA Pushing ==
  ASSUME DataInv, BufferInv, NEW t \in stored, Fresh(t)
  PROVE  /\ Push(t) \in Seq(stored) /\ Len(Push(t)) <= window_size /\ Increasing(Push(t))
         /\ Push(t) # << >> /\ Last(Push(t)) = t
PROOF
<1> DEFINE kept == IF Len(buffer) = window_size THEN Tail(buffer) ELSE buffer
<1>1. window_size \in Nat /\ window_size >= 2 /\ Len(buffer) \in Nat /\ Len(buffer) <= window_size
  BY SizeAssumption, LenProperties DEF BufferInv
<1>2. buffer \in Seq(stored) /\ stored \subseteq Int
  BY SizeAssumption DEF BufferInv, DataInv, Times
<1>3. Len(buffer) = window_size => buffer # << >>
  BY <1>1, EmptySeq
<1>4. kept \in Seq(stored) /\ Len(kept) + 1 <= window_size
  BY <1>1, <1>2, <1>3, Dropping
<1>5. \A i \in 1 .. Len(kept) : \E k \in 1 .. Len(buffer) : kept[i] = buffer[k]
  <2>1. CASE Len(buffer) = window_size
    <3>1. /\ Len(Tail(buffer)) = Len(buffer) - 1
          /\ \A i \in 1 .. Len(Tail(buffer)) : Tail(buffer)[i] = buffer[i + 1]
      BY <2>1, <1>2, <1>3, Dropping
    <3>2. \A i \in 1 .. Len(Tail(buffer)) : i + 1 \in 1 .. Len(buffer)
      BY <3>1, <1>1
    <3> QED BY <2>1, <3>1, <3>2
  <2> QED BY <2>1
<1>6. Increasing(kept)
  <2>1. CASE Len(buffer) = window_size
    <3>1. /\ Len(Tail(buffer)) = Len(buffer) - 1
          /\ DOMAIN Tail(buffer) = 1 .. Len(Tail(buffer)) /\ DOMAIN buffer = 1 .. Len(buffer)
          /\ \A i \in 1 .. Len(Tail(buffer)) : Tail(buffer)[i] = buffer[i + 1]
      BY <2>1, <1>2, <1>3, Dropping, LenProperties
    <3>2. \A i \in 1 .. Len(Tail(buffer)) : i + 1 \in 1 .. Len(buffer)
      BY <3>1, <1>1
    <3>3. \A i, j \in 1 .. Len(buffer) : i < j => buffer[i] < buffer[j]
      BY <3>1 DEF BufferInv, Increasing
    <3>4. ASSUME NEW i \in 1 .. Len(Tail(buffer)), NEW j \in 1 .. Len(Tail(buffer)), i < j
          PROVE  Tail(buffer)[i] < Tail(buffer)[j]
      BY <3>1, <3>2, <3>3, <3>4
    <3> QED BY <2>1, <3>1, <3>4 DEF Increasing
  <2> QED BY <2>1 DEF BufferInv
<1>7. \A k \in 1 .. Len(buffer) : buffer[k] < t
  <2>1. ASSUME NEW k \in 1 .. Len(buffer) PROVE buffer[k] < t
    <3>1. buffer # << >>
      BY EmptySeq
    <3>2. t > Last(buffer)
      BY <3>1 DEF Fresh
    <3>3a. Len(buffer) \in 1 .. Len(buffer)
      BY <1>1
    <3>3b. DOMAIN buffer = 1 .. Len(buffer)
      BY <1>2, LenProperties
    <3>3c. buffer[k] \in stored /\ buffer[Len(buffer)] \in stored
      BY <1>2, <3>3a, ElementOfSeq
    <3>3. /\ Len(buffer) \in 1 .. Len(buffer) /\ DOMAIN buffer = 1 .. Len(buffer)
          /\ buffer[k] \in Int /\ buffer[Len(buffer)] \in Int
      BY <3>3a, <3>3b, <3>3c, <1>2
    <3>4. buffer[k] <= buffer[Len(buffer)]
      BY <1>1, <3>3 DEF BufferInv, Increasing
    <3> QED BY <1>2, <3>2, <3>3, <3>4 DEF Last
  <2> QED BY <2>1
<1>8. Push(t) = Append(kept, t)
  BY DEF Push
<1> HIDE DEF kept
<1>9. /\ Append(kept, t) \in Seq(stored) /\ Len(Append(kept, t)) = Len(kept) + 1
      /\ Append(kept, t) # << >> /\ Last(Append(kept, t)) = t
      /\ \A i \in 1 .. Len(kept) : Append(kept, t)[i] = kept[i]
  BY <1>4, Appending
<1>10. Increasing(Append(kept, t))
  <2>1. /\ DOMAIN Append(kept, t) = 1 .. Len(kept) + 1 /\ Append(kept, t)[Len(kept) + 1] = t
        /\ Len(kept) \in Nat /\ DOMAIN kept = 1 .. Len(kept)
    BY <1>4, <1>9, LenProperties DEF Last
  <2>2. ASSUME NEW i \in 1 .. Len(kept) + 1, NEW j \in 1 .. Len(kept) + 1, i < j
        PROVE  Append(kept, t)[i] < Append(kept, t)[j]
    <3>1. i \in 1 .. Len(kept)
      BY <2>1, <2>2
    <3>2. CASE j = Len(kept) + 1
      BY <3>1, <3>2, <1>5, <1>7, <1>9, <2>1
    <3>3. CASE j \in 1 .. Len(kept)
      BY <3>1, <3>3, <2>1, <2>2, <1>6, <1>9 DEF Increasing
    <3> QED BY <3>2, <3>3, <2>1
  <2> QED BY <2>1, <2>2 DEF Increasing
<1> QED BY <1>4, <1>8, <1>9, <1>10


\* An ingestion that goes on with a sample of the table leaves all ingestions with one.
LEMMA WorkGoesOn ==
  ASSUME DataInv, NEW w \in Workers, NEW x \in Works, worker' = [worker EXCEPT ![w] = x],
         stored \subseteq stored', x.pc \in { "persisted", "latest" } => x.sample \in stored'
  PROVE  /\ worker' \in [Workers -> Works]
         /\ \A v \in Workers : worker'[v].pc \in { "persisted", "latest" } => worker'[v].sample \in stored'
PROOF
<1>1. worker \in [Workers -> Works]
  BY DEF DataInv
<1>2. worker' \in [Workers -> Works] /\ \A v \in Workers : worker'[v] = IF v = w THEN x ELSE worker[v]
  BY <1>1
<1>3. ASSUME NEW v \in Workers, worker'[v].pc \in { "persisted", "latest" }
      PROVE  worker'[v].sample \in stored'
  <2>1. CASE v = w
    BY <1>2, <1>3, <2>1
  <2>2. CASE v # w
    <3>1. worker'[v] = worker[v]
      BY <1>2, <2>2
    <3> QED BY <1>3, <3>1 DEF DataInv
  <2> QED BY <2>1, <2>2
<1> QED BY <1>2, <1>3

\* What an ingestion may be once the cache has been asked.
LEMMA Publishing ==
  ASSUME DataInv, NEW w \in Workers, worker[w].pc = "persisted", NEW b \in BOOLEAN, Publish(w, b),
         UNCHANGED stored
  PROVE  /\ worker' \in [Workers -> Works]
         /\ \A v \in Workers : worker'[v].pc \in { "persisted", "latest" } => worker'[v].sample \in stored'
         /\ \A v \in Workers \ {w} : worker'[v] = worker[v]
         /\ b => worker'[w] = [worker[w] EXCEPT !.pc = "latest"]
         /\ ~b => worker'[w] = NoWork
PROOF
<1> DEFINE x == IF b THEN [worker[w] EXCEPT !.pc = "latest"] ELSE NoWork
<1>1. worker[w] \in Works /\ worker[w].sample \in stored
  BY DEF DataInv
<1>2. NoWork \in Works /\ NoWork.pc = "idle"
  BY EmptySeq DEF NoWork, Works
<1>3. x \in Works /\ (x.pc \in { "persisted", "latest" } => x.sample \in stored')
  BY <1>1, <1>2 DEF Works
<1>4. worker' = [worker EXCEPT ![w] = x]
  BY DEF Publish
<1>5. worker \in [Workers -> Works]
  BY DEF DataInv
<1>6. worker'[w] = x /\ \A v \in Workers \ {w} : worker'[v] = worker[v]
  BY <1>4, <1>5
<1> HIDE DEF x
<1>7. /\ worker' \in [Workers -> Works]
      /\ \A v \in Workers : worker'[v].pc \in { "persisted", "latest" } => worker'[v].sample \in stored'
  BY <1>3, <1>4, WorkGoesOn
<1> QED BY <1>6, <1>7 DEF x

\* What an ingestion refers to is in the table, whatever it does next.
LEMMA DataStep ==
  ASSUME DataInv, BufferInv, [Next]_vars
  PROVE  DataInv'
PROOF
<1>0. 0 \notin Times /\ << >> \in Seq(Times) /\ NoWork \in Works /\ NoWork.pc = "idle"
  BY EmptySeq DEF Times, NoWork, Works
<1>1. ASSUME NEW w \in Workers, NEW t \in Times, Persist(w, t) PROVE DataInv'
  <2> DEFINE x == [NoWork EXCEPT !.pc = "persisted", !.sample = t]
  <2>1. x \in Works /\ x.sample = t
    BY <1>0 DEF NoWork, Works
  <2>2. worker' = [worker EXCEPT ![w] = x] /\ stored' = stored \cup {t} /\ UNCHANGED << cache, reader, last >>
        /\ fate' \in { fate, "pending" }
    BY <1>1 DEF Persist, live
  <2> HIDE DEF x
  <2>3. /\ worker' \in [Workers -> Works]
        /\ \A v \in Workers : worker'[v].pc \in { "persisted", "latest" } => worker'[v].sample \in stored'
    BY <2>1, <2>2, WorkGoesOn
  <2> QED BY <2>2, <2>3 DEF DataInv
<1>2. ASSUME NEW w \in Workers, CacheWrite(w) PROVE DataInv'
  <2>1. /\ cache' \in { cache, worker[w].sample } /\ UNCHANGED << stored, fate, reader, last >>
        /\ worker[w].sample \in stored
    BY <1>2 DEF CacheWrite, set_if_newer, live, DataInv
  <2>2. /\ worker' \in [Workers -> Works]
        /\ \A v \in Workers : worker'[v].pc \in { "persisted", "latest" } => worker'[v].sample \in stored'
    BY <1>2, Publishing DEF CacheWrite
  <2> QED BY <2>1, <2>2 DEF DataInv
<1>3. ASSUME NEW w \in Workers, CacheFails(w) PROVE DataInv'
  <2>1. /\ cache' \in { cache, worker[w].sample } /\ UNCHANGED << stored, fate, reader, last >>
        /\ worker[w].sample \in stored
    BY <1>3 DEF CacheFails, set_if_newer, live, DataInv
  <2>2. /\ worker' \in [Workers -> Works]
        /\ \A v \in Workers : worker'[v].pc \in { "persisted", "latest" } => worker'[v].sample \in stored'
    BY <1>3, Publishing DEF CacheFails
  <2> QED BY <2>1, <2>2 DEF DataInv
<1>4. ASSUME NEW w \in Workers, Announce(w) PROVE DataInv'
  <2>1. worker[w].sample \in stored /\ UNCHANGED << stored, cache, reader >> /\ worker[w] \in Works
    BY <1>4 DEF Announce, DataInv
  <2>2. last' = worker[w].sample /\ fate' \in { fate, "announced" }
    BY <1>4 DEF Announce, broadcast
  <2>3. PICK x \in Works : /\ worker' = [worker EXCEPT ![w] = x]
                           /\ x.pc \notin { "persisted", "latest" }
    <3>1. CASE ~Fresh(worker[w].sample)
      BY <1>0, <1>4, <3>1 DEF Announce, handle
    <3>2. CASE Fresh(worker[w].sample)
      <4> DEFINE b == Push(worker[w].sample)
                 y == [worker[w] EXCEPT !.pc = "inferring", !.window = b]
      <4>1. b \in Seq(Times)
        BY <2>1, <3>2, Pushing, SeqMonotonic DEF DataInv
      <4>2. \/ worker' = [worker EXCEPT ![w] = y]
            \/ worker' = [worker EXCEPT ![w] = NoWork]
        BY <1>4, <3>2 DEF Announce, handle
      <4>3. y \in Works /\ y.pc = "inferring"
        BY <2>1, <4>1 DEF Works
      <4> QED BY <1>0, <4>2, <4>3
    <3> QED BY <3>1, <3>2
  <2>4. /\ worker' \in [Workers -> Works]
        /\ \A v \in Workers : worker'[v].pc \in { "persisted", "latest" } => worker'[v].sample \in stored'
    BY <2>1, <2>3, WorkGoesOn
  <2> QED BY <2>1, <2>2, <2>4 DEF DataInv
<1>5. ASSUME NEW w \in Workers, Abandon(w) \/ Diagnose(w) \/ DiagnoseLost(w) PROVE DataInv'
  <2>1. /\ worker' = [worker EXCEPT ![w] = NoWork] /\ UNCHANGED << stored, cache, reader, last >>
        /\ fate' \in { fate, "cut" }
    BY <1>5 DEF Abandon, Diagnose, DiagnoseLost, live
  <2>2. /\ worker' \in [Workers -> Works]
        /\ \A v \in Workers : worker'[v].pc \in { "persisted", "latest" } => worker'[v].sample \in stored'
    BY <1>0, <2>1, WorkGoesOn
  <2> QED BY <2>1, <2>2 DEF DataInv
<1> USE DEF DataInv
<1>6. ASSUME NEW r \in Readers, LatestMiss(r) PROVE DataInv'
  BY <1>6, NewestIsGreatest DEF LatestMiss, live
<1>7. ASSUME NEW r \in Readers, LatestRebuild(r) PROVE DataInv'
  <2>1. /\ cache' \in { cache, reader[r] } /\ fate' \in { fate, "rebuilt" } /\ UNCHANGED << stored, worker, last >>
        /\ reader' = [reader EXCEPT ![r] = 0]
    BY <1>7 DEF LatestRebuild, set_if_newer, live
  <2> QED BY <2>1
<1>8. ASSUME NEW c \in Clients, Connect(c) \/ Send(c) \/ Disconnect(c) PROVE DataInv'
  BY <1>8 DEF Connect, Send, Disconnect
<1>9. ASSUME RedisForgets PROVE DataInv'
  BY <1>9 DEF RedisForgets, live
<1>10. ASSUME Restart PROVE DataInv'
  BY <1>0, <1>10 DEF Restart
<1>11. CASE UNCHANGED vars
  BY <1>11 DEF vars
<1> QED BY <1>1, <1>2, <1>3, <1>4, <1>5, <1>6, <1>7, <1>8, <1>9, <1>10, <1>11 DEF Next, WorkerStep

-----------------------------------------------------------------------------
(* The latest value                                                         *)

\* Every step is one of the latest-value register: a sample that becomes known, a newer one
\* that is shown, or a value that is forgotten.
LEMMA RegisterStep ==
  ASSUME DataInv, [Next]_vars
  PROVE  [Register!Next]_<< stored, cache >>
PROOF
<1>0. stored \subseteq Times /\ cache \in stored \cup {0} /\ Times \subseteq Nat
  BY DEF DataInv, Times
<1>1. ASSUME NEW w \in Workers, NEW t \in Times, Persist(w, t) PROVE Register!Learn
  BY <1>1 DEF Persist, Register!Learn
<1>2. ASSUME NEW t \in stored, set_if_newer(t), UNCHANGED stored PROVE Register!Show \/ UNCHANGED << stored, cache >>
  BY <1>0, <1>2 DEF set_if_newer, Register!Show
<1>3. ASSUME NEW w \in Workers, CacheWrite(w) \/ CacheFails(w)
      PROVE  Register!Show \/ UNCHANGED << stored, cache >>
  <2>1. worker[w].sample \in stored
    BY <1>3 DEF CacheWrite, CacheFails, DataInv
  <2> QED BY <2>1, <1>2, <1>3 DEF CacheWrite, CacheFails
<1>4. ASSUME NEW w \in Workers, Abandon(w) \/ Announce(w) \/ Diagnose(w) \/ DiagnoseLost(w)
      PROVE  UNCHANGED << stored, cache >>
  BY <1>4 DEF Abandon, Announce, Diagnose, DiagnoseLost
<1>5. ASSUME NEW r \in Readers, LatestMiss(r) PROVE UNCHANGED << stored, cache >>
  BY <1>5 DEF LatestMiss
<1>6. ASSUME NEW r \in Readers, LatestRebuild(r) PROVE Register!Show \/ UNCHANGED << stored, cache >>
  <2>1. reader[r] \in stored
    BY <1>6 DEF LatestRebuild, DataInv
  <2> QED BY <2>1, <1>2, <1>6 DEF LatestRebuild
<1>7. ASSUME NEW c \in Clients, Connect(c) \/ Send(c) \/ Disconnect(c) PROVE UNCHANGED << stored, cache >>
  BY <1>7 DEF Connect, Send, Disconnect
<1>8. ASSUME RedisForgets PROVE Register!Forget
  BY <1>8 DEF RedisForgets, Register!Forget
<1>9. ASSUME Restart PROVE UNCHANGED << stored, cache >>
  BY <1>9 DEF Restart
<1>10. CASE UNCHANGED vars
  BY <1>10 DEF vars
<1> QED BY <1>1, <1>3, <1>4, <1>5, <1>6, <1>7, <1>8, <1>9, <1>10 DEF Next, WorkerStep, Register!Next

\* The newest row stays with an ingestion that will announce it, but for the named exceptions.
LEMMA AnnouncedStep ==
  ASSUME DataInv, NothingUnannounced, [Next]_vars
  PROVE  NothingUnannounced'
PROOF
<1>0. stored \subseteq Times /\ cache \in stored \cup {0} /\ Times \subseteq Nat /\ 0 \notin Times
  BY DEF DataInv, Times
<1> DEFINE Carried(v) == /\ worker[v].sample = Newest(stored)
                         /\ \/ worker[v].pc = "persisted" /\ cache # Newest(stored)
                            \/ worker[v].pc = "latest"
<1>a. ASSUME fate' = "pending" => fate = "pending", \A v \in Workers : Carried(v) => Carried(v)'
      PROVE  NothingUnannounced'
  BY <1>a DEF NothingUnannounced
<1>b. worker \in [Workers -> Works]
  BY DEF DataInv
<1>1. ASSUME NEW w \in Workers, NEW t \in Times, Persist(w, t) PROVE NothingUnannounced'
  <2>1. /\ worker[w].pc = "idle" /\ t \notin stored /\ stored' = stored \cup {t} /\ cache' = cache
        /\ fate' = IF t > Newest(stored) THEN "pending" ELSE fate
    BY <1>1 DEF Persist, insert_once
  <2>2. /\ \A v \in Workers \ {w} : worker'[v] = worker[v]
        /\ worker'[w].pc = "persisted" /\ worker'[w].sample = t
    BY <1>1, <1>b DEF Persist, NoWork
  <2>3. /\ stored' \subseteq Times /\ stored' # {}
        /\ Newest(stored') \in stored' /\ \A u \in stored' : u <= Newest(stored')
    BY <1>0, <2>1, NewestIsGreatest
  <2>4. stored # {} => Newest(stored) \in stored /\ \A u \in stored : u <= Newest(stored)
    BY <1>0, NewestIsGreatest
  <2>5. stored = {} => Newest(stored) = 0
    BY DEF Newest
  <2>6. t \in Nat /\ t # 0 /\ stored \subseteq Nat /\ Newest(stored) \in Nat /\ Newest(stored') \in Nat
    <3>1. t \in Nat /\ t # 0
      BY <1>0
    <3>a. stored \subseteq Nat /\ stored' \subseteq Nat
      BY <1>0, <2>3
    <3>2. Newest(stored) \in Nat
      <4>1. CASE stored = {}
        BY <2>5, <4>1
      <4>2. CASE stored # {}
        BY <2>4, <3>a, <4>2
      <4> QED BY <4>1, <4>2
    <3> QED BY <2>3, <3>1, <3>2, <3>a
  <2>7. CASE t > Newest(stored)
    <3>1. \A u \in stored' : u <= t
      BY <2>1, <2>4, <2>6, <2>7
    <3>2. Newest(stored') = t
      BY <2>1, <2>3, <2>6, <3>1
    <3>3. cache' # t
      BY <1>0, <2>1, <2>6
    <3> QED BY <2>2, <3>2, <3>3 DEF NothingUnannounced
  <2>8. CASE ~(t > Newest(stored))
    <3>1. stored # {} /\ t <= Newest(stored)
      BY <2>5, <2>6, <2>8
    <3>2. Newest(stored') = Newest(stored)
      BY <2>1, <2>3, <2>4, <2>6, <3>1
    <3>3. \A v \in Workers : Carried(v) => Carried(v)'
      BY <2>1, <2>2, <3>2
    <3> QED BY <1>a, <2>1, <2>8, <3>3
  <2> QED BY <2>7, <2>8
<1>2. ASSUME NEW w \in Workers, worker[w].pc = "persisted",
             UNCHANGED cache \/ set_if_newer(worker[w].sample),
             UNCHANGED << stored, fate >>, NEW b \in BOOLEAN, Publish(w, b),
             worker[w].sample = Newest(stored) /\ cache # Newest(stored) => b
      PROVE  NothingUnannounced'
  <2>1. /\ \A v \in Workers \ {w} : worker'[v] = worker[v]
        /\ b => worker'[w] = [worker[w] EXCEPT !.pc = "latest"]
        /\ worker[w] \in Works /\ worker[w].sample \in stored
    BY <1>b, <1>2, Publishing DEF DataInv
  <2>2. b => worker'[w].pc = "latest" /\ worker'[w].sample = worker[w].sample
    BY <2>1 DEF Works
  <2>3. CASE worker[w].sample = Newest(stored) /\ b
    BY <1>2, <2>2, <2>3 DEF NothingUnannounced
  <2>4. CASE worker[w].sample = Newest(stored) /\ ~b
    <3>1. cache = Newest(stored)
      BY <1>2, <2>4
    <3>2. cache' = cache
      BY <1>0, <1>2, <2>1, <2>4, <3>1 DEF set_if_newer
    <3>3. \A v \in Workers : Carried(v) => Carried(v)'
      BY <1>2, <2>1, <3>1, <3>2
    <3> QED BY <1>a, <1>2, <3>3
  <2>5. CASE worker[w].sample # Newest(stored)
    <3>1. cache' = Newest(stored) => cache = Newest(stored)
      BY <1>2, <2>5 DEF set_if_newer
    <3>2. \A v \in Workers : Carried(v) => Carried(v)'
      BY <1>2, <2>1, <2>5, <3>1
    <3> QED BY <1>a, <1>2, <3>2
  <2> QED BY <1>2, <2>3, <2>4, <2>5
<1>3. ASSUME NEW w \in Workers, CacheWrite(w) PROVE NothingUnannounced'
  <2>1. worker[w].sample \in stored
    BY <1>3 DEF CacheWrite, DataInv
  <2>2. stored # {} /\ \A u \in stored : u <= Newest(stored)
    BY <1>0, <2>1, NewestIsGreatest
  <2>3. worker[w].sample = Newest(stored) /\ cache # Newest(stored) => cache' # cache
    <3>1. cache = 0 \/ cache <= Newest(stored)
      BY <1>0, <2>2
    <3>2. worker[w].sample \in Nat /\ worker[w].sample # 0 /\ cache \in Nat
      <4>1. \A u \in stored : u \in Nat /\ u # 0
        BY <1>0
      <4>2. cache \in Nat
        BY <1>0, <4>1
      <4> QED BY <2>1, <4>1, <4>2
    <3> SUFFICES ASSUME worker[w].sample = Newest(stored), cache # Newest(stored)
                 PROVE  cache' # cache
      OBVIOUS
    <3>3. ~(cache >= worker[w].sample)
      BY <3>1, <3>2
    <3>4. cache' = worker[w].sample
      BY <1>3, <3>3 DEF CacheWrite, set_if_newer
    <3> QED BY <3>4
  <2> QED BY <1>2, <1>3, <2>3 DEF CacheWrite
<1>4. ASSUME NEW w \in Workers, CacheFails(w) PROVE NothingUnannounced'
  BY <1>2, <1>4 DEF CacheFails
<1>5. ASSUME NEW w \in Workers, Announce(w) PROVE NothingUnannounced'
  <2>1. UNCHANGED << stored, cache >> /\ fate' = IF worker[w].sample = Newest(stored) THEN "announced" ELSE fate
    BY <1>5 DEF Announce, broadcast
  <2>2. \A v \in Workers \ {w} : worker'[v] = worker[v]
    BY <1>5, <1>b DEF Announce, handle
  <2>3. CASE worker[w].sample = Newest(stored)
    BY <2>1, <2>3 DEF NothingUnannounced
  <2>4. CASE worker[w].sample # Newest(stored)
    <3>1. \A v \in Workers : Carried(v) => Carried(v)'
      BY <2>1, <2>2, <2>4
    <3> QED BY <1>a, <2>1, <2>4, <3>1
  <2> QED BY <2>3, <2>4
<1>6. ASSUME NEW w \in Workers, Diagnose(w) \/ DiagnoseLost(w) PROVE NothingUnannounced'
  <2>1. \A v \in Workers : Carried(v) => Carried(v)'
    BY <1>b, <1>6 DEF Diagnose, DiagnoseLost, live
  <2> QED BY <1>a, <1>6, <2>1 DEF Diagnose, DiagnoseLost, live
<1>7. ASSUME NEW w \in Workers, Abandon(w) PROVE NothingUnannounced'
  <2>1. /\ UNCHANGED << stored, cache >>
        /\ fate' = IF worker[w].sample = Newest(stored) /\ fate = "pending" THEN "cut" ELSE fate
        /\ \A v \in Workers \ {w} : worker'[v] = worker[v]
    BY <1>7, <1>b DEF Abandon
  <2>2. CASE worker[w].sample = Newest(stored)
    BY <2>1, <2>2 DEF NothingUnannounced
  <2>3. CASE worker[w].sample # Newest(stored)
    <3>1. \A v \in Workers : Carried(v) => Carried(v)'
      BY <2>1, <2>3
    <3> QED BY <1>a, <2>1, <2>3, <3>1
  <2> QED BY <2>2, <2>3
<1>8. ASSUME NEW r \in Readers, LatestMiss(r) PROVE NothingUnannounced'
  BY <1>a, <1>8 DEF LatestMiss
<1>9. ASSUME NEW r \in Readers, LatestRebuild(r) PROVE NothingUnannounced'
  <2>1. CASE UNCHANGED << cache, fate >>
    BY <1>a, <1>9, <2>1 DEF LatestRebuild
  <2>2. CASE fate' = IF cache' = Newest(stored) /\ fate = "pending" THEN "rebuilt" ELSE fate
    <3>1. CASE cache' = Newest(stored)
      BY <2>2, <3>1 DEF NothingUnannounced
    <3>2. CASE cache' # Newest(stored)
      BY <1>a, <1>9, <2>2, <3>2 DEF LatestRebuild
    <3> QED BY <3>1, <3>2
  <2> QED BY <1>9, <2>1, <2>2 DEF LatestRebuild
<1>10. ASSUME NEW c \in Clients, Connect(c) \/ Send(c) \/ Disconnect(c) PROVE NothingUnannounced'
  BY <1>a, <1>10 DEF Connect, Send, Disconnect
<1>11. ASSUME RedisForgets PROVE NothingUnannounced'
  <2>1. stored # {} /\ Newest(stored) \in stored
    BY <1>0, <1>11, NewestIsGreatest DEF RedisForgets
  <2>2. \A v \in Workers : Carried(v) => Carried(v)'
    BY <1>0, <1>11, <2>1 DEF RedisForgets
  <2> QED BY <1>a, <1>11, <2>2 DEF RedisForgets
<1>12. ASSUME Restart PROVE NothingUnannounced'
  BY <1>12 DEF Restart, NothingUnannounced
<1>13. CASE UNCHANGED vars
  BY <1>a, <1>13 DEF vars
<1> QED BY <1>1, <1>3, <1>4, <1>5, <1>6, <1>7, <1>8, <1>9, <1>10, <1>11, <1>12, <1>13 DEF Next, WorkerStep

-----------------------------------------------------------------------------
(* The clients                                                              *)

\* A queue that takes a value in stays within its size and ends with that value.
LEMMA Offering ==
  ASSUME NEW S, NEW queue \in Seq(S), Len(queue) <= QueueSize, NEW t \in S
  PROVE  /\ Offer(queue, t) \in Seq(S) /\ Len(Offer(queue, t)) <= QueueSize
         /\ Offer(queue, t) # << >> /\ Last(Offer(queue, t)) = t
PROOF
<1> DEFINE kept == IF Len(queue) = QueueSize THEN Tail(queue) ELSE queue
<1>1. QueueSize \in Nat \ {0} /\ Len(queue) \in Nat
  BY SizeAssumption, LenProperties
<1>2. Len(queue) = QueueSize => queue # << >>
  BY <1>1, EmptySeq
<1>3. kept \in Seq(S) /\ Len(kept) + 1 <= QueueSize
  BY <1>1, <1>2, Dropping
<1>4. Offer(queue, t) = Append(kept, t)
  BY DEF Offer
<1> HIDE DEF kept
<1> QED BY <1>3, <1>4, Appending

\* Queues stay bounded, and a client has or will be sent next what was broadcast last.
LEMMA ClientStep ==
  ASSUME DataInv, ClientInv, ClientsCatchUp, [Next]_vars
  PROVE  ClientInv' /\ ClientsCatchUp'
PROOF
<1> DEFINE Subscriptions == [on : BOOLEAN, queue : Seq(stored), seen : stored \cup {0}]
           Good(x, l) == /\ Len(x.queue) <= QueueSize
                         /\ ~x.on => x.queue = << >> /\ x.seen = 0
                         /\ x.queue # << >> => Last(x.queue) = l
                         /\ x.queue = << >> /\ x.seen # 0 => x.seen = l
<1>0. /\ client \in [Clients -> Subscriptions]
      /\ \A c \in Clients : client[c] \in Subscriptions /\ Good(client[c], last)
  BY DEF ClientInv, ClientsCatchUp
<1>a. NoClient \in Subscriptions /\ Good(NoClient, last)
  <2>1. << >> \in Seq(stored) /\ Len(<< >>) = 0 /\ QueueSize \in Nat
    BY EmptySeq, SizeAssumption
  <2> QED BY <2>1 DEF NoClient
<1>b. ASSUME UNCHANGED stored,
             client' \in [Clients -> Subscriptions], \A c \in Clients : Good(client'[c], last')
      PROVE  ClientInv' /\ ClientsCatchUp'
  BY <1>b DEF ClientInv, ClientsCatchUp
<1>c. ASSUME UNCHANGED << stored, client, last >> PROVE ClientInv' /\ ClientsCatchUp'
  BY <1>0, <1>b, <1>c
<1>d. ASSUME UNCHANGED << stored, last >>, NEW c \in Clients, NEW x \in Subscriptions, Good(x, last),
             client' = [client EXCEPT ![c] = x]
      PROVE  ClientInv' /\ ClientsCatchUp'
  <2>1. client' \in [Clients -> Subscriptions] /\ \A k \in Clients : client'[k] = IF k = c THEN x ELSE client[k]
    BY <1>0, <1>d
  <2>2. \A k \in Clients : Good(client'[k], last')
    <3>1. ASSUME NEW k \in Clients PROVE Good(client'[k], last')
      <4>1. CASE k = c
        <5>1. client'[k] = x
          BY <2>1, <4>1
        <5> QED BY <5>1, <1>d
      <4>2. CASE k # c
        <5>1. client'[k] = client[k]
          BY <2>1, <4>2
        <5> QED BY <5>1, <1>0, <1>d
      <4> QED BY <4>1, <4>2
    <3> QED BY <3>1
  <2> QED BY <1>b, <1>d, <2>1, <2>2
<1>1. ASSUME NEW w \in Workers, NEW t \in Times, Persist(w, t) PROVE ClientInv' /\ ClientsCatchUp'
  <2>1. UNCHANGED << client, last >> /\ stored \subseteq stored'
    BY <1>1 DEF Persist, live
  <2>2. \A c \in Clients : client[c].queue \in Seq(stored')
    BY <1>0, <2>1, SeqMonotonic
  <2>3. client' \in [Clients -> [on : BOOLEAN, queue : Seq(stored'), seen : stored' \cup {0}]]
    BY <1>0, <2>1, <2>2
  <2> QED BY <2>1, <2>3, <1>0 DEF ClientInv, ClientsCatchUp
<1>2. ASSUME NEW w \in Workers, CacheWrite(w) \/ CacheFails(w) \/ Abandon(w) \/ Diagnose(w) \/ DiagnoseLost(w)
      PROVE  UNCHANGED << stored, client, last >>
  BY <1>2 DEF CacheWrite, CacheFails, Abandon, Diagnose, DiagnoseLost, live
<1>3. ASSUME NEW w \in Workers, Announce(w) PROVE ClientInv' /\ ClientsCatchUp'
  <2> DEFINE t == worker[w].sample
             Told(x) == IF x.on THEN [x EXCEPT !.queue = Offer(@, t)] ELSE x
  <2>1. t \in stored
    BY <1>3 DEF Announce, DataInv
  <2>2. last' = t /\ client' = [c \in Clients |-> Told(client[c])] /\ UNCHANGED stored
    BY <1>3 DEF Announce, broadcast
  <2> HIDE DEF t
  <2>3. ASSUME NEW x \in Subscriptions, Good(x, last)
        PROVE  Told(x) \in Subscriptions /\ Good(Told(x), t)
    <3>1. CASE x.on
      <4>1. /\ Offer(x.queue, t) \in Seq(stored) /\ Len(Offer(x.queue, t)) <= QueueSize
            /\ Offer(x.queue, t) # << >> /\ Last(Offer(x.queue, t)) = t
        BY <2>1, <2>3, Offering
      <4> QED BY <3>1, <4>1
    <3>2. CASE ~x.on
      BY <2>3, <3>2
    <3> QED BY <3>1, <3>2
  <2>4. /\ client' \in [Clients -> Subscriptions]
        /\ \A c \in Clients : client'[c] = Told(client[c])
    BY <1>0, <2>2, <2>3
  <2> QED BY <1>0, <1>b, <2>2, <2>3, <2>4
<1>4. ASSUME NEW r \in Readers, LatestMiss(r) \/ LatestRebuild(r) PROVE UNCHANGED << stored, client, last >>
  BY <1>4 DEF LatestMiss, LatestRebuild, live
<1>5. ASSUME NEW c \in Clients, Connect(c) PROVE ClientInv' /\ ClientsCatchUp'
  <2> DEFINE x == [client[c] EXCEPT !.on = TRUE]
  <2>1. x \in Subscriptions /\ Good(x, last)
    BY <1>0
  <2>2. client' = [client EXCEPT ![c] = x] /\ UNCHANGED << stored, last >>
    BY <1>5, <1>0 DEF Connect
  <2> QED BY <1>d, <2>1, <2>2
<1>6. ASSUME NEW c \in Clients, Send(c) PROVE ClientInv' /\ ClientsCatchUp'
  <2> DEFINE q == client[c].queue
             x == [client[c] EXCEPT !.seen = Head(q), !.queue = Tail(q)]
  <2>1. q \in Seq(stored) /\ q # << >> /\ Last(q) = last /\ client[c].on
    BY <1>0, <1>6 DEF Send
  <2>2. /\ Head(q) \in stored
        /\ Tail(q) \in Seq(stored) /\ Len(Tail(q)) = Len(q) - 1 /\ Len(q) \in Nat \ {0}
        /\ Tail(q) = << >> => Head(q) = Last(q)
        /\ Tail(q) # << >> => Last(Tail(q)) = Last(q)
    BY <2>1, Dropping
  <2>3. client' = [client EXCEPT ![c] = x] /\ UNCHANGED << stored, last >>
    BY <1>6, <1>0 DEF Send
  <2>4. Len(q) <= QueueSize /\ QueueSize \in Nat
    BY <1>0, SizeAssumption
  <2>5. client[c] \in Subscriptions
    BY <1>0
  <2> HIDE DEF q
  <2>6. x \in Subscriptions /\ x.seen = Head(q) /\ x.queue = Tail(q) /\ x.on
    BY <2>1, <2>2, <2>5
  <2>7. Len(Tail(q)) <= QueueSize
    BY <2>2, <2>4
  <2>8. Good(x, last)
    BY <2>1, <2>2, <2>6, <2>7
  <2> QED BY <1>d, <2>3, <2>6, <2>8
<1>7. ASSUME NEW c \in Clients, Disconnect(c) PROVE ClientInv' /\ ClientsCatchUp'
  BY <1>a, <1>d, <1>7 DEF Disconnect
<1>8. ASSUME RedisForgets PROVE UNCHANGED << stored, client, last >>
  BY <1>8 DEF RedisForgets, live
<1>9. ASSUME Restart PROVE ClientInv' /\ ClientsCatchUp'
  BY <1>a, <1>b, <1>9 DEF Restart
<1>10. CASE UNCHANGED vars
  BY <1>c, <1>10 DEF vars
<1> QED BY <1>c, <1>1, <1>2, <1>3, <1>4, <1>5, <1>6, <1>7, <1>8, <1>9, <1>10 DEF Next, WorkerStep

-----------------------------------------------------------------------------
(* The window and the diagnoses                                             *)

\* A window that is read back from the table is in order and within its size, is empty only
\* when the table is, and ends with the newest row.
LEMMA WarmUp ==
  ASSUME DataInv, NEW b \in recent_window
  PROVE  /\ b \in Seq(stored) /\ Len(b) <= window_size /\ Increasing(b)
         /\ stored # {} => b # << >> /\ \A t \in stored : t <= Last(b)
PROOF
<1> DEFINE n == Cardinality(recent)
           Newer(t) == { u \in stored : u > t }
<1>0. stored \subseteq Times /\ Times \subseteq Nat /\ window_size \in Nat /\ window_size >= 2
  BY SizeAssumption DEF DataInv, Times
<1>1. recent \subseteq stored /\ IsFiniteSet(recent) /\ n \in Nat
  BY <1>0, CountTimes DEF recent
<1>2. b \in [1 .. n -> recent] /\ Increasing(b)
  BY DEF recent_window
<1>3. b \in [1 .. n -> stored]
  BY <1>1, <1>2
<1>4. b \in Seq(stored) /\ Len(b) = n
  <2>1. b \in Seq(stored)
    BY <1>1, <1>3, SeqDef
  <2>2. DOMAIN b = 1 .. n /\ DOMAIN b = 1 .. Len(b) /\ Len(b) \in Nat
    BY <1>3, <2>1, LenProperties
  <2> QED BY <1>1, <2>1, <2>2
<1>5. n <= window_size
  <2>1. CASE recent = {}
    BY <1>0, <2>1, FS_EmptySet
  <2>2. CASE recent # {}
    <3>1. PICK m \in recent : \A t \in recent : m <= t
      BY <1>0, <1>1, <2>2, LeastExists
    <3>2. recent \ {m} \subseteq Newer(m)
      BY <1>0, <1>1, <3>1
    <3>3. Cardinality(Newer(m)) < window_size
      BY <3>1 DEF recent
    <3>4. Cardinality(recent \ {m}) = n - 1
      BY <1>1, <3>1, FS_RemoveElement
    <3>5. Cardinality(recent \ {m}) <= Cardinality(Newer(m)) /\ Cardinality(Newer(m)) \in Nat
      BY <1>0, <3>2, CountTimes
    <3> QED BY <1>0, <1>1, <3>3, <3>4, <3>5
  <2> QED BY <2>1, <2>2
<1>6. ASSUME stored # {} PROVE b # << >> /\ \A t \in stored : t <= Last(b)
  <2>1. PICK m \in stored : \A t \in stored : t <= m
    BY <1>0, <1>6, GreatestExists
  <2>2. m \in recent
    <3>0. \A u \in stored : ~(u > m)
      <4>1. ASSUME NEW u \in stored PROVE ~(u > m)
        <5>1. u <= m /\ u \in Nat /\ m \in Nat
          BY <1>0, <2>1
        <5> QED BY <5>1
      <4> QED BY <4>1
    <3>1. Newer(m) = {}
      BY <3>0
    <3>2. Cardinality(Newer(m)) < window_size
      BY <1>0, <3>1, FS_EmptySet
    <3> QED BY <3>2 DEF recent
  <2>3. n # 0
    BY <1>1, <2>2, FS_EmptySet
  <2>4. b \in Injection(1 .. n, recent)
    <3>1. ASSUME NEW i \in 1 .. n, NEW j \in 1 .. n, b[i] = b[j] PROVE i = j
      <4>1. b[i] \in Nat /\ DOMAIN b = 1 .. n
        BY <1>0, <1>3
      <4>2. ~(i < j) /\ ~(j < i)
        BY <1>2, <3>1, <4>1 DEF Increasing
      <4> QED BY <1>1, <4>2
    <3> QED BY <1>2, <3>1 DEF Injection, IsInjective
  <2>5. Cardinality(1 .. n) = n
    BY <1>1, <2>3, FS_Interval
  <2>6. b \in Surjection(1 .. n, recent)
    BY <1>1, <2>4, <2>5, FS_Injection
  <2>7. PICK i \in 1 .. n : b[i] = m
    BY <2>2, <2>6 DEF Surjection
  <2>8. n \in 1 .. n /\ b[n] \in Nat /\ m \in Nat /\ DOMAIN b = 1 .. n
    <3>1. n \in 1 .. n
      BY <1>1, <2>3
    <3>2. b[n] \in stored /\ DOMAIN b = 1 .. n
      BY <1>3, <3>1
    <3> QED BY <1>0, <3>1, <3>2
  <2>9. m <= b[n]
    BY <1>1, <1>2, <2>7, <2>8 DEF Increasing
  <2>10. b # << >>
    BY <1>4, <2>3, EmptySeq
  <2> QED BY <1>0, <1>4, <2>1, <2>8, <2>9, <2>10 DEF Last
<1> QED BY <1>2, <1>4, <1>5, <1>6

\* The window stays in order, within its size and in the table.
LEMMA BufferStep ==
  ASSUME DataInv, BufferInv, [Next]_vars
  PROVE  BufferInv'
PROOF
<1>0. stride \in Nat \ {0}
  BY SizeAssumption
<1>a. ASSUME UNCHANGED << stored, buffer, samples_since_inference >> PROVE BufferInv'
  BY <1>a DEF BufferInv
<1>1. ASSUME NEW w \in Workers, NEW t \in Times, Persist(w, t) PROVE BufferInv'
  <2>1. stored \subseteq stored' /\ UNCHANGED << buffer, samples_since_inference >>
    BY <1>1 DEF Persist, live
  <2>2. buffer \in Seq(stored')
    BY <2>1, SeqMonotonic DEF BufferInv
  <2> QED BY <2>1, <2>2 DEF BufferInv
<1>2. ASSUME NEW w \in Workers, CacheWrite(w) \/ CacheFails(w) \/ Abandon(w) \/ Diagnose(w) \/ DiagnoseLost(w)
      PROVE  UNCHANGED << stored, buffer, samples_since_inference >>
  BY <1>2 DEF CacheWrite, CacheFails, Abandon, Diagnose, DiagnoseLost, live
<1>3. ASSUME NEW w \in Workers, Announce(w) PROVE BufferInv'
  <2>1. worker[w].sample \in stored /\ UNCHANGED stored
    BY <1>3 DEF Announce, DataInv
  <2>2. CASE ~Fresh(worker[w].sample)
    BY <1>a, <1>3, <2>1, <2>2 DEF Announce, handle
  <2>3. CASE Fresh(worker[w].sample)
    <3> DEFINE b == Push(worker[w].sample)
    <3>1. b \in Seq(stored) /\ Len(b) <= window_size /\ Increasing(b)
      BY <2>1, <2>3, Pushing
    <3>2. /\ buffer' = b
          /\ \/ samples_since_inference' = 0
             \/ samples_since_inference' = IF samples_since_inference + 1 > stride THEN stride
                                           ELSE samples_since_inference + 1
      BY <1>3, <2>3 DEF Announce, handle
    <3>3. samples_since_inference' \in 0 .. stride
      BY <1>0, <3>2 DEF BufferInv
    <3> HIDE DEF b
    <3> QED BY <2>1, <3>1, <3>2, <3>3 DEF BufferInv, Increasing
  <2> QED BY <2>2, <2>3
<1>4. ASSUME NEW r \in Readers, LatestMiss(r) \/ LatestRebuild(r)
      PROVE  UNCHANGED << stored, buffer, samples_since_inference >>
  BY <1>4 DEF LatestMiss, LatestRebuild, live
<1>5. ASSUME NEW c \in Clients, Connect(c) \/ Send(c) \/ Disconnect(c)
      PROVE  UNCHANGED << stored, buffer, samples_since_inference >>
  BY <1>5 DEF Connect, Send, Disconnect
<1>6. ASSUME RedisForgets PROVE UNCHANGED << stored, buffer, samples_since_inference >>
  BY <1>6 DEF RedisForgets, live
<1>7. ASSUME Restart PROVE BufferInv'
  <2>1. buffer' \in recent_window /\ samples_since_inference' = 0 /\ UNCHANGED stored
    BY <1>7 DEF Restart
  <2>2. PICK b \in recent_window : buffer' = b
    BY <2>1
  <2>3. b \in Seq(stored) /\ Len(b) <= window_size /\ Increasing(b)
    BY WarmUp
  <2> QED BY <1>0, <2>1, <2>2, <2>3 DEF BufferInv, Increasing
<1>8. CASE UNCHANGED vars
  BY <1>a, <1>8 DEF vars
<1> QED BY <1>a, <1>1, <1>2, <1>3, <1>4, <1>5, <1>6, <1>7, <1>8 DEF Next, WorkerStep

\* More samples are stored between two ends than there were, also when they are compared
\* with a later one.
LEMMA BetweenGrows ==
  ASSUME DataInv, NEW t \in Times, NEW u \in Times, NEW S \in SUBSET Times, stored \subseteq S
  PROVE  /\ Cardinality(Between(t, u)) \in Nat
         /\ Cardinality(Between(t, u)) <= Cardinality({ s \in S : t < s /\ s <= u })
PROOF
<1>1. Between(t, u) \subseteq { s \in S : t < s /\ s <= u }
  BY DEF Between
<1> QED BY <1>1, CountTimes

\* A sample behind the end of the window is one more.
LEMMA BetweenAdds ==
  ASSUME DataInv, NEW t \in Times, NEW u \in Times, t <= u, NEW v \in stored, u < v
  PROVE  Cardinality(Between(t, v)) >= Cardinality(Between(t, u)) + 1
PROOF
<1>0. stored \subseteq Times /\ Times \subseteq Nat
  BY DEF DataInv, Times
<1>1. Between(t, u) \cup {v} \subseteq Between(t, v) /\ v \notin Between(t, u) /\ Between(t, v) \subseteq Times
  <2>1. t \in Nat /\ u \in Nat /\ v \in Nat
    BY <1>0
  <2>2. ASSUME NEW s \in Between(t, u) PROVE s \in Between(t, v) /\ s # v
    <3>1. s \in stored /\ s \in Nat /\ t < s /\ s <= u
      BY <1>0 DEF Between
    <3>2. s < v
      BY <2>1, <3>1
    <3> QED BY <2>1, <3>1, <3>2 DEF Between
  <2>3. v \in Between(t, v)
    <3>1. t < v
      BY <2>1
    <3> QED BY <2>1, <3>1 DEF Between
  <2>4. Between(t, v) \subseteq Times
    BY <1>0 DEF Between
  <2> QED BY <2>2, <2>3, <2>4
<1>2. /\ IsFiniteSet(Between(t, u)) /\ Cardinality(Between(t, u)) \in Nat
      /\ Cardinality(Between(t, u) \cup {v}) <= Cardinality(Between(t, v))
      /\ Cardinality(Between(t, v)) \in Nat
  BY <1>1, CountTimes
<1>3. Cardinality(Between(t, u) \cup {v}) = Cardinality(Between(t, u)) + 1
  BY <1>1, <1>2, FS_AddElement
<1> QED BY <1>2, <1>3

\* When an ingestion ends, no window is newly in inference.
LEMMA EndsShrink ==
  ASSUME OnceInv, DataInv, UNCHANGED diagnosis,
         \A w \in Workers : Inferring(w)' => Inferring(w) /\ UNCHANGED worker[w]
  PROVE  OnceInv' /\ Ends' \subseteq Ends
PROOF
<1>1. \A w \in Workers : Inferring(w)' => Inferring(w) /\ End(w)' = End(w)
  BY DEF End, Last
<1>2. OnceInv'
  BY <1>1 DEF OnceInv
<1>3. Ends' \subseteq Ends
  BY <1>1 DEF Ends
<1> QED BY <1>2, <1>3

\* As long as the window and its counter are left alone, and no window is newly in inference,
\* the spacing is kept.
LEMMA SpaceKept ==
  ASSUME DataInv, BufferInv, SpaceInv, Ends' \subseteq Ends, stored \subseteq stored', stored' \subseteq Times,
         UNCHANGED << buffer, samples_since_inference >>
  PROVE  SpaceInv'
PROOF
<1>0. stored \subseteq Times
  BY DEF DataInv
<1>1. ASSUME NEW t \in stored, NEW u \in stored
      PROVE  /\ Cardinality(Between(t, u)) \in Nat
             /\ Cardinality(Between(t, u)) <= Cardinality(Between(t, u)') /\ Cardinality(Between(t, u)') \in Nat
  <2>1. Between(t, u)' = { s \in stored' : t < s /\ s <= u }
    BY DEF Between
  <2>2. { s \in stored' : t < s /\ s <= u } \subseteq Times
    OBVIOUS
  <2> QED BY <1>0, <2>1, <2>2, BetweenGrows, CountTimes
<1>2. ASSUME NEW t \in Ends'
      PROVE  /\ t \in stored' /\ buffer' # << >> /\ t <= Last(buffer')
             /\ samples_since_inference' <= Cardinality(Between(t, Last(buffer))')
  <2>1. /\ t \in stored /\ buffer # << >> /\ t <= Last(buffer)
        /\ samples_since_inference <= Cardinality(Between(t, Last(buffer)))
    BY DEF SpaceInv
  <2>2. Last(buffer) \in stored
    BY <2>1, Dropping DEF BufferInv
  <2>3. samples_since_inference \in Int
    BY SizeAssumption DEF BufferInv
  <2>4. /\ Cardinality(Between(t, Last(buffer))) \in Nat
        /\ Cardinality(Between(t, Last(buffer))) <= Cardinality(Between(t, Last(buffer))')
        /\ Cardinality(Between(t, Last(buffer))') \in Nat
    BY <2>1, <2>2, <1>1
  <2> QED BY <2>1, <2>3, <2>4
<1>3. ASSUME NEW t \in Ends', NEW u \in Ends', t < u PROVE stride <= Cardinality(Between(t, u)')
  <2>1. t \in stored /\ u \in stored /\ stride <= Cardinality(Between(t, u))
    BY <1>3 DEF SpaceInv
  <2> QED BY <2>1, <1>1, SizeAssumption
<1> QED BY <1>2, <1>3 DEF SpaceInv

\* A sample that the window takes in lies behind all ends, and behind each of them there is
\* one sample more than the counter has seen.
LEMMA EndsBefore ==
  ASSUME DataInv, BufferInv, SpaceInv, NEW t \in stored, Fresh(t), NEW e \in Ends
  PROVE  /\ e \in stored /\ e < t
         /\ Cardinality(Between(e, t)) \in Nat
         /\ samples_since_inference + 1 <= Cardinality(Between(e, t))
PROOF
<1>0. stored \subseteq Times /\ Times \subseteq Nat /\ samples_since_inference \in Nat
  BY SizeAssumption DEF DataInv, BufferInv, Times
<1>1. /\ e \in stored /\ buffer # << >> /\ e <= Last(buffer)
      /\ samples_since_inference <= Cardinality(Between(e, Last(buffer)))
  BY DEF SpaceInv
<1>2. Last(buffer) \in stored /\ Last(buffer) < t
  <2>1. Last(buffer) \in stored
    BY <1>1, Dropping DEF BufferInv
  <2>2. t > Last(buffer)
    BY <1>1 DEF Fresh
  <2> QED BY <1>0, <2>1, <2>2
<1>3. e \in Nat /\ Last(buffer) \in Nat /\ t \in Nat
  BY <1>0, <1>1, <1>2
<1>4. Cardinality(Between(e, t)) >= Cardinality(Between(e, Last(buffer))) + 1
  BY <1>0, <1>1, <1>2, BetweenAdds
<1>5. Cardinality(Between(e, t)) \in Nat /\ Cardinality(Between(e, Last(buffer))) \in Nat
  BY <1>0, <1>1, <1>2, BetweenGrows
<1> QED BY <1>0, <1>1, <1>2, <1>3, <1>4, <1>5

\* No sample ends two diagnosed windows, and the stride lies between them.
LEMMA DiagnosisStep ==
  ASSUME DataInv, BufferInv, OnceInv, SpaceInv, [Next]_vars
  PROVE  OnceInv' /\ SpaceInv'
PROOF
<1>0. /\ stored \subseteq Times /\ worker \in [Workers -> Works] /\ stride \in Nat
      /\ NoWork.pc = "idle" /\ samples_since_inference \in Nat
  BY SizeAssumption DEF DataInv, BufferInv, NoWork
<1>c. stored \subseteq Nat
  BY <1>0 DEF Times
<1>a. ASSUME stored \subseteq stored', stored' \subseteq Times, UNCHANGED << buffer, samples_since_inference, diagnosis >>,
             \A v \in Workers : Inferring(v)' => Inferring(v) /\ UNCHANGED worker[v]
      PROVE  OnceInv' /\ SpaceInv'
  <2>1. OnceInv' /\ Ends' \subseteq Ends
    BY <1>a, EndsShrink
  <2> QED BY <1>a, <2>1, SpaceKept
<1>b. ASSUME NEW w \in Workers, worker' = [worker EXCEPT ![w] = NoWork]
      PROVE  \A v \in Workers : Inferring(v)' => Inferring(v) /\ UNCHANGED worker[v]
  BY <1>0, <1>b DEF Inferring
<1>1. ASSUME NEW w \in Workers, NEW t \in Times, Persist(w, t) PROVE OnceInv' /\ SpaceInv'
  <2>1. /\ stored' = stored \cup {t} /\ UNCHANGED << buffer, samples_since_inference, diagnosis >>
        /\ worker' = [worker EXCEPT ![w] = [NoWork EXCEPT !.pc = "persisted", !.sample = t]]
    BY <1>1 DEF Persist, live
  <2>2. \A v \in Workers : Inferring(v)' => Inferring(v) /\ UNCHANGED worker[v]
    BY <1>0, <2>1 DEF Inferring, NoWork
  <2> QED BY <1>0, <1>a, <2>1, <2>2
<1>2. ASSUME NEW w \in Workers, CacheWrite(w) \/ CacheFails(w) PROVE OnceInv' /\ SpaceInv'
  <2>1. /\ UNCHANGED << stored, buffer, samples_since_inference, diagnosis >>
        /\ worker[w].pc = "persisted"
        /\ \E b \in BOOLEAN : Publish(w, b)
    BY <1>2 DEF CacheWrite, CacheFails, live
  <2>2. \A v \in Workers : Inferring(v)' => Inferring(v) /\ UNCHANGED worker[v]
    <3>1. /\ \A v \in Workers \ {w} : worker'[v] = worker[v]
          /\ worker'[w] \in { [worker[w] EXCEPT !.pc = "latest"], NoWork }
      BY <2>1, Publishing
    <3>2. worker'[w].pc # "inferring"
      BY <1>0, <3>1 DEF Works
    <3> QED BY <3>1, <3>2 DEF Inferring
  <2> QED BY <1>0, <1>a, <2>1, <2>2
<1>3. ASSUME NEW w \in Workers, Announce(w) PROVE OnceInv' /\ SpaceInv'
  <2> DEFINE t == worker[w].sample
             b == Push(t)
             n == samples_since_inference + 1
  <2>1. t \in stored /\ UNCHANGED << stored, diagnosis >> /\ worker[w].pc = "latest"
    BY <1>3 DEF Announce, DataInv
  <2>2. CASE ~Fresh(t)
    <3>1. UNCHANGED << buffer, samples_since_inference >> /\ worker' = [worker EXCEPT ![w] = NoWork]
      BY <1>3, <2>2 DEF Announce, handle
    <3> QED BY <1>0, <1>a, <1>b, <2>1, <3>1
  <2>3. CASE Fresh(t)
    <3>1. buffer' = b
      BY <1>3, <2>3 DEF Announce, handle
    <3>2. b # << >> /\ Last(b) = t
      BY <2>1, <2>3, Pushing
    <3>3. \A e \in Ends : /\ e \in stored /\ e < t
                          /\ Cardinality(Between(e, t)) \in Nat /\ n <= Cardinality(Between(e, t))
      BY <2>1, <2>3, EndsBefore
    <3>4. \A e, u : Between(e, u)' = { s \in stored : e < s /\ s <= u' }
      BY <2>1 DEF Between
    <3>5. ASSUME NEW e \in Ends
          PROVE  /\ e \in stored' /\ buffer' # << >> /\ e <= Last(buffer')
                 /\ n <= Cardinality({ s \in stored : e < s /\ s <= Last(buffer') })
      <4>1. e \in stored /\ e < t /\ n <= Cardinality(Between(e, t))
        BY <3>3
      <4>2. Last(buffer') = t
        BY <3>1, <3>2
      <4>3. e \in Nat /\ t \in Nat
        BY <1>c, <2>1, <4>1
      <4>4. e <= Last(buffer')
        BY <4>1, <4>2, <4>3
      <4> QED BY <2>1, <3>1, <3>2, <4>1, <4>2, <4>4 DEF Between
    <3>6. CASE ~Due(b, n)
      <4>1. /\ worker' = [worker EXCEPT ![w] = NoWork]
            /\ samples_since_inference' = IF n > stride THEN stride ELSE n
        BY <1>3, <2>3, <3>6 DEF Announce, handle
      <4>2. OnceInv' /\ Ends' \subseteq Ends
        BY <1>b, <2>1, <4>1, EndsShrink
      <4>3. samples_since_inference' <= n /\ samples_since_inference' \in Nat
        BY <1>0, <4>1
      <4>4. ASSUME NEW e \in Ends'
            PROVE  /\ e \in stored' /\ buffer' # << >> /\ e <= Last(buffer')
                   /\ samples_since_inference' <= Cardinality(Between(e, Last(buffer))')
        <5>1. Between(e, Last(buffer))' = { s \in stored : e < s /\ s <= Last(buffer') }
          BY <2>1 DEF Between
        <5>2. Cardinality({ s \in stored : e < s /\ s <= Last(buffer') }) \in Nat
          BY <1>0, CountTimes
        <5> QED BY <1>0, <3>5, <4>2, <4>3, <5>1, <5>2
      <4>5. ASSUME NEW e \in Ends', NEW u \in Ends', e < u PROVE stride <= Cardinality(Between(e, u)')
        BY <2>1, <4>2, <4>5 DEF SpaceInv, Between
      <4> QED BY <4>2, <4>4, <4>5 DEF SpaceInv
    <3>7. CASE Due(b, n)
      <4> DEFINE x == [worker[w] EXCEPT !.pc = "inferring", !.window = b]
      <4>1. worker' = [worker EXCEPT ![w] = x] /\ samples_since_inference' = 0
        BY <1>3, <2>3, <3>7 DEF Announce, handle
      <4>2. worker'[w] = x /\ \A v \in Workers \ {w} : worker'[v] = worker[v]
        BY <1>0, <4>1
      <4>3. x.window = b
        BY <1>0 DEF Works
      <4>4. End(w)' = t /\ Inferring(w)' /\ ~Inferring(w)
        BY <1>0, <2>1, <3>2, <4>2, <4>3 DEF End, Inferring, Last, Works
      <4>5. \A v \in Workers \ {w} : Inferring(v)' = Inferring(v) /\ End(v)' = End(v)
        BY <4>2 DEF End, Inferring, Last
      <4>6. t \notin Ends /\ t \in Times
        <5>1. t \in Nat /\ t \in Times
          BY <1>0, <1>c, <2>1
        <5>2. \A k \in Nat : ~(k < k)
          OBVIOUS
        <5>3. t \in Ends => t < t
          BY <3>3, Zenon
        <5> QED BY <5>1, <5>2, <5>3, Zenon
      <4>7. Ends' \subseteq Ends \cup {t}
        BY <2>1, <4>4, <4>5 DEF Ends
      <4>8. OnceInv'
        <5>1. diagnosis[t] = << >> /\ \A v \in Workers \ {w} : Inferring(v) => End(v) # t
          BY <4>6 DEF Ends
        <5> QED BY <2>1, <4>4, <4>5, <4>6, <5>1 DEF OnceInv
      <4>9. stride <= n
        BY <3>7 DEF Due
      <4>10. t \in Nat /\ Last(buffer') = t /\ \A e \in Ends : e \in Nat
        <5>1. t \in Nat
          BY <1>c, <2>1
        <5>2. \A e \in Ends : e \in Nat
          BY <1>c, <3>3
        <5>3. Last(buffer') = t
          BY <3>1, <3>2
        <5> QED BY <5>1, <5>2, <5>3
      <4>11. ASSUME NEW e \in Ends'
             PROVE  /\ e \in stored' /\ buffer' # << >> /\ e <= Last(buffer')
                    /\ samples_since_inference' <= Cardinality(Between(e, Last(buffer))')
        <5>1. Between(e, Last(buffer))' = { s \in stored : e < s /\ s <= Last(buffer') }
          BY <2>1 DEF Between
        <5>2. Cardinality({ s \in stored : e < s /\ s <= Last(buffer') }) \in Nat
          BY <1>0, CountTimes
        <5>3. e \in stored' /\ e <= Last(buffer')
          <6>1. CASE e \in Ends
            BY <3>5, <6>1
          <6>2. CASE e = t
            <7>1. t <= t
              BY <4>10
            <7>2. t \in stored'
              BY <2>1
            <7> QED BY <6>2, <7>1, <7>2, <4>10
          <6> QED BY <4>7, <6>1, <6>2
        <5>4. buffer' # << >>
          BY <3>1, <3>2
        <5>5. samples_since_inference' <= Cardinality({ s \in stored : e < s /\ s <= Last(buffer') })
          BY <4>1, <5>2
        <5> QED BY <5>1, <5>3, <5>4, <5>5
      <4>12. ASSUME NEW e \in Ends', NEW u \in Ends', e < u PROVE stride <= Cardinality(Between(e, u)')
        <5>0. Between(e, u)' = Between(e, u)
          BY <2>1 DEF Between
        <5>1. CASE e \in Ends /\ u \in Ends
          BY <4>12, <5>0, <5>1 DEF SpaceInv
        <5>2. CASE e \in Ends /\ u = t
          BY <1>0, <3>3, <4>9, <5>0, <5>2
        <5>3. CASE e = t
          <6>1. u <= t
            BY <3>3, <4>7, <4>10
          <6> QED BY <4>7, <4>10, <4>12, <5>3, <6>1
        <5> QED BY <4>7, <5>1, <5>2, <5>3
      <4> QED BY <4>8, <4>11, <4>12 DEF SpaceInv
    <3> QED BY <3>6, <3>7
  <2> QED BY <2>2, <2>3
<1>4. ASSUME NEW w \in Workers, Diagnose(w) PROVE OnceInv' /\ SpaceInv'
  <2>1. PICK status \in { "PREDICTED", "FAILED" } : diagnosis' = [diagnosis EXCEPT ![End(w)] = Append(@, status)]
    BY <1>4 DEF Diagnose, predict, End
  <2>2. /\ worker' = [worker EXCEPT ![w] = NoWork] /\ UNCHANGED << stored, buffer, samples_since_inference >>
        /\ Inferring(w)
    BY <1>4 DEF Diagnose, Inferring
  <2>3. End(w) \in Times /\ diagnosis[End(w)] = << >> /\ diagnosis \in [Times -> Seq({ "PREDICTED", "FAILED" })]
    BY <2>2 DEF OnceInv
  <2> DEFINE d == Append(diagnosis[End(w)], status)
  <2>4. d \in Seq({ "PREDICTED", "FAILED" }) /\ Len(d) = 1 /\ d # << >>
    <3>1. Len(diagnosis[End(w)]) = 0
      BY <2>3, EmptySeq
    <3>2. d \in Seq({ "PREDICTED", "FAILED" }) /\ Len(d) = Len(diagnosis[End(w)]) + 1 /\ d # << >>
      BY <2>3, Appending
    <3> QED BY <3>1, <3>2
  <2>5. diagnosis' = [diagnosis EXCEPT ![End(w)] = d]
    BY <2>1
  <2> HIDE DEF d
  <2>6. /\ diagnosis' \in [Times -> Seq({ "PREDICTED", "FAILED" })]
        /\ \A t \in Times : diagnosis'[t] = IF t = End(w) THEN d ELSE diagnosis[t]
    BY <2>3, <2>4, <2>5
  <2>7. \A v \in Workers : Inferring(v)' => Inferring(v) /\ v # w /\ End(v)' = End(v)
    BY <1>0, <2>2 DEF Inferring, End, Last
  <2>8. OnceInv'
    <3>1. \A t \in Times : Len(diagnosis'[t]) <= 1
      <4>1. ASSUME NEW t \in Times PROVE Len(diagnosis'[t]) <= 1
        <5>1. CASE t = End(w)
          <6>1. diagnosis'[t] = d
            BY <2>6, <5>1
          <6> QED BY <6>1, <2>4
        <5>2. CASE t # End(w)
          <6>1. diagnosis'[t] = diagnosis[t]
            BY <2>6, <5>2
          <6> QED BY <6>1 DEF OnceInv
        <5> QED BY <5>1, <5>2
      <4> QED BY <4>1
    <3>2. ASSUME NEW v \in Workers, Inferring(v)' PROVE End(v)' \in Times /\ diagnosis'[End(v)'] = << >>
      <4>1. Inferring(v) /\ v # w /\ End(v)' = End(v)
        BY <2>7, <3>2
      <4>2. End(v) # End(w) /\ End(v) \in Times /\ diagnosis[End(v)] = << >>
        BY <2>2, <4>1 DEF OnceInv
      <4> QED BY <2>6, <4>1, <4>2
    <3>3. ASSUME NEW u \in Workers, NEW v \in Workers, Inferring(u)', Inferring(v)', End(u)' = End(v)'
          PROVE  u = v
      <4>1. Inferring(u) /\ Inferring(v) /\ End(u) = End(v)
        BY <2>7, <3>3
      <4> QED BY <4>1 DEF OnceInv
    <3> QED BY <2>6, <3>1, <3>2, <3>3 DEF OnceInv
  <2>9. Ends' \subseteq Ends
    <3>1. End(w) \in Ends
      BY <2>2 DEF Ends
    <3> QED BY <2>6, <2>7, <3>1 DEF Ends
  <2> QED BY <1>0, <2>2, <2>8, <2>9, SpaceKept
<1>5. ASSUME NEW w \in Workers, Abandon(w) \/ DiagnoseLost(w) PROVE OnceInv' /\ SpaceInv'
  <2>1. worker' = [worker EXCEPT ![w] = NoWork] /\ UNCHANGED << stored, buffer, samples_since_inference, diagnosis >>
    BY <1>5 DEF Abandon, DiagnoseLost, live
  <2> QED BY <1>0, <1>a, <1>b, <2>1
<1>6. ASSUME NEW r \in Readers, LatestMiss(r) \/ LatestRebuild(r) PROVE OnceInv' /\ SpaceInv'
  <2>1. UNCHANGED << stored, worker, buffer, samples_since_inference, diagnosis >>
    BY <1>6 DEF LatestMiss, LatestRebuild, live
  <2> QED BY <1>0, <1>a, <2>1 DEF Inferring
<1>7. ASSUME NEW c \in Clients, Connect(c) \/ Send(c) \/ Disconnect(c) PROVE OnceInv' /\ SpaceInv'
  <2>1. UNCHANGED << stored, worker, buffer, samples_since_inference, diagnosis >>
    BY <1>7 DEF Connect, Send, Disconnect
  <2> QED BY <1>0, <1>a, <2>1 DEF Inferring
<1>8. ASSUME RedisForgets PROVE OnceInv' /\ SpaceInv'
  <2>1. UNCHANGED << stored, worker, buffer, samples_since_inference, diagnosis >>
    BY <1>8 DEF RedisForgets, live
  <2> QED BY <1>0, <1>a, <2>1 DEF Inferring
<1>9. ASSUME Restart PROVE OnceInv' /\ SpaceInv'
  <2>1. /\ worker' = [v \in Workers |-> NoWork] /\ samples_since_inference' = 0
        /\ UNCHANGED << stored, diagnosis >> /\ buffer' \in recent_window
    BY <1>9 DEF Restart
  <2>2. \A v \in Workers : ~Inferring(v)'
    BY <1>0, <2>1 DEF Inferring
  <2>3. OnceInv' /\ Ends' \subseteq Ends
    BY <2>1, <2>2, EndsShrink
  <2>4. PICK b \in recent_window : buffer' = b
    BY <2>1
  <2>5. stored # {} => b # << >> /\ \A t \in stored : t <= Last(b)
    BY WarmUp
  <2>6. ASSUME NEW e \in Ends'
        PROVE  /\ e \in stored' /\ buffer' # << >> /\ e <= Last(buffer')
               /\ samples_since_inference' <= Cardinality(Between(e, Last(buffer))')
    <3>1. e \in stored
      BY <2>3 DEF SpaceInv
    <3>2. Between(e, Last(buffer))' = { s \in stored : e < s /\ s <= Last(buffer') }
      BY <2>1 DEF Between
    <3>3. Cardinality({ s \in stored : e < s /\ s <= Last(buffer') }) \in Nat
      BY <1>0, CountTimes
    <3> QED BY <2>1, <2>4, <2>5, <3>1, <3>2, <3>3
  <2>7. ASSUME NEW e \in Ends', NEW u \in Ends', e < u PROVE stride <= Cardinality(Between(e, u)')
    BY <2>1, <2>3, <2>7 DEF SpaceInv, Between
  <2> QED BY <2>3, <2>6, <2>7 DEF SpaceInv
<1>10. CASE UNCHANGED vars
  BY <1>0, <1>a, <1>10 DEF vars, Inferring
<1> QED BY <1>1, <1>2, <1>3, <1>4, <1>5, <1>6, <1>7, <1>8, <1>9, <1>10 DEF Next, WorkerStep

-----------------------------------------------------------------------------
(* What the pipeline promises                                               *)

\* The pipeline starts empty.
LEMMA InitInv == Init => TInv /\ NothingUnannounced /\ ClientsCatchUp
PROOF
<1> SUFFICES ASSUME Init PROVE TInv /\ NothingUnannounced /\ ClientsCatchUp
  OBVIOUS
<1>0. \A S : << >> \in Seq(S) /\ Len(<< >>) = 0
  BY EmptySeq
<1>1. QueueSize \in Nat /\ stride \in Nat /\ window_size \in Nat
  BY SizeAssumption
<1>2. NoWork \in Works /\ NoWork.pc = "idle"
  BY <1>0 DEF NoWork, Works
<1>3. DataInv
  BY <1>2 DEF Init, DataInv
<1>4. ClientInv
  <2>1. NoClient \in [on : BOOLEAN, queue : Seq({}), seen : {} \cup {0}]
    BY <1>0 DEF NoClient
  <2>2. client = [c \in Clients |-> NoClient] /\ stored = {}
    BY DEF Init
  <2> QED BY <1>0, <1>1, <2>1, <2>2 DEF ClientInv, NoClient
<1>5. BufferInv
  <2>1. buffer = << >> /\ samples_since_inference = 0
    BY DEF Init
  <2>2. Increasing(<< >>)
    BY DEF Increasing
  <2>3. buffer \in Seq(stored) /\ Len(buffer) = 0
    BY <1>0, <2>1
  <2> QED BY <1>1, <2>1, <2>2, <2>3 DEF BufferInv
<1>6. \A w \in Workers : ~Inferring(w)
  BY <1>2 DEF Init, Inferring
<1>7. diagnosis = [t \in Times |-> << >>]
  BY DEF Init
<1>8. OnceInv
  <2>1. diagnosis \in [Times -> Seq({ "PREDICTED", "FAILED" })]
    BY <1>0, <1>7
  <2>2. \A t \in Times : Len(diagnosis[t]) <= 1
    BY <1>0, <1>7
  <2> QED BY <1>6, <2>1, <2>2 DEF OnceInv
<1>9. SpaceInv
  <2>1. Ends = {}
    BY <1>6, <1>7 DEF Ends
  <2> QED BY <2>1 DEF SpaceInv
<1>10. NothingUnannounced /\ ClientsCatchUp
  BY DEF Init, NothingUnannounced, ClientsCatchUp, NoClient
<1> QED BY <1>3, <1>4, <1>5, <1>8, <1>9, <1>10 DEF TInv

\* The invariant is kept by every step.
LEMMA Invariance == Spec => [](TInv /\ NothingUnannounced /\ ClientsCatchUp)
PROOF
<1>1. Init => TInv /\ NothingUnannounced /\ ClientsCatchUp
  BY InitInv
<1>2. ASSUME TInv, NothingUnannounced, ClientsCatchUp, [Next]_vars
      PROVE  (TInv /\ NothingUnannounced /\ ClientsCatchUp)'
  BY <1>2, DataStep, ClientStep, BufferStep, DiagnosisStep, AnnouncedStep DEF TInv
<1> QED BY <1>1, <1>2, PTL DEF Spec

\* The cache implements the latest-value register: of what is stored it shows one, and only
\* newer values replace it, whichever of overlapping writes, reads that rebuild the cache,
\* and losses of Redis come first (latest.py, the script; telemetry.py, latest).
THEOREM CacheImplementsRegister == Spec => LatestWins
PROOF
<1>1. Init => Register!Init
  BY DEF Init, Register!Init
<1>2. TInv /\ [Next]_vars => [Register!Next]_<< stored, cache >>
  BY RegisterStep DEF TInv
<1>3. Spec => []TInv
  BY Invariance, PTL
<1> QED BY <1>1, <1>2, <1>3, PTL DEF Spec, LatestWins, Register!Spec

\* The newest row that nobody was told of is with an ingestion that will find it the latest value
\* and announce it, unless the ingestion or the process ended first or a read of the latest
\* value cached the row before it (telemetry.py, _publish_latest and latest).
THEOREM LatestIsAnnounced == Spec => []NothingUnannounced
BY Invariance, PTL

\* A client that was sent anything has or will be sent next what was broadcast last, however
\* slow it is (manager.py, broadcast).
THEOREM SlowClientsCatchUp == Spec => []ClientsCatchUp
BY Invariance, PTL

\* The window of the device is in order and within its size, no sample ends two diagnosed
\* windows and at least stride samples lie between two, however many ingestions overlap and
\* whenever the process restarts (diagnosis.py, handle).
THEOREM Spacing == Spec => []DiagnosesSpaced
PROOF
<1>1. ASSUME TInv PROVE DiagnosesSpaced
  <2>1. TypeOK
    BY <1>1 DEF TInv, DataInv, ClientInv, BufferInv, TypeOK
  <2>2. ASSUME NEW t \in Times, diagnosis[t] # << >>
        PROVE  Len(diagnosis[t]) = 1
    <3>1. Len(diagnosis[t]) <= 1 /\ diagnosis[t] \in Seq({ "PREDICTED", "FAILED" })
      BY <1>1 DEF TInv, OnceInv
    <3>2. Len(diagnosis[t]) \in Nat \ {0}
      BY <2>2, <3>1, EmptySeq
    <3>3. \A k \in Nat \ {0} : k <= 1 => k = 1
      OBVIOUS
    <3> QED BY <3>1, <3>2, <3>3, Zenon
  <2>3. ASSUME NEW t \in Times, diagnosis[t] # << >>, NEW u \in Times, u > t, diagnosis[u] # << >>
        PROVE  Cardinality({ s \in stored : t < s /\ s <= u }) >= stride
    <3>1. t \in Ends /\ u \in Ends
      BY <2>3 DEF Ends
    <3>2. t \in Int /\ u \in Int
      BY DEF Times
    <3>3. t < u
      BY <2>3, <3>2
    <3>4. stride <= Cardinality(Between(t, u))
      BY <1>1, <3>1, <3>3 DEF TInv, SpaceInv
    <3>5. Cardinality(Between(t, u)) \in Nat /\ stride \in Nat
      BY <1>1, BetweenGrows, SizeAssumption DEF TInv, DataInv
    <3> QED BY <3>4, <3>5 DEF Between
  <2> QED BY <2>1, <2>2, <2>3 DEF DiagnosesSpaced
<1> QED BY <1>1, Invariance, PTL
=============================================================================
