-------------------------- MODULE KnowledgeRetrieval --------------------------
(***************************************************************************)
(* The knowledge search that precedes a maintenance run: build_query       *)
(* (backend/app/knowledge/query.py) and KnowledgeIndex.search with its     *)
(* default pipeline (backend/app/knowledge/retrieval.py).                  *)
(*                                                                         *)
(* An index is a sequence of chunks.  Of a chunk's text there remains what *)
(* the code computes from it: its BM25 score, how many of the query's      *)
(* tokens it covers, and its dense relevance in percent.                   *)
(***************************************************************************)
EXTENDS Integers, Sequences, FiniteSets

FAULT_TERMS == { "BEARING_WEAR", "OVERLOAD", "OVERHEATING", "MISALIGNMENT", "SENSOR_FAILURE" }

\* A diagnosis without a fault type asks for "UNSUPPORTED".
build_query(fault_type, tokens) ==
  [ equipment_type  |-> "industrial_motor",
    tokens          |-> tokens,
    supported_fault |-> fault_type \in FAULT_TERMS ]

_matches(chunk, query) == chunk.equipment_type = query.equipment_type

\* i comes before j in the ranking.
Before(index, i, j) ==
  index[i].score > index[j].score \/ (index[i].score = index[j].score /\ i < j)

_rank(index, query) ==
  { i \in DOMAIN index : _matches(index[i], query) /\ index[i].score > 0 }

Top(index, query, top_k) ==
  { i \in _rank(index, query) :
      Cardinality({ j \in _rank(index, query) : Before(index, j, i) }) < top_k }

\* _term_coverage >= percent / 100.
Covers(chunk, query, percent) == 100 * chunk.covered >= percent * query.tokens

\* The best coverage and the best dense relevance need not be of one chunk.
top_score_reaches(chunks, query, percent) ==
  \E c, d \in chunks :
    70 * 100 * c.covered + 30 * d.dense * query.tokens >= percent * 100 * query.tokens

\* Every chunk that was ranked matches the filters, so metadata_match holds.
_sufficiency(query, chunks, supporting) ==
  LET reaches(score, coverage, support) ==
        /\ query.supported_fault /\ chunks # {}
        /\ top_score_reaches(chunks, query, score)
        /\ \E c \in chunks : Covers(c, query, coverage)
        /\ supporting >= support
  IN CASE reaches(38, 30, 2) -> "SUFFICIENT"
       [] ~reaches(38, 30, 2) /\ reaches(28, 18, 1) -> "PARTIAL"
       [] OTHER -> "INSUFFICIENT_EVIDENCE"

\* What a run is started with: the evidence is returned whatever its sufficiency.
search(index, query, top_k) ==
  LET top == Top(index, query, top_k) IN
  [ sufficiency |-> _sufficiency(query, { index[i] : i \in top },
                                 Cardinality({ i \in top : Covers(index[i], query, 16) })),
    evidence    |-> { index[i].chunk_id : i \in top } ]

-----------------------------------------------------------------------------
(* Bounded inputs                                                           *)

Chunks(id) ==
  [ chunk_id : { id }, equipment_type : { "industrial_motor", "pump" },
    score : 0 .. 1, covered : { 0, 1, 2, 6 }, dense : { 0, 60, 100 } ]

Indexes == { <<c, d>> : c \in Chunks("c1"), d \in Chunks("c2") }

Queries == { build_query(fault, 6) : fault \in { "OVERLOAD", "UNSUPPORTED" } }

\* A result that is not insufficient gives a plan something to cite: it is about a
\* supported fault, has evidence, no more than was asked for and all of the
\* device's own kind of equipment; and one that is SUFFICIENT has two chunks.
ASSUME SufficientIsGrounded ==
  \A index \in Indexes, query \in Queries, k \in { 1, 2 } :
    LET found == search(index, query, k) IN
    /\ Cardinality(found.evidence) <= k
    /\ found.sufficiency # "INSUFFICIENT_EVIDENCE" =>
         /\ query.supported_fault
         /\ found.evidence # {}
         /\ \A i \in DOMAIN index : index[i].chunk_id \in found.evidence =>
              index[i].equipment_type = query.equipment_type
    /\ found.sufficiency = "SUFFICIENT" => Cardinality(found.evidence) = 2
=============================================================================
