----------------------------- MODULE Retrieval -----------------------------
(***************************************************************************)
(* Retrieval of prior memories for a current observation                  *)
(* (backend/app/memory/retrieval.py, policy.py and the search of           *)
(* memory/repository.py): the database returns the memories of the lab     *)
(* closest to the query, the policy says which of them are current truth,  *)
(* a weighted score reranks them, and the first top_k become the answer.   *)
(* Similarities come from an embedding model, so they may be anything.     *)
(*                                                                         *)
(* Scores are integers: similarities count 1/Scale and every other signal  *)
(* quarters, which the weights 0.55, 0.15, 0.10, 0.10, 0.10 multiply.      *)
(* Rounding of the floating point sum is left out.                         *)
(***************************************************************************)
EXTENDS Integers, FiniteSets

CONSTANTS
    Ids,            \* identifiers of memories, in the order the database compares them
    Stores,         \* the contents the memories table may have
    Contexts,       \* the contexts a caller retrieves with, top_k and candidate_limit included
    Scale,          \* similarities are multiples of 1/Scale
    Similarities,   \* the similarities a query may have with a memory
    None            \* no device, no successor, no end of validity, no outcome

ASSUME IdsAssumption == Ids \subseteq Nat /\ IsFiniteSet(Ids)

\* A cosine similarity is between -1 and 1.
ASSUME SimilarityAssumption ==
    Scale \in Nat \ {0} /\ Similarities \subseteq -Scale .. Scale

Statuses == {"active", "superseded", "expired", "disputed"}

\* A row of the memories table with an outcome joined to it: what the search
\* reads. Confidence counts quarters.
Memories ==
    [status : Statuses, type : STRING, device : STRING \cup {None}, confidence : 0 .. 4,
     validFrom : Nat, validUntil : Nat \cup {None}, supersededBy : Ids \cup {None},
     success : BOOLEAN \cup {None}, embedded : BOOLEAN]

ASSUME StoresAssumption ==
    \A store \in Stores : DOMAIN store \subseteq Ids /\ \A i \in DOMAIN store : store[i] \in Memories

\* retrieve and the service refuse limits below one.
ASSUME ContextsAssumption ==
    \A context \in Contexts :
        /\ context.asOf \in Nat /\ context.types \subseteq STRING /\ context.devices \subseteq STRING
        /\ context.topK \in Nat \ {0} /\ context.candidateLimit \in Nat \ {0}

VARIABLES
    memories,   \* the memories table: a function of identifiers
    query,      \* the running query: its context and the similarities of its vector
    found,      \* the candidates the search returned
    answer      \* the RetrievalResult: ranks, and the evidence eligible for action

vars == <<memories, query, found, answer>>

NoQuery == [context |-> None, similarity |-> None]
NoAnswer == [rank |-> None, evidence |-> {}]

Init ==
    /\ memories \in Stores
    /\ query = NoQuery
    /\ found = {}
    /\ answer = NoAnswer

-----------------------------------------------------------------------------
(* The search.                                                             *)

\* The rows the WHERE clause keeps; no memory types in the context, all types.
Matching(context) ==
    {i \in DOMAIN memories : /\ memories[i].embedded
                             /\ context.types = {} \/ memories[i].type \in context.types}

FaultySearchLimit(context) == context.topK

\* More candidates than top_k are fetched, for the reranking to choose from.
SearchLimit(context) ==
    IF context.topK > context.candidateLimit THEN context.topK ELSE context.candidateLimit

\* ORDER BY distance LIMIT: rows at equal distance come in any order, so any
\* of those at the edge may be the ones cut.
Closest(S, rows, limit, similarity) ==
    /\ S \subseteq rows
    /\ Cardinality(S) = IF Cardinality(rows) < limit THEN Cardinality(rows) ELSE limit
    /\ \A i \in S, j \in rows \ S : similarity[i] >= similarity[j]

\* The provider embeds the query text and the database answers.
Search ==
    /\ query = NoQuery
    /\ \E context \in Contexts, similarity \in [DOMAIN memories -> Similarities] :
        /\ query' = [context |-> context, similarity |-> similarity]
        /\ \E S \in SUBSET Matching(context) :
            /\ Closest(S, Matching(context), SearchLimit(context), similarity)
            /\ found' = S
    /\ answer' = NoAnswer
    /\ UNCHANGED memories

-----------------------------------------------------------------------------
(* The policy.                                                             *)

\* The bounds of the validity window: the end is exclusive.
InForce(m, asOf) ==
    m.validFrom <= asOf /\ (m.validUntil = None \/ m.validUntil > asOf)

\* evaluate_eligibility: only current truth may support an action. The status
\* is not enough, an active row may still have a successor.
Eligible(m, asOf) == m.status = "active" /\ m.supersededBy = None /\ InForce(m, asOf)

FaultyValidityWeight(m, asOf) == 4

\* A disputed memory keeps a quarter of the weight, whatever its dates.
ValidityWeight(m, asOf) ==
    CASE m.status = "disputed" -> 1
      [] Eligible(m, asOf) -> 4
      [] OTHER -> 0

DeviceMatch(m, devices) == IF m.device \in devices THEN 4 ELSE 0

\* A memory without an outcome is worth a little more than a failed one.
OutcomeWeight(m) == CASE m.success = None -> 1 [] m.success = TRUE -> 4 [] OTHER -> 0

\* score_candidate with the default weights, times 800 * Scale. The
\* similarity is mapped from -1 .. 1 to 0 .. 1 first.
Score(i) ==
    LET m == memories[i]
    IN  220 * (query.similarity[i] + Scale)
        + 2 * Scale * (15 * DeviceMatch(m, query.context.devices)
                       + 10 * m.confidence
                       + 10 * ValidityWeight(m, query.context.asOf)
                       + 10 * OutcomeWeight(m))

\* The sort key: best score, then closest, then smallest identifier. It
\* orders the candidates totally, so the order of the rows does not matter.
Precedes(i, j) ==
    \/ Score(i) > Score(j)
    \/ /\ Score(i) = Score(j)
       /\ \/ query.similarity[i] > query.similarity[j]
          \/ query.similarity[i] = query.similarity[j] /\ i < j

RankOf(i) == 1 + Cardinality({j \in found : Precedes(j, i)})

Kept == {i \in found : RankOf(i) <= query.context.topK}

\* The first top_k of the sorted candidates, with the eligible ones set apart.
RetrievalResult ==
    [rank |-> [i \in Kept |-> RankOf(i)],
     evidence |-> {i \in Kept : Eligible(memories[i], query.context.asOf)}]

\* The candidates are scored, sorted, cut and annotated.
Rerank ==
    /\ query # NoQuery
    /\ answer = NoAnswer
    /\ answer' = RetrievalResult
    /\ UNCHANGED <<memories, query, found>>

\* The caller has its answer and may ask again.
Return ==
    /\ answer # NoAnswer
    /\ query' = NoQuery
    /\ found' = {}
    /\ answer' = NoAnswer
    /\ UNCHANGED memories

Next == Search \/ Rerank \/ Return

Spec == Init /\ [][Next]_vars

-----------------------------------------------------------------------------
(* Properties.                                                             *)

Answered == answer # NoAnswer

Ranked == DOMAIN answer.rank

\* Ahead(i, j): i is in the answer, and j was found but is behind it or left out.
Ahead(i, j) ==
    /\ i \in Ranked
    /\ j \in found
    /\ j \in Ranked => answer.rank[i] < answer.rank[j]

\* A version of a fact never supports an action together with, or instead of,
\* its successor, whatever status either row has (evaluate_eligibility;
\* README.md:27, "visible as history but cannot drive a current action").
HistoryHasNoSay ==
    Answered => \A i \in Ranked : memories[i].supersededBy # None => i \notin answer.evidence

\* Semantic similarity stays the primary signal, current truth the tie
\* breaker: a memory that is no current truth comes before one that is, all
\* other signals being equal, only if the query is closer to it by more than
\* a quarter (disputed) or a third (history) of the unit. This bounds how far
\* history can crowd current truth out of top_k (score_candidate, retrieve).
HistoryAheadIsCloser ==
    Answered =>
        \A i, j \in found :
            LET lead == query.similarity[i] - query.similarity[j]
                asOf == query.context.asOf
            IN  /\ Ahead(i, j)
                /\ Eligible(memories[j], asOf) /\ ~Eligible(memories[i], asOf)
                /\ DeviceMatch(memories[i], query.context.devices)
                     = DeviceMatch(memories[j], query.context.devices)
                /\ memories[i].confidence = memories[j].confidence
                /\ OutcomeWeight(memories[i]) = OutcomeWeight(memories[j])
                => IF memories[i].status = "disputed" THEN 4 * lead > Scale ELSE 3 * lead > Scale

\* Both at once: history is shown, behind equal current truth unless it is much
\* closer, and never drives an action, also where status, successor and dates
\* of a row disagree (retrieve, evaluate_eligibility).
HistoryStaysBehind == HistoryHasNoSay /\ HistoryAheadIsCloser
=============================================================================
