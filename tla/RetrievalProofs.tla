-------------------------- MODULE RetrievalProofs --------------------------
(***************************************************************************)
(* Proofs about Retrieval, for any memories, contexts, similarities and    *)
(* limits. The answer is a function of what was found, so the invariant    *)
(* says exactly that; the rest is about the order the score defines.       *)
(***************************************************************************)
EXTENDS HeroRetrieval, FiniteSetTheorems, TLAPS

\* The running query and its candidates are well formed.
QueryInv ==
    /\ memories \in Stores
    /\ query # NoQuery => /\ query.context \in Contexts
                          /\ query.similarity \in [DOMAIN memories -> Similarities]
    /\ found \subseteq DOMAIN memories

\* The candidates are as many of the closest rows as the search may return.
SearchInv ==
    query # NoQuery =>
        Closest(found, Matching(query.context), SearchLimit(query.context), query.similarity)

\* An answer is the result of the query it answers.
AnswerInv == Answered => query # NoQuery /\ answer = RetrievalResult

Inv == QueryInv /\ SearchInv /\ AnswerInv

-----------------------------------------------------------------------------
(* The order of the candidates.                                            *)

\* Lemma: the signals of a stored memory and its score are numbers.
LEMMA ScoresAreIntegers ==
    ASSUME QueryInv, query # NoQuery, NEW i \in found
    PROVE  /\ i \in Nat
           /\ Score(i) \in Int
           /\ query.similarity[i] \in Int
           /\ memories[i].confidence \in Int
           /\ DeviceMatch(memories[i], query.context.devices) \in {0, 4}
           /\ OutcomeWeight(memories[i]) \in {0, 1, 4}
           /\ ValidityWeight(memories[i], query.context.asOf) \in {0, 1, 4}
<1>1. i \in DOMAIN memories /\ i \in Nat /\ memories[i] \in Memories
  BY StoresAssumption, IdsAssumption DEF QueryInv
<1>2. memories[i].confidence \in Int
  BY <1>1 DEF Memories
<1>3. query.similarity[i] \in Int /\ Scale \in Int
  <2>1. query.similarity \in [DOMAIN memories -> Similarities]
    BY DEF QueryInv
  <2>2. query.similarity[i] \in Similarities
    BY <1>1, <2>1
  <2>3. Similarities \subseteq Int /\ Scale \in Int
    BY SimilarityAssumption
  <2> QED BY <2>2, <2>3
<1>4. DeviceMatch(memories[i], query.context.devices) \in {0, 4}
  BY DEF DeviceMatch
<1>5. OutcomeWeight(memories[i]) \in {0, 1, 4}
  BY DEF OutcomeWeight
<1>6. ValidityWeight(memories[i], query.context.asOf) \in {0, 1, 4}
  BY DEF ValidityWeight
<1>7. Score(i) \in Int
  BY <1>2, <1>3, <1>4, <1>5, <1>6 DEF Score
<1> QED BY <1>1, <1>2, <1>3, <1>4, <1>5, <1>6, <1>7

\* Lemma: the sort key orders the candidates totally.
LEMMA OrderIsTotal ==
    ASSUME QueryInv, query # NoQuery, NEW i \in found, NEW j \in found, i # j
    PROVE  Precedes(i, j) \/ Precedes(j, i)
<1>1. /\ i \in Nat /\ j \in Nat /\ Score(i) \in Int /\ Score(j) \in Int
      /\ query.similarity[i] \in Int /\ query.similarity[j] \in Int
  BY ScoresAreIntegers
<1> QED BY <1>1 DEF Precedes

\* Lemma: the sort key orders the candidates transitively.
LEMMA OrderIsTransitive ==
    ASSUME QueryInv, query # NoQuery, NEW i \in found, NEW j \in found, NEW k \in found,
           Precedes(i, j), Precedes(j, k)
    PROVE  Precedes(i, k)
<1>1. /\ i \in Nat /\ j \in Nat /\ k \in Nat
      /\ Score(i) \in Int /\ Score(j) \in Int /\ Score(k) \in Int
      /\ query.similarity[i] \in Int /\ query.similarity[j] \in Int /\ query.similarity[k] \in Int
  BY ScoresAreIntegers
<1> QED BY <1>1 DEF Precedes

\* Lemma: a memory of smaller rank precedes, so ranks can be read as scores.
LEMMA SmallerRankPrecedes ==
    ASSUME QueryInv, query # NoQuery, NEW i \in found, NEW j \in found, RankOf(i) < RankOf(j)
    PROVE  Precedes(i, j)
<1> DEFINE Before(c) == {k \in found : Precedes(k, c)}
<1>1. IsFiniteSet(found)
  BY IdsAssumption, StoresAssumption, FS_Subset DEF QueryInv
<1>2. IsFiniteSet(Before(i)) /\ IsFiniteSet(Before(j))
  BY <1>1, FS_Subset
<1>3. SUFFICES ASSUME ~Precedes(i, j) PROVE FALSE
  OBVIOUS
<1>4. i # j
  <2>1. RankOf(i) \in Int
    BY <1>2, FS_CardinalityType DEF RankOf
  <2> QED BY <2>1
<1>5. Precedes(j, i)
  BY <1>3, <1>4, OrderIsTotal
<1>6. Before(j) \subseteq Before(i)
  BY <1>5, OrderIsTransitive
<1>7. Cardinality(Before(j)) <= Cardinality(Before(i))
  BY <1>2, <1>6, FS_Subset
<1>8. Cardinality(Before(i)) \in Nat /\ Cardinality(Before(j)) \in Nat
  BY <1>2, FS_CardinalityType
<1> QED BY <1>7, <1>8 DEF RankOf

\* Lemma: what an answer puts ahead precedes what it puts behind or leaves out.
LEMMA AheadPrecedes ==
    ASSUME Inv, Answered, NEW i \in found, NEW j \in found, Ahead(i, j)
    PROVE  Precedes(i, j)
<1>1. query # NoQuery /\ answer = RetrievalResult /\ QueryInv
  BY DEF Inv, AnswerInv
<1>2. Ranked = Kept /\ \A c \in Kept : answer.rank[c] = RankOf(c)
  BY <1>1 DEF Ranked, RetrievalResult
<1>3. i \in Kept /\ (j \in Kept => RankOf(i) < RankOf(j))
  BY <1>2 DEF Ahead
<1>4. IsFiniteSet(found)
  BY <1>1, IdsAssumption, StoresAssumption, FS_Subset DEF QueryInv
<1>5. RankOf(i) \in Int /\ RankOf(j) \in Int
  <2> DEFINE Before(c) == {k \in found : Precedes(k, c)}
  <2>1. IsFiniteSet(Before(i)) /\ IsFiniteSet(Before(j))
    BY <1>4, FS_Subset
  <2>2. Cardinality(Before(i)) \in Nat /\ Cardinality(Before(j)) \in Nat
    BY <2>1, FS_CardinalityType
  <2> QED BY <2>2 DEF RankOf
<1>6. query.context.topK \in Int
  <2>1. query.context \in Contexts
    BY <1>1 DEF QueryInv
  <2> QED BY <2>1, ContextsAssumption
<1>7. RankOf(i) <= query.context.topK
  BY <1>3 DEF Kept
<1>8. j \notin Kept => ~(RankOf(j) <= query.context.topK)
  BY DEF Kept
<1>9. RankOf(i) < RankOf(j)
  BY <1>3, <1>5, <1>6, <1>7, <1>8
<1> QED BY <1>1, <1>9, SmallerRankPrecedes

-----------------------------------------------------------------------------
(* The invariant.                                                          *)

\* Lemma: the result depends on the memories, the query and its candidates only.
LEMMA ResultIsStable ==
    ASSUME query' = query, found' = found, memories' = memories
    PROVE  RetrievalResult' = RetrievalResult
<1>1. \A i : Eligible(memories[i], query.context.asOf)'
              = Eligible(memories[i], query.context.asOf)
  BY DEF Eligible, InForce
<1>2. \A i : Score(i)' = Score(i)
  BY DEF Score, DeviceMatch, ValidityWeight, OutcomeWeight, Eligible, InForce
<1>3. \A i, j : Precedes(i, j)' <=> Precedes(i, j)
  BY <1>2 DEF Precedes
<1>4. \A i : {j \in found : Precedes(j, i)}' = {j \in found : Precedes(j, i)}
  BY <1>3
<1>5. \A i : RankOf(i)' = RankOf(i)
  BY <1>4 DEF RankOf
<1>6. Kept' = Kept
  BY <1>5 DEF Kept
<1> QED BY <1>1, <1>5, <1>6 DEF RetrievalResult

\* The invariant holds in every reachable state.
THEOREM Invariance == Spec => []Inv
<1>1. Init => Inv
  BY DEF Init, Inv, QueryInv, SearchInv, AnswerInv, Answered
<1>2. Inv /\ [Next]_vars => Inv'
  <2> SUFFICES ASSUME Inv, [Next]_vars PROVE Inv'
    OBVIOUS
  <2>1. CASE Search
    <3>1. QueryInv'
      <4>1. PICK context \in Contexts, similarity \in [DOMAIN memories -> Similarities] :
              /\ query' = [context |-> context, similarity |-> similarity]
              /\ \E S \in SUBSET Matching(context) : found' = S
        BY <2>1 DEF Search
      <4>2. found' \subseteq DOMAIN memories
        BY <4>1 DEF Matching
      <4>3. query'.context = context /\ query'.similarity = similarity
        BY <4>1
      <4>4. memories' = memories
        BY <2>1 DEF Search
      <4> QED BY <4>2, <4>3, <4>4 DEF Inv, QueryInv
    <3>2. SearchInv'
      <4>1. PICK context \in Contexts, similarity \in [DOMAIN memories -> Similarities] :
              /\ query' = [context |-> context, similarity |-> similarity]
              /\ Closest(found', Matching(context), SearchLimit(context), similarity)
        BY <2>1 DEF Search
      <4>2. query'.context = context /\ query'.similarity = similarity /\ memories' = memories
        BY <4>1, <2>1 DEF Search
      <4>3. Matching(context)' = Matching(context)
        BY <4>2 DEF Matching
      <4> QED BY <4>1, <4>2, <4>3 DEF SearchInv, Closest, SearchLimit, Matching
    <3>3. AnswerInv'
      BY <2>1 DEF Search, AnswerInv, Answered
    <3> QED BY <3>1, <3>2, <3>3 DEF Inv
  <2>2. CASE Rerank
    <3>1. QueryInv'
      BY <2>2 DEF Rerank, Inv, QueryInv
    <3>2. query' = query /\ found' = found /\ memories' = memories
      BY <2>2 DEF Rerank
    <3>3. RetrievalResult' = RetrievalResult
      BY <3>2, ResultIsStable
    <3>4. SearchInv'
      BY <3>2 DEF Inv, SearchInv, Closest, Matching, SearchLimit, NoQuery
    <3>5. AnswerInv'
      BY <2>2, <3>2, <3>3 DEF Rerank, AnswerInv
    <3> QED BY <3>1, <3>4, <3>5 DEF Inv
  <2>3. CASE Return
    BY <2>3 DEF Return, Inv, QueryInv, SearchInv, AnswerInv, Answered
  <2>4. CASE UNCHANGED vars
    <3>1. query' = query /\ found' = found /\ memories' = memories /\ answer' = answer
      BY <2>4 DEF vars
    <3>2. RetrievalResult' = RetrievalResult
      BY <3>1, ResultIsStable
    <3>3. SearchInv'
      BY <3>1 DEF Inv, SearchInv, Closest, Matching, SearchLimit, NoQuery
    <3> QED BY <3>1, <3>2, <3>3 DEF Inv, QueryInv, AnswerInv, Answered
  <2> QED BY <2>1, <2>2, <2>3, <2>4 DEF Next
<1> QED BY <1>1, <1>2, PTL DEF Spec

\* A memory with a successor never supports an action, whatever is stored,
\* asked and found similar (evaluate_eligibility; README.md:27).
THEOREM HistoryNeverSpeaks == Spec => []HistoryHasNoSay
<1>1. Inv => HistoryHasNoSay
  BY DEF Inv, AnswerInv, HistoryHasNoSay, RetrievalResult, Eligible
<1> QED BY <1>1, Invariance, PTL

-----------------------------------------------------------------------------
(* The margins.                                                            *)

\* Lemma: if weights lower by d quarters-times-ten do not put a candidate
\* behind, its similarity is ahead by the same amount.
LEMMA Margin ==
    ASSUME NEW a \in Int, NEW b \in Int, NEW w \in Int, NEW d \in Int, NEW s \in Int,
           220 * (a + s) + 2 * s * w >= 220 * (b + s) + 2 * s * (w + d)
    PROVE  220 * (a - b) >= 2 * s * d
<1>1. 2 * s * (w + d) = 2 * s * w + 2 * s * d
  OBVIOUS
<1>2. 2 * s * w \in Int /\ 2 * s * d \in Int
  OBVIOUS
<1> QED BY <1>1, <1>2

\* The signals of a memory other than its similarity, weighted.
Worth(i) ==
    15 * DeviceMatch(memories[i], query.context.devices) + 10 * memories[i].confidence
    + 10 * ValidityWeight(memories[i], query.context.asOf) + 10 * OutcomeWeight(memories[i])

\* Lemma: a worse memory before a better one is closer to the query by the
\* difference of the other signals.
LEMMA PrecedesMargin ==
    ASSUME QueryInv, query # NoQuery, NEW i \in found, NEW j \in found, Precedes(i, j)
    PROVE  220 * (query.similarity[i] - query.similarity[j]) >= 2 * Scale * (Worth(j) - Worth(i))
<1> DEFINE a == query.similarity[i]
           b == query.similarity[j]
<1>1. a \in Int /\ b \in Int /\ Score(i) \in Int /\ Score(j) \in Int
  BY ScoresAreIntegers
<1>2. Score(i) >= Score(j)
  BY <1>1 DEF Precedes
<1>3. PICK w \in Int : w = Worth(i)
  BY ScoresAreIntegers DEF Worth
<1>4. PICK v \in Int : v = Worth(j)
  BY ScoresAreIntegers DEF Worth
<1>5. Score(i) = 220 * (a + Scale) + 2 * Scale * w
  BY <1>3 DEF Score, Worth
<1>6. Score(j) = 220 * (b + Scale) + 2 * Scale * v
  BY <1>4 DEF Score, Worth
<1> HIDE DEF a, b
<1>7. v - w \in Int /\ w + (v - w) = v
  OBVIOUS
<1>8. 220 * (a - b) >= 2 * Scale * (v - w)
  BY <1>1, <1>2, <1>5, <1>6, <1>7, Margin, SimilarityAssumption
<1> QED BY <1>3, <1>4, <1>8 DEF a, b

\* Lemma: between candidates alike in device, confidence and outcome, the one
\* of smaller validity comes first only if it is closer by the difference.
LEMMA ValidityMargin ==
    ASSUME Inv, Answered, NEW i \in found, NEW j \in found, Ahead(i, j),
           DeviceMatch(memories[i], query.context.devices)
             = DeviceMatch(memories[j], query.context.devices),
           memories[i].confidence = memories[j].confidence,
           OutcomeWeight(memories[i]) = OutcomeWeight(memories[j])
    PROVE  220 * (query.similarity[i] - query.similarity[j])
             >= 2 * Scale * (10 * (ValidityWeight(memories[j], query.context.asOf)
                                   - ValidityWeight(memories[i], query.context.asOf)))
<1>1. QueryInv /\ query # NoQuery
  BY DEF Inv, AnswerInv
<1>2. Precedes(i, j)
  BY AheadPrecedes
<1>3. Worth(j) - Worth(i) = 10 * (ValidityWeight(memories[j], query.context.asOf)
                                  - ValidityWeight(memories[i], query.context.asOf))
  BY <1>1, ScoresAreIntegers DEF Worth
<1> QED BY <1>1, <1>2, <1>3, PrecedesMargin

\* History and disputes come before current truth only by similarity, by at
\* least the stated part of the unit, for any memories and limits.
THEOREM HistoryNeedsSimilarity == Spec => []HistoryAheadIsCloser
<1>1. Inv => HistoryAheadIsCloser
  <2> SUFFICES
        ASSUME Inv, Answered, NEW i \in found, NEW j \in found, Ahead(i, j),
               Eligible(memories[j], query.context.asOf), ~Eligible(memories[i], query.context.asOf),
               DeviceMatch(memories[i], query.context.devices)
                 = DeviceMatch(memories[j], query.context.devices),
               memories[i].confidence = memories[j].confidence,
               OutcomeWeight(memories[i]) = OutcomeWeight(memories[j])
        PROVE  IF memories[i].status = "disputed"
                 THEN 4 * (query.similarity[i] - query.similarity[j]) > Scale
                 ELSE 3 * (query.similarity[i] - query.similarity[j]) > Scale
    BY DEF HistoryAheadIsCloser
  <2> DEFINE a == query.similarity[i]
             b == query.similarity[j]
  <2>1. ValidityWeight(memories[j], query.context.asOf) = 4
    BY DEF ValidityWeight, Eligible
  <2>2. ValidityWeight(memories[i], query.context.asOf)
          = IF memories[i].status = "disputed" THEN 1 ELSE 0
    BY DEF ValidityWeight
  <2>3. a \in Int /\ b \in Int /\ Scale \in Nat \ {0}
    BY ScoresAreIntegers, SimilarityAssumption DEF Inv, AnswerInv
  <2>4. 220 * (a - b) >= 2 * Scale * (10 * (4 - IF memories[i].status = "disputed" THEN 1 ELSE 0))
    BY <2>1, <2>2, ValidityMargin
  <2> HIDE DEF a, b
  <2>5. IF memories[i].status = "disputed" THEN 4 * (a - b) > Scale ELSE 3 * (a - b) > Scale
    BY <2>3, <2>4
  <2> QED BY <2>5 DEF a, b
<1> QED BY <1>1, Invariance, PTL

\* For any store, query, similarities and limits history neither supports an
\* action nor comes before equal current truth by a small lead (retrieve).
THEOREM HistoryAlwaysStaysBehind == Spec => []HistoryStaysBehind
<1>1. HistoryHasNoSay /\ HistoryAheadIsCloser => HistoryStaysBehind
  BY DEF HistoryStaysBehind
<1> QED BY <1>1, HistoryNeverSpeaks, HistoryNeedsSimilarity, PTL

-----------------------------------------------------------------------------
(* The live gate.                                                          *)

\* Lemma: what the four hero memories are worth to the gate's queries.
LEMMA HeroSignals ==
    /\ DOMAIN HeroMemories = {1, 2, 3, 4}
    /\ \A i \in {1, 2, 3, 4} : HeroMemories[i].confidence = 4 /\ HeroMemories[i].embedded = TRUE
    /\ HeroMemories[3].type = "calibration_fact" /\ HeroMemories[4].type = "calibration_fact"
    /\ HeroMemories[1].type = "connection_recovery" /\ HeroMemories[2].type = "intervention_result"
    /\ \A i \in {2, 3, 4} : DeviceMatch(HeroMemories[i], RelevantContext.devices) = 4
    /\ OutcomeWeight(HeroMemories[2]) = 4
    /\ OutcomeWeight(HeroMemories[3]) = 1 /\ OutcomeWeight(HeroMemories[4]) = 1
    /\ Eligible(HeroMemories[2], 9) /\ ~Eligible(HeroMemories[3], 9) /\ Eligible(HeroMemories[4], 9)
    /\ ValidityWeight(HeroMemories[2], 9) = 4
    /\ ValidityWeight(HeroMemories[3], 9) = 0
    /\ ValidityWeight(HeroMemories[4], 9) = 4
<1>1. DOMAIN HeroMemories = {1, 2, 3, 4}
  BY DEF HeroMemories
<1>2. /\ HeroMemories[1] = Row("active", "connection_recovery", "scope_01", 1, None, None, TRUE)
      /\ HeroMemories[2] = Row("active", "intervention_result", "signal_source_01", 1, None, None, TRUE)
      /\ HeroMemories[3] = Row("superseded", "calibration_fact", "scope_01", 1, 2, 4, None)
      /\ HeroMemories[4] = Row("active", "calibration_fact", "scope_01", 2, None, None, None)
  BY DEF HeroMemories, ConnectionRecovery, InterventionResult, CalibrationV1, CalibrationV2
<1>3. \A i \in {1, 2, 3, 4} : HeroMemories[i].confidence = 4 /\ HeroMemories[i].embedded = TRUE
  BY <1>2 DEF Row
<1>4. /\ HeroMemories[3].type = "calibration_fact" /\ HeroMemories[4].type = "calibration_fact"
      /\ HeroMemories[1].type = "connection_recovery" /\ HeroMemories[2].type = "intervention_result"
  BY <1>2 DEF Row
<1>5. \A i \in {2, 3, 4} : DeviceMatch(HeroMemories[i], RelevantContext.devices) = 4
  BY <1>2 DEF Row, DeviceMatch, RelevantContext
<1>6. HeroMemories[2].success = TRUE /\ HeroMemories[3].success = None /\ HeroMemories[4].success = None
  BY <1>2 DEF Row
<1>7. OutcomeWeight(HeroMemories[2]) = 4
  BY <1>6, NoneAssumption DEF OutcomeWeight
<1>8. OutcomeWeight(HeroMemories[3]) = 1 /\ OutcomeWeight(HeroMemories[4]) = 1
  BY <1>6, NoneAssumption DEF OutcomeWeight
<1>9. Eligible(HeroMemories[2], 9) /\ ~Eligible(HeroMemories[3], 9) /\ Eligible(HeroMemories[4], 9)
  BY <1>2 DEF Row, Eligible, InForce
<1>10. HeroMemories[2].status # "disputed" /\ HeroMemories[3].status # "disputed"
       /\ HeroMemories[4].status # "disputed"
  BY <1>2 DEF Row
<1>11. /\ ValidityWeight(HeroMemories[2], 9) = 4
       /\ ValidityWeight(HeroMemories[3], 9) = 0
       /\ ValidityWeight(HeroMemories[4], 9) = 4
  BY <1>9, <1>10 DEF ValidityWeight
<1> QED BY <1>1, <1>3, <1>4, <1>5, <1>7, <1>8, <1>9, <1>11

\* Lemma: a search whose limit is not below the number of matching rows finds
\* them all.
LEMMA SmallSearchFindsAll ==
    ASSUME NEW S, NEW rows, NEW limit \in Nat, NEW similarity, IsFiniteSet(rows),
           Cardinality(rows) <= limit, Closest(S, rows, limit, similarity)
    PROVE  S = rows
<1>1. S \subseteq rows /\ Cardinality(rows) \in Nat
  BY FS_CardinalityType DEF Closest
<1>2. Cardinality(S) = Cardinality(rows)
  BY <1>1 DEF Closest
<1> QED BY <1>1, <1>2, FS_Subset

\* Lemma: no candidate precedes itself.
LEMMA OrderIsStrict ==
    ASSUME QueryInv, query # NoQuery, NEW i \in found
    PROVE  ~Precedes(i, i)
<1>1. i \in Nat /\ Score(i) \in Int /\ query.similarity[i] \in Int
  BY ScoresAreIntegers
<1> QED BY <1>1 DEF Precedes

\* Lemma: a set of two has two elements.
LEMMA PairSize ==
    ASSUME NEW a, NEW b, a # b
    PROVE  IsFiniteSet({a, b}) /\ Cardinality({a, b}) = 2
<1>1. IsFiniteSet({a}) /\ Cardinality({a}) = 1
  BY FS_Singleton
<1>2. {a, b} = {a} \cup {b} /\ b \notin {a}
  OBVIOUS
<1>3. IsFiniteSet({a} \cup {b}) /\ Cardinality({a} \cup {b}) = 2
  BY <1>1, <1>2, FS_AddElement
<1> QED BY <1>2, <1>3

\* Lemma: a set of three has three.
LEMMA TripleSize ==
    ASSUME NEW a, NEW b, NEW c, a # b, a # c, b # c
    PROVE  IsFiniteSet({a, b, c}) /\ Cardinality({a, b, c}) = 3
<1>1. IsFiniteSet({a, b}) /\ Cardinality({a, b}) = 2
  BY PairSize
<1>2. {a, b, c} = {a, b} \cup {c} /\ c \notin {a, b}
  OBVIOUS
<1>3. IsFiniteSet({a, b} \cup {c}) /\ Cardinality({a, b} \cup {c}) = 3
  BY <1>1, <1>2, FS_AddElement
<1> QED BY <1>2, <1>3

\* Lemma: the calibration query finds the two versions of the calibration.
LEMMA CalibrationCandidates ==
    ASSUME Inv, Asked(CalibrationContext)
    PROVE  found = {3, 4}
<1>1. query # NoQuery /\ memories = HeroMemories /\ query.context = CalibrationContext
  BY DEF Inv, AnswerInv, Asked
<1>2. Matching(CalibrationContext) = {3, 4}
  BY <1>1, HeroSignals DEF Matching, CalibrationContext
<1>3. SearchLimit(CalibrationContext) = 12
  BY DEF SearchLimit, CalibrationContext
<1>4. Closest(found, {3, 4}, 12, query.similarity)
  BY <1>1, <1>2, <1>3 DEF Inv, SearchInv
<1>5. IsFiniteSet({3, 4}) /\ Cardinality({3, 4}) = 2
  <2>1. 3 # 4
    OBVIOUS
  <2> QED BY <2>1, PairSize
<1> QED BY <1>4, <1>5, SmallSearchFindsAll

\* Lemma: the calibration query is answered as the gate demands.
LEMMA CalibrationTold ==
    ASSUME Inv
    PROVE  CalibrationIsTold
<1> SUFFICES ASSUME Asked(CalibrationContext)
             PROVE  Ranked = {3, 4} /\ answer.evidence = {4}
  BY DEF CalibrationIsTold, CalibrationV1, CalibrationV2
<1>1. /\ query # NoQuery /\ memories = HeroMemories /\ query.context = CalibrationContext
      /\ answer = RetrievalResult
  BY DEF Inv, AnswerInv, Asked
<1>2. found = {3, 4}
  BY CalibrationCandidates
<1>3. query.context.topK = 3 /\ query.context.asOf = 9
  BY <1>1 DEF CalibrationContext
<1>4. ASSUME NEW i \in found PROVE RankOf(i) <= 3
  <2> DEFINE B == {j \in found : Precedes(j, i)}
  <2>1. IsFiniteSet(found) /\ Cardinality(found) = 2
    <3>1. 3 # 4
      OBVIOUS
    <3> QED BY <1>2, <3>1, PairSize
  <2>2. IsFiniteSet(B) /\ Cardinality(B) <= Cardinality(found)
    BY <2>1, FS_Subset
  <2>3. Cardinality(B) \in Nat
    BY <2>2, FS_CardinalityType
  <2>4. RankOf(i) = 1 + Cardinality(B)
    BY DEF RankOf
  <2> QED BY <2>1, <2>2, <2>3, <2>4
<1>5. Kept = {3, 4}
  BY <1>2, <1>3, <1>4 DEF Kept
<1>6. Ranked = {3, 4}
  BY <1>1, <1>5 DEF Ranked, RetrievalResult
<1>7. {i \in Kept : Eligible(memories[i], query.context.asOf)} = {4}
  BY <1>1, <1>3, <1>5, HeroSignals
<1>8. answer.evidence = {4}
  BY <1>1, <1>7 DEF RetrievalResult
<1> QED BY <1>6, <1>8

\* Lemma: if the intervention is not among the first three, both versions of
\* the calibration come before it.
LEMMA InterventionCutOff ==
    ASSUME Inv, Asked(RelevantContext), 2 \notin Ranked
    PROVE  found = {1, 2, 3, 4} /\ Precedes(3, 2) /\ Precedes(4, 2)
<1>1. /\ query # NoQuery /\ memories = HeroMemories /\ query.context = RelevantContext
      /\ answer = RetrievalResult /\ QueryInv
  BY DEF Inv, AnswerInv, Asked
<1>2. Matching(RelevantContext) = {1, 2, 3, 4}
  BY <1>1, HeroSignals DEF Matching, RelevantContext
<1>3. SearchLimit(RelevantContext) = 12
  BY DEF SearchLimit, RelevantContext
<1>4. Closest(found, {1, 2, 3, 4}, 12, query.similarity)
  BY <1>1, <1>2, <1>3 DEF Inv, SearchInv
<1>5. found = {1, 2, 3, 4}
  <2>1. {1, 2, 3, 4} = {1, 2, 3} \cup {4} /\ 4 \notin {1, 2, 3} /\ 1 # 2 /\ 1 # 3 /\ 2 # 3
    OBVIOUS
  <2>2. IsFiniteSet({1, 2, 3}) /\ Cardinality({1, 2, 3}) = 3
    BY <2>1, TripleSize
  <2>3. IsFiniteSet({1, 2, 3} \cup {4}) /\ Cardinality({1, 2, 3} \cup {4}) = 4
    BY <2>1, <2>2, FS_AddElement
  <2> QED BY <1>4, <2>1, <2>3, SmallSearchFindsAll
<1>6. query.context.topK = 3
  BY <1>1 DEF RelevantContext
<1>7. 2 \notin Kept
  BY <1>1 DEF Ranked, RetrievalResult
<1> DEFINE B == {j \in found : Precedes(j, 2)}
<1>8. B \subseteq {1, 3, 4}
  BY <1>1, <1>5, OrderIsStrict
<1>9. IsFiniteSet({1, 3, 4}) /\ Cardinality({1, 3, 4}) = 3
  <2>1. 1 # 3 /\ 1 # 4 /\ 3 # 4
    OBVIOUS
  <2> QED BY <2>1, TripleSize
<1>10. IsFiniteSet(B) /\ Cardinality(B) <= 3
  BY <1>8, <1>9, FS_Subset
<1>11. Cardinality(B) \in Nat
  BY <1>10, FS_CardinalityType
<1>12. ~(1 + Cardinality(B) <= 3)
  BY <1>5, <1>6, <1>7 DEF Kept, RankOf
<1>13. Cardinality(B) = 3
  BY <1>10, <1>11, <1>12
<1>14. B = {1, 3, 4}
  BY <1>8, <1>9, <1>13, FS_Subset
<1> QED BY <1>5, <1>14

\* What the gate demands of its two answers holds for every similarity an
\* embedding model can give, but for the one stated combination.
THEOREM LiveGatePasses == Spec => []LiveGateHasMargin
<1>1. Inv => InterventionHasMargin
  <2> SUFFICES
        ASSUME Inv, Asked(RelevantContext), 2 \notin Ranked
        PROVE  /\ 5 * (query.similarity[3] - query.similarity[2]) > 3 * Scale
               /\ 4 * (query.similarity[4] - query.similarity[2]) > Scale
    BY DEF InterventionHasMargin, InterventionResult, CalibrationV1, CalibrationV2
  <2> DEFINE a == query.similarity[2]
             b == query.similarity[3]
             c == query.similarity[4]
  <2>1. /\ query # NoQuery /\ memories = HeroMemories /\ query.context = RelevantContext /\ QueryInv
    BY DEF Inv, AnswerInv, Asked
  <2>2. found = {1, 2, 3, 4} /\ Precedes(3, 2) /\ Precedes(4, 2)
    BY InterventionCutOff
  <2>3. RelevantContext.asOf = 9
    BY DEF RelevantContext
  <2>4. Worth(2) = 180 /\ Worth(3) = 110 /\ Worth(4) = 150
    BY <2>1, <2>3, HeroSignals DEF Worth
  <2>5. a \in Int /\ b \in Int /\ c \in Int /\ Scale \in Nat \ {0}
    BY <2>1, <2>2, ScoresAreIntegers, SimilarityAssumption
  <2>6. 220 * (b - a) >= 2 * Scale * (Worth(2) - Worth(3))
    BY <2>1, <2>2, PrecedesMargin
  <2>7. 220 * (c - a) >= 2 * Scale * (Worth(2) - Worth(4))
    BY <2>1, <2>2, PrecedesMargin
  <2> HIDE DEF a, b, c
  <2>8. 5 * (b - a) > 3 * Scale /\ 4 * (c - a) > Scale
    BY <2>4, <2>5, <2>6, <2>7
  <2> QED BY <2>8 DEF a, b, c
<1>2. Inv => LiveGateHasMargin
  BY <1>1, CalibrationTold DEF LiveGateHasMargin
<1> QED BY <1>2, Invariance, PTL
=============================================================================
