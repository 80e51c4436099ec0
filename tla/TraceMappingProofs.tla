--------------------------- MODULE TraceMappingProofs ---------------------------
(***************************************************************************)
(* Proofs about TraceMapping.  The heart is a counting argument: the       *)
(* validator compares the set of the orders with 1 .. n, and as n records  *)
(* can only fill n places if no two share one, an order names one record   *)
(* of one list.  Everything the rows say of each other follows from that   *)
(* and from the link between actions and outcomes.                         *)
(***************************************************************************)
EXTENDS TraceMapping, SequenceTheorems, FunctionTheorems, FiniteSetTheorems, WellFoundedInduction, TLAPS

---------------------------------------------------------------------------
(* Numbers and lists.                                                      *)

LEMMA LeastExists ==
  ASSUME NEW T \in SUBSET Nat, T # {}
  PROVE  \E x \in T : \A y \in T : x <= y
<1> DEFINE R == OpToRel(<, Nat)
<1>1. \E x \in T : \A y \in T : ~ (<<y, x>> \in R)
  <2>1. IsWellFoundedOn(R, Nat)
    BY NatLessThanWellFounded
  <2> QED BY <2>1, WFMin
<1>2. PICK x \in T : \A y \in T : ~ (<<y, x>> \in R)
  BY <1>1
<1>3. \A y \in T : <<y, x>> \in Nat \X Nat => (<<y, x>> \in R <=> y < x)
  BY DEF OpToRel
<1>4. \A y \in T : ~ (y < x)
  BY <1>2, <1>3
<1>5. x \in T /\ \A y \in T : x \in Nat /\ y \in Nat
  BY <1>2
<1> HIDE DEF R
<1>6. \A y \in T : x <= y
  BY <1>4, <1>5
<1> QED BY <1>5, <1>6

\* A bounded set of numbers has a largest one: the least of its bounds.
LEMMA LargestExists ==
  ASSUME NEW T \in SUBSET Nat, T # {}, NEW n \in Nat, \A x \in T : x <= n
  PROVE  \E x \in T : \A y \in T : y <= x
<1> DEFINE U == {k \in Nat : \A y \in T : y <= k}
<1>0. n \in U /\ U \in SUBSET Nat
  OBVIOUS
<1> HIDE DEF U
<1>1. PICK x \in U : \A k \in U : x <= k
  BY <1>0, LeastExists
<1> USE DEF U
<1>2. CASE x \in T
  BY <1>1, <1>2
<1>3. CASE x \notin T
  <2>1. \A y \in T : y <= x /\ y # x /\ y \in Nat
    BY <1>1, <1>3
  <2>2. x # 0
    <3>1. PICK z \in T : TRUE
      OBVIOUS
    <3>2. z \in Nat /\ z <= x /\ z # x
      BY <3>1, <2>1
    <3> QED BY <3>2
  <2>3. x - 1 \in Nat /\ \A y \in T : y <= x - 1
    BY <1>1, <2>1, <2>2
  <2>4. x - 1 \in U
    BY <2>3
  <2>5. x <= x - 1
    BY <1>1, <2>4
  <2> QED BY <1>1, <2>5
<1> QED BY <1>2, <1>3

IsList(s) ==
    /\ s \in Seq(Range(s))
    /\ Len(s) \in Nat
    /\ DOMAIN s = 1 .. Len(s)

Lists(t) == IsList(t.observations) /\ IsList(t.actions) /\ IsList(t.outcomes)

LEMMA SequencesAreLists ==
  ASSUME NEW S, NEW s \in Seq(S)
  PROVE  IsList(s)
<1>1. Len(s) \in Nat /\ s \in [1 .. Len(s) -> S] /\ DOMAIN s = 1 .. Len(s)
  OBVIOUS
<1>2. s \in [1 .. Len(s) -> Range(s)]
  BY <1>1 DEF Range
<1>3. s \in Seq(Range(s))
  BY <1>1, <1>2, SeqDef
<1> QED BY <1>1, <1>3 DEF IsList

\* What a function that never repeats itself lists, it counts.
LEMMA CountListed ==
  ASSUME NEW n \in Nat, NEW g, DOMAIN g = 1 .. n, g = [i \in 1 .. n |-> g[i]],
         \A i, j \in 1 .. n : g[i] = g[j] => i = j,
         NEW S, \A x : x \in S <=> \E i \in 1 .. n : x = g[i]
  PROVE  IsFiniteSet(S) /\ Cardinality(S) = n
<1>1. g \in [1 .. n -> S]
  OBVIOUS
<1>2. g \in Bijection(1 .. n, S)
  BY <1>1, Fun_IsBij
<1>3. ExistsBijection(1 .. n, S)
  BY <1>2, Fun_ExistsBij
<1>4. Cardinality(S) = n
  BY <1>3, FS_CountingElements
<1>5. IsFiniteSet(S)
  BY <1>3, FS_NatBijection
<1> QED BY <1>4, <1>5

\* Three lists whose orders fill as many places as they have records share
\* none: the positive, unique and contiguous orders of _validate_trace.
AllDistinct(a, b, c) ==
    /\ \A i, j \in 1 .. Len(a) : a[i].order = a[j].order => i = j
    /\ \A i, j \in 1 .. Len(b) : b[i].order = b[j].order => i = j
    /\ \A i, j \in 1 .. Len(c) : c[i].order = c[j].order => i = j
    /\ \A i \in 1 .. Len(a), j \in 1 .. Len(b) : a[i].order # b[j].order
    /\ \A i \in 1 .. Len(a), j \in 1 .. Len(c) : a[i].order # c[j].order
    /\ \A i \in 1 .. Len(b), j \in 1 .. Len(c) : b[i].order # c[j].order

LEMMA FullPlacesAreDistinct ==
  ASSUME NEW a, NEW b, NEW c, IsList(a), IsList(b), IsList(c),
         {x.order : x \in Range(a) \cup Range(b) \cup Range(c)} = 1 .. Len(a) + Len(b) + Len(c)
  PROVE  AllDistinct(a, b, c)
<1>m. PICK m \in Nat : m = Len(a)
  BY DEF IsList
<1>k. PICK k \in Nat : k = Len(b)
  BY DEF IsList
<1>l. PICK l \in Nat : l = Len(c)
  BY DEF IsList
<1> DEFINE n == m + k + l
           f == [i \in 1 .. n |-> IF i <= m THEN a[i].order
                                  ELSE IF i <= m + k THEN b[i - m].order
                                  ELSE c[i - (m + k)].order]
<1>n. n \in Nat /\ n = Len(a) + Len(b) + Len(c)
  BY <1>m, <1>k, <1>l
<1>1. /\ \A i \in 1 .. m : i \in 1 .. n /\ f[i] = a[i].order /\ a[i] \in Range(a)
      /\ \A i \in 1 .. k : i + m \in 1 .. n /\ f[i + m] = b[i].order /\ b[i] \in Range(b)
      /\ \A i \in 1 .. l : i + (m + k) \in 1 .. n /\ f[i + (m + k)] = c[i].order /\ c[i] \in Range(c)
  <2>1. ASSUME NEW i \in 1 .. m
        PROVE  i \in 1 .. n /\ f[i] = a[i].order /\ a[i] \in Range(a)
    BY <1>m DEF Range, IsList
  <2>2. ASSUME NEW i \in 1 .. k
        PROVE  i + m \in 1 .. n /\ f[i + m] = b[i].order /\ b[i] \in Range(b)
    <3>1. i + m \in 1 .. n /\ ~ (i + m <= m) /\ i + m <= m + k /\ (i + m) - m = i
      OBVIOUS
    <3>2. f[i + m] = b[i].order
      BY <3>1
    <3> QED BY <3>1, <3>2, <1>k DEF Range, IsList
  <2>3. ASSUME NEW i \in 1 .. l
        PROVE  i + (m + k) \in 1 .. n /\ f[i + (m + k)] = c[i].order /\ c[i] \in Range(c)
    <3>1. /\ i + (m + k) \in 1 .. n /\ ~ (i + (m + k) <= m) /\ ~ (i + (m + k) <= m + k)
          /\ (i + (m + k)) - (m + k) = i
      OBVIOUS
    <3>2. f[i + (m + k)] = c[i].order
      BY <3>1
    <3> QED BY <3>1, <3>2, <1>l DEF Range, IsList
  <2> QED BY <2>1, <2>2, <2>3
<1>2. \A i \in 1 .. n : f[i] \in 1 .. n
  <2> SUFFICES ASSUME NEW i \in 1 .. n
               PROVE  f[i] \in 1 .. n
    OBVIOUS
  <2>1. CASE i <= m
    <3>1. i \in 1 .. m
      BY <2>1
    <3>2. f[i] = a[i].order /\ a[i] \in Range(a)
      BY <3>1, <1>1
    <3> HIDE DEF f
    <3> QED BY <3>2, <1>n
  <2>2. CASE ~ (i <= m) /\ i <= m + k
    <3>1. PICK j \in 1 .. k : i = j + m
      BY <2>2
    <3>2. f[i] = b[j].order /\ b[j] \in Range(b)
      BY <3>1, <1>1
    <3> HIDE DEF f
    <3> QED BY <3>2, <1>n
  <2>3. CASE ~ (i <= m + k)
    <3>1. PICK j \in 1 .. l : i = j + (m + k)
      <4>1. i - (m + k) \in 1 .. l /\ i = (i - (m + k)) + (m + k)
        BY <2>3
      <4> QED BY <4>1
    <3>2. f[i] = c[j].order /\ c[j] \in Range(c)
      BY <3>1, <1>1
    <3> HIDE DEF f
    <3> QED BY <3>2, <1>n
  <2> QED BY <2>1, <2>2, <2>3
<1>3. \A x \in 1 .. n : \E i \in 1 .. n : f[i] = x
  <2> SUFFICES ASSUME NEW x \in 1 .. n
               PROVE  \E i \in 1 .. n : f[i] = x
    OBVIOUS
  <2>1. PICK y \in Range(a) \cup Range(b) \cup Range(c) : x = y.order
    BY <1>n
  <2>2. CASE y \in Range(a)
    <3>1. PICK i \in 1 .. m : y = a[i]
      BY <2>2, <1>m DEF Range, IsList
    <3> HIDE DEF f
    <3> QED BY <2>1, <3>1, <1>1
  <2>3. CASE y \in Range(b)
    <3>1. PICK i \in 1 .. k : y = b[i]
      BY <2>3, <1>k DEF Range, IsList
    <3> HIDE DEF f
    <3> QED BY <2>1, <3>1, <1>1
  <2>4. CASE y \in Range(c)
    <3>1. PICK i \in 1 .. l : y = c[i]
      BY <2>4, <1>l DEF Range, IsList
    <3> HIDE DEF f
    <3> QED BY <2>1, <3>1, <1>1
  <2> QED BY <2>1, <2>2, <2>3, <2>4
<1>4. \A i, j \in 1 .. n : f[i] = f[j] => i = j
  <2>1. f \in [1 .. n -> 1 .. n]
    BY <1>2
  <2> HIDE DEF f
  <2>2. f \in Surjection(1 .. n, 1 .. n)
    BY <2>1, <1>3 DEF Surjection
  <2>3. f \in Injection(1 .. n, 1 .. n)
    BY <2>2, <1>n, FS_Interval, FS_SurjSameCardinalityImpliesInj
  <2> QED BY <2>3 DEF Injection, IsInjective
<1> HIDE DEF f
<1>5. \A i, j \in 1 .. m : a[i].order = a[j].order => i = j
  BY <1>1, <1>4
<1>6. \A i, j \in 1 .. k : b[i].order = b[j].order => i = j
  <2> SUFFICES ASSUME NEW i \in 1 .. k, NEW j \in 1 .. k, b[i].order = b[j].order
               PROVE  i = j
    OBVIOUS
  <2>1. i + m = j + m
    BY <1>1, <1>4
  <2> QED BY <2>1
<1>7. \A i, j \in 1 .. l : c[i].order = c[j].order => i = j
  <2> SUFFICES ASSUME NEW i \in 1 .. l, NEW j \in 1 .. l, c[i].order = c[j].order
               PROVE  i = j
    OBVIOUS
  <2>1. i + (m + k) = j + (m + k)
    BY <1>1, <1>4
  <2> QED BY <2>1
<1>8. \A i \in 1 .. m, j \in 1 .. k : a[i].order # b[j].order
  <2> SUFFICES ASSUME NEW i \in 1 .. m, NEW j \in 1 .. k, a[i].order = b[j].order
               PROVE  FALSE
    OBVIOUS
  <2>1. i = j + m
    BY <1>1, <1>4
  <2> QED BY <2>1
<1>9. \A i \in 1 .. m, j \in 1 .. l : a[i].order # c[j].order
  <2> SUFFICES ASSUME NEW i \in 1 .. m, NEW j \in 1 .. l, a[i].order = c[j].order
               PROVE  FALSE
    OBVIOUS
  <2>1. i = j + (m + k)
    BY <1>1, <1>4
  <2> QED BY <2>1
<1>10. \A i \in 1 .. k, j \in 1 .. l : b[i].order # c[j].order
  <2> SUFFICES ASSUME NEW i \in 1 .. k, NEW j \in 1 .. l, b[i].order = c[j].order
               PROVE  FALSE
    OBVIOUS
  <2>1. i + m = j + (m + k)
    BY <1>1, <1>4
  <2> QED BY <2>1
<1> QED BY <1>5, <1>6, <1>7, <1>8, <1>9, <1>10, <1>m, <1>k, <1>l DEF AllDistinct

---------------------------------------------------------------------------
(* What a valid trace says.                                                *)

Records(t) == Range(t.observations) \cup Range(t.actions) \cup Range(t.outcomes)

\* An order names one record of one list.
OrdersNameRecords(t) ==
    /\ \A x \in Records(t) : x.order \in 1 .. RecordCount(t)
    /\ \A n \in 1 .. RecordCount(t) : \E x \in Records(t) : x.order = n
    /\ \A x, y \in Range(t.observations) : x.order = y.order => x = y
    /\ \A x, y \in Range(t.actions) : x.order = y.order => x = y
    /\ \A x, y \in Range(t.outcomes) : x.order = y.order => x = y
    /\ \A x \in Range(t.observations), y \in Range(t.actions) : x.order # y.order
    /\ \A x \in Range(t.observations), y \in Range(t.outcomes) : x.order # y.order
    /\ \A x \in Range(t.actions), y \in Range(t.outcomes) : x.order # y.order

LEMMA ListedAt ==
  ASSUME NEW s, IsList(s), NEW x
  PROVE  x \in Range(s) <=> \E i \in 1 .. Len(s) : x = s[i]
BY DEF IsList, Range

LEMMA PlacesAreDistinct ==
  ASSUME NEW t, Lists(t), OrdersAreContiguous(t)
  PROVE  AllDistinct(t.observations, t.actions, t.outcomes)
<1>1. {x.order : x \in Range(t.observations) \cup Range(t.actions) \cup Range(t.outcomes)}
        = 1 .. Len(t.observations) + Len(t.actions) + Len(t.outcomes)
  BY DEF OrdersAreContiguous, Orders, RecordCount
<1> QED BY <1>1, FullPlacesAreDistinct DEF Lists

LEMMA OrdersName ==
  ASSUME NEW t, Lists(t), OrdersAreContiguous(t)
  PROVE  OrdersNameRecords(t)
<1>a. PICK a : a = t.observations
  OBVIOUS
<1>b. PICK b : b = t.actions
  OBVIOUS
<1>c. PICK c : c = t.outcomes
  OBVIOUS
<1>d. AllDistinct(a, b, c)
  BY <1>a, <1>b, <1>c, PlacesAreDistinct
<1>l. IsList(a) /\ IsList(b) /\ IsList(c)
  BY <1>a, <1>b, <1>c DEF Lists
<1>1. \A x, y \in Range(a) : x.order = y.order => x = y
  BY <1>d, <1>l, ListedAt DEF AllDistinct
<1>2. \A x, y \in Range(b) : x.order = y.order => x = y
  BY <1>d, <1>l, ListedAt DEF AllDistinct
<1>3. \A x, y \in Range(c) : x.order = y.order => x = y
  BY <1>d, <1>l, ListedAt DEF AllDistinct
<1>4. \A x \in Range(a), y \in Range(b) : x.order # y.order
  BY <1>d, <1>l, ListedAt DEF AllDistinct
<1>5. \A x \in Range(a), y \in Range(c) : x.order # y.order
  BY <1>d, <1>l, ListedAt DEF AllDistinct
<1>6. \A x \in Range(b), y \in Range(c) : x.order # y.order
  BY <1>d, <1>l, ListedAt DEF AllDistinct
<1>7. {x.order : x \in Records(t)} = 1 .. RecordCount(t)
  BY DEF OrdersAreContiguous, Orders, Records
<1>8. \A x \in Records(t) : x.order \in 1 .. RecordCount(t)
  BY <1>7
<1>9. \A n \in 1 .. RecordCount(t) : \E x \in Records(t) : x.order = n
  BY <1>7
<1> QED BY <1>a, <1>b, <1>c, <1>1, <1>2, <1>3, <1>4, <1>5, <1>6, <1>8, <1>9
        DEF OrdersNameRecords

LEMMA CountOfRecords ==
  ASSUME NEW t, Lists(t)
  PROVE  RecordCount(t) \in Nat
<1>1. PICK m \in Nat : m = Len(t.observations)
  BY DEF Lists, IsList
<1>2. PICK k \in Nat : k = Len(t.actions)
  BY DEF Lists, IsList
<1>3. PICK l \in Nat : l = Len(t.outcomes)
  BY DEF Lists, IsList
<1>4. RecordCount(t) = m + k + l
  BY <1>1, <1>2, <1>3 DEF RecordCount
<1> QED BY <1>4

\* Every action has one outcome, and _outcome_for finds that one.
LEMMA OneOutcome ==
  ASSUME NEW t, Lists(t), OutcomesAreLinked(t), NEW a \in Range(t.actions)
  PROVE  /\ OutcomeOfAction(t, a.order) \in Range(t.outcomes)
         /\ OutcomeOfAction(t, a.order).action_order = a.order
         /\ \A o \in Range(t.outcomes) :
               o.action_order = a.order => o = OutcomeOfAction(t, a.order)
<1>1. \E o \in Range(t.outcomes) : o.action_order = a.order
  <2>1. a.order \in {o.action_order : o \in Range(t.outcomes)}
    BY DEF OutcomesAreLinked
  <2> QED BY <2>1
<1>2. /\ OutcomeOfAction(t, a.order) \in Range(t.outcomes)
      /\ OutcomeOfAction(t, a.order).action_order = a.order
  BY <1>1 DEF OutcomeOfAction
<1>3. ASSUME NEW x \in Range(t.outcomes), NEW y \in Range(t.outcomes),
             x.action_order = y.action_order
      PROVE  x = y
  <2>1. PICK i \in DOMAIN t.outcomes : x = t.outcomes[i]
    BY DEF Range
  <2>2. PICK j \in DOMAIN t.outcomes : y = t.outcomes[j]
    BY DEF Range
  <2>3. i = j
    BY <1>3, <2>1, <2>2 DEF OutcomesAreLinked
  <2> QED BY <2>1, <2>2, <2>3
<1> QED BY <1>2, <1>3

---------------------------------------------------------------------------
(* What the rows of a valid trace say.                                     *)

\* A row keeps the order of its record: as many rows as records.
OwnPlaces(s) == \A i, j \in 1 .. Len(s) : s[i].order = s[j].order => i = j

RowsOf(s, g, S) ==
    /\ DOMAIN g = 1 .. Len(s)
    /\ g = [i \in 1 .. Len(s) |-> g[i]]
    /\ \A i \in 1 .. Len(s) : g[i].order = s[i].order
    /\ S = {g[i] : i \in 1 .. Len(s)}

LEMMA RowsPerRecord ==
  ASSUME NEW s, NEW g, NEW S, IsList(s), OwnPlaces(s), RowsOf(s, g, S)
  PROVE  Cardinality(S) = Len(s)
<1>1. PICK n \in Nat : n = Len(s)
  BY DEF IsList
<1>2. \A i, j \in 1 .. n : g[i] = g[j] => i = j
  BY <1>1 DEF RowsOf, OwnPlaces
<1>3. DOMAIN g = 1 .. n /\ g = [i \in 1 .. n |-> g[i]]
  BY <1>1 DEF RowsOf
<1>4. \A x : x \in S <=> \E i \in 1 .. n : x = g[i]
  BY <1>1 DEF RowsOf
<1> QED BY <1>1, <1>2, <1>3, <1>4, CountListed

CountsAddUp(m) ==
    Cardinality(m.observations) + Cardinality(m.actions) + Cardinality(m.outcomes) = m.run.step

LEMMA RowsAreCounted ==
  ASSUME NEW t, NEW r, NEW base, Lists(t), OrdersAreContiguous(t)
  PROVE  /\ Cardinality(ObservationRows(t, r, base)) = Len(t.observations)
         /\ Cardinality(ActionRows(t, r, base)) = Len(t.actions)
         /\ Cardinality(OutcomeRows(t, r, base)) = Len(t.outcomes)
<1>d. AllDistinct(t.observations, t.actions, t.outcomes)
  BY PlacesAreDistinct
<1>1. Cardinality(ObservationRows(t, r, base)) = Len(t.observations)
  <2>s. PICK s : s = t.observations
    OBVIOUS
  <2>l. IsList(s) /\ OwnPlaces(s)
    BY <2>s, <1>d DEF Lists, AllDistinct, OwnPlaces
  <2> DEFINE g == [i \in 1 .. Len(s) |->
                     [id |-> <<r, "observation", s[i].order>>, run |-> r, device |-> s[i].device,
                      order |-> s[i].order, type |-> s[i].type, at |-> base + s[i].order]]
  <2>1. ObservationRows(t, r, base) \subseteq {g[i] : i \in 1 .. Len(s)}
    <3> SUFFICES ASSUME NEW a \in Range(s)
                 PROVE  \E i \in 1 .. Len(s) : a = s[i]
      BY <2>s DEF ObservationRows
    <3> QED BY <2>l, ListedAt
  <2>2. {g[i] : i \in 1 .. Len(s)} \subseteq ObservationRows(t, r, base)
    <3>1. \A i \in 1 .. Len(s) : s[i] \in Range(s)
      BY <2>l, ListedAt
    <3> QED BY <2>s, <3>1 DEF ObservationRows
  <2>3. RowsOf(s, g, ObservationRows(t, r, base))
    BY <2>1, <2>2 DEF RowsOf
  <2> HIDE DEF g
  <2> QED BY <2>s, <2>l, <2>3, RowsPerRecord
<1>2. Cardinality(ActionRows(t, r, base)) = Len(t.actions)
  <2>s. PICK s : s = t.actions
    OBVIOUS
  <2>l. IsList(s) /\ OwnPlaces(s)
    BY <2>s, <1>d DEF Lists, AllDistinct, OwnPlaces
  <2> DEFINE g == [i \in 1 .. Len(s) |->
                     [id |-> ActionId(r, s[i].order), run |-> r, device |-> s[i].device,
                      order |-> s[i].order, type |-> s[i].type,
                      status |-> IF OutcomeOfAction(t, s[i].order).success
                                   THEN "succeeded" ELSE "failed",
                      created |-> base + s[i].order,
                      executed |-> base + OutcomeOfAction(t, s[i].order).order]]
  <2>1. ActionRows(t, r, base) \subseteq {g[i] : i \in 1 .. Len(s)}
    <3> SUFFICES ASSUME NEW a \in Range(s)
                 PROVE  \E i \in 1 .. Len(s) : a = s[i]
      BY <2>s DEF ActionRows
    <3> QED BY <2>l, ListedAt
  <2>2. {g[i] : i \in 1 .. Len(s)} \subseteq ActionRows(t, r, base)
    <3>1. \A i \in 1 .. Len(s) : s[i] \in Range(s)
      BY <2>l, ListedAt
    <3> QED BY <2>s, <3>1 DEF ActionRows
  <2>3. RowsOf(s, g, ActionRows(t, r, base))
    BY <2>1, <2>2 DEF RowsOf
  <2> HIDE DEF g
  <2> QED BY <2>s, <2>l, <2>3, RowsPerRecord
<1>3. Cardinality(OutcomeRows(t, r, base)) = Len(t.outcomes)
  <2>s. PICK s : s = t.outcomes
    OBVIOUS
  <2>l. IsList(s) /\ OwnPlaces(s)
    BY <2>s, <1>d DEF Lists, AllDistinct, OwnPlaces
  <2> DEFINE g == [i \in 1 .. Len(s) |->
                     [id |-> OutcomeId(r, s[i].order), action |-> ActionId(r, s[i].action_order),
                      order |-> s[i].order, success |-> s[i].success, at |-> base + s[i].order]]
  <2>1. OutcomeRows(t, r, base) \subseteq {g[i] : i \in 1 .. Len(s)}
    <3> SUFFICES ASSUME NEW y \in OutcomeRows(t, r, base)
                 PROVE  \E i \in 1 .. Len(s) : y = g[i]
      OBVIOUS
    <3>1. PICK o \in Range(s) :
             y = [id |-> OutcomeId(r, o.order), action |-> ActionId(r, o.action_order),
                  order |-> o.order, success |-> o.success, at |-> base + o.order]
      BY <2>s, Zenon DEF OutcomeRows
    <3>2. PICK i \in 1 .. Len(s) : o = s[i]
      BY <2>l, ListedAt
    <3>3. g[i] = [id |-> OutcomeId(r, s[i].order), action |-> ActionId(r, s[i].action_order),
                  order |-> s[i].order, success |-> s[i].success, at |-> base + s[i].order]
      OBVIOUS
    <3> QED BY <3>1, <3>2, <3>3, Zenon
  <2>2. {g[i] : i \in 1 .. Len(s)} \subseteq OutcomeRows(t, r, base)
    <3>1. \A i \in 1 .. Len(s) : s[i] \in Range(s)
      BY <2>l, ListedAt
    <3> QED BY <2>s, <3>1 DEF OutcomeRows
  <2>3. RowsOf(s, g, OutcomeRows(t, r, base))
    BY <2>1, <2>2 DEF RowsOf
  <2> HIDE DEF g
  <2> QED BY <2>s, <2>l, <2>3, RowsPerRecord
<1> QED BY <1>1, <1>2, <1>3

TimelineIsWhole(m) ==
    {e.seq : e \in m.audits} = 1 .. m.run.step /\ Cardinality(m.audits) = m.run.step

LEMMA TimelineWhole ==
  ASSUME NEW t, NEW r, NEW base, Lists(t)
  PROVE  TimelineIsWhole(MapTrace(t, r, base))
<1>n. PICK n \in Nat : n = RecordCount(t)
  BY CountOfRecords
<1>m. PICK S : S = AuditRows(t, r, base)
  OBVIOUS
<1> DEFINE g == [i \in 1 .. n |->
                   [id |-> <<r, "audit", i>>, run |-> r, seq |-> i,
                    target |-> AuditTarget(t, r, i), at |-> base + i]]
<1>1. \A x : x \in S <=> \E i \in 1 .. n : x = g[i]
  BY <1>n, <1>m DEF AuditRows
<1>2. DOMAIN g = 1 .. n /\ g = [i \in 1 .. n |-> g[i]] /\ \A i \in 1 .. n : g[i].seq = i
  OBVIOUS
<1> HIDE DEF g
<1>3. \A i, j \in 1 .. n : g[i] = g[j] => i = j
  BY <1>2
<1>4. Cardinality(S) = n
  BY <1>1, <1>2, <1>3, CountListed
<1>5. {e.seq : e \in S} = 1 .. n
  BY <1>1, <1>2
<1>6. MapTrace(t, r, base).audits = S /\ MapTrace(t, r, base).run.step = n
  BY <1>n, <1>m DEF MapTrace, RunRow
<1> QED BY <1>4, <1>5, <1>6 DEF TimelineIsWhole

\* Every stored record stands at its own place in the timeline.
PlacesAgree(m) ==
    \A x \in m.observations \cup m.actions \cup m.outcomes :
        \E e \in m.audits : e.seq = x.order /\ e.target = x.id

LEMMA EventAtPlace ==
  ASSUME NEW t, NEW r, NEW base, NEW n \in 1 .. RecordCount(t), NEW id, AuditTarget(t, r, n) = id
  PROVE  \E e \in AuditRows(t, r, base) : e.seq = n /\ e.target = id
<1>1. PICK e \in AuditRows(t, r, base) :
         e = [id |-> <<r, "audit", n>>, run |-> r, seq |-> n, target |-> AuditTarget(t, r, n),
              at |-> base + n]
  BY DEF AuditRows
<1> QED BY <1>1

LEMMA PlacesOfRecords ==
  ASSUME NEW t, NEW r, NEW base, OrdersNameRecords(t)
  PROVE  PlacesAgree(MapTrace(t, r, base))
<1>o. /\ \A x \in Range(t.observations) : x.order \in 1 .. RecordCount(t)
      /\ \A x \in Range(t.actions) : x.order \in 1 .. RecordCount(t)
      /\ \A x \in Range(t.outcomes) : x.order \in 1 .. RecordCount(t)
  BY DEF OrdersNameRecords, Records
<1>1. ASSUME NEW x \in ObservationRows(t, r, base)
      PROVE  \E e \in AuditRows(t, r, base) : e.seq = x.order /\ e.target = x.id
  <2>1. PICK y \in Range(t.observations) :
           x.order = y.order /\ x.id = <<r, "observation", y.order>>
    BY DEF ObservationRows
  <2>2. AuditTarget(t, r, y.order) = x.id
    BY <2>1 DEF AuditTarget
  <2> QED BY <2>1, <2>2, <1>o, EventAtPlace
<1>2. ASSUME NEW x \in ActionRows(t, r, base)
      PROVE  \E e \in AuditRows(t, r, base) : e.seq = x.order /\ e.target = x.id
  <2>1. PICK y \in Range(t.actions) : x.order = y.order /\ x.id = ActionId(r, y.order)
    BY DEF ActionRows
  <2>2. ~ \E z \in Range(t.observations) : z.order = y.order
    BY DEF OrdersNameRecords
  <2>3. AuditTarget(t, r, y.order) = x.id
    BY <2>1, <2>2 DEF AuditTarget
  <2> QED BY <2>1, <2>3, <1>o, EventAtPlace
<1>3. ASSUME NEW x \in OutcomeRows(t, r, base)
      PROVE  \E e \in AuditRows(t, r, base) : e.seq = x.order /\ e.target = x.id
  <2>1. PICK y \in Range(t.outcomes) : x.order = y.order /\ x.id = OutcomeId(r, y.order)
    BY DEF OutcomeRows
  <2>2. /\ ~ \E z \in Range(t.observations) : z.order = y.order
        /\ ~ \E z \in Range(t.actions) : z.order = y.order
    BY DEF OrdersNameRecords
  <2>3. AuditTarget(t, r, y.order) = x.id
    BY <2>1, <2>2 DEF AuditTarget
  <2> QED BY <2>1, <2>3, <1>o, EventAtPlace
<1> QED BY <1>1, <1>2, <1>3 DEF PlacesAgree, MapTrace

\* Each action has exactly one outcome, and its status and time are that one's.
ActionsConclude(m) ==
    \A a \in m.actions : \E o \in m.outcomes :
        /\ o.action = a.id
        /\ a.status = IF o.success THEN "succeeded" ELSE "failed"
        /\ a.executed = o.at
        /\ \A q \in m.outcomes : q.action = a.id => q = o

OutcomeRow(r, base, o) ==
    [id |-> OutcomeId(r, o.order), action |-> ActionId(r, o.action_order),
     order |-> o.order, success |-> o.success, at |-> base + o.order]

LEMMA OutcomeRowOf ==
  ASSUME NEW t, NEW r, NEW base, NEW x
  PROVE  x \in OutcomeRows(t, r, base) <=>
            \E o \in Range(t.outcomes) : x = OutcomeRow(r, base, o)
BY Zenon DEF OutcomeRows, OutcomeRow

LEMMA ActionsAreConcluded ==
  ASSUME NEW t, NEW r, NEW base, Lists(t), OutcomesAreLinked(t)
  PROVE  ActionsConclude(MapTrace(t, r, base))
<1> SUFFICES ASSUME NEW x \in ActionRows(t, r, base)
             PROVE  \E o \in OutcomeRows(t, r, base) :
                      /\ o.action = x.id
                      /\ x.status = IF o.success THEN "succeeded" ELSE "failed"
                      /\ x.executed = o.at
                      /\ \A q \in OutcomeRows(t, r, base) : q.action = x.id => q = o
  BY DEF ActionsConclude, MapTrace
<1>1. PICK a \in Range(t.actions) :
         /\ x.id = ActionId(r, a.order)
         /\ x.status = IF OutcomeOfAction(t, a.order).success THEN "succeeded" ELSE "failed"
         /\ x.executed = base + OutcomeOfAction(t, a.order).order
  BY DEF ActionRows
<1>2. PICK v : v = OutcomeOfAction(t, a.order)
  OBVIOUS
<1>3. /\ v \in Range(t.outcomes) /\ v.action_order = a.order
      /\ \A o \in Range(t.outcomes) : o.action_order = a.order => o = v
  BY <1>2, OneOutcome
<1>4. PICK o : o = OutcomeRow(r, base, v)
  OBVIOUS
<1>5. o \in OutcomeRows(t, r, base)
  BY <1>3, <1>4, OutcomeRowOf
<1>6. /\ o.action = x.id
      /\ x.executed = o.at
  BY <1>1, <1>2, <1>3, <1>4 DEF OutcomeRow
<1>7. x.status = IF o.success THEN "succeeded" ELSE "failed"
  <2>1. o.success = v.success
    BY <1>4 DEF OutcomeRow
  <2> QED BY <1>1, <1>2, <2>1, Zenon
<1>8. ASSUME NEW q \in OutcomeRows(t, r, base), q.action = x.id
      PROVE  q = o
  <2>1. PICK w \in Range(t.outcomes) : q = OutcomeRow(r, base, w)
    BY OutcomeRowOf
  <2>2. ActionId(r, w.action_order) = ActionId(r, a.order)
    BY <1>1, <1>8, <2>1 DEF OutcomeRow
  <2>3. w.action_order = a.order
    BY <2>2 DEF ActionId
  <2> QED BY <1>3, <1>4, <2>1, <2>3
<1> QED BY <1>5, <1>6, <1>7, <1>8

\* The checkpoint names the last action and all actions as completed.
CheckpointTells(m) ==
    /\ m.checkpoint.step = m.run.step
    /\ m.checkpoint.agent_state.current_step = m.run.step
    /\ m.checkpoint.agent_state.completed_action_ids = Ids(m.actions)
    /\ m.actions # {} => m.checkpoint.last \in Ids(m.actions)
    /\ \A a \in m.actions, b \in m.actions :
          m.checkpoint.last = a.id => b.order <= a.order

LEMMA LastActionIsLast ==
  ASSUME NEW t, NEW r, Lists(t), OrdersAreContiguous(t), Range(t.actions) # {}
  PROVE  \E a \in Range(t.actions) :
            /\ LastActionId(t, r) = ActionId(r, a.order)
            /\ \A b \in Range(t.actions) : b.order <= a.order
<1> DEFINE T == {a.order : a \in Range(t.actions)}
<1>n. PICK n \in Nat : n = RecordCount(t)
  BY CountOfRecords
<1>1. \A a \in Range(t.actions) : a.order \in 1 .. n
  <2>1. OrdersNameRecords(t)
    BY OrdersName
  <2> QED BY <2>1, <1>n DEF OrdersNameRecords, Records
<1>2. T \in SUBSET Nat /\ T # {} /\ \A x \in T : x <= n
  BY <1>1
<1>3. \E x \in T : \A y \in T : y <= x
  <2> HIDE DEF T
  <2> QED BY <1>2, <1>n, LargestExists
<1>4. \E x \in T : \A a \in Range(t.actions) : a.order <= x
  BY <1>3
<1>5. PICK z : z = CHOOSE x \in T : \A a \in Range(t.actions) : a.order <= x
  OBVIOUS
<1>6. z \in T /\ \A a \in Range(t.actions) : a.order <= z
  BY <1>4, <1>5
<1>7. t.actions # <<>>
  <2>1. \E i \in 1 .. Len(t.actions) : TRUE
    BY ListedAt DEF Lists
  <2> QED BY <2>1
<1>8. LastActionId(t, r) = ActionId(r, z)
  BY <1>5, <1>7 DEF LastActionId
<1> QED BY <1>6, <1>8

LEMMA ActionRowOf ==
  ASSUME NEW t, NEW r, NEW base
  PROVE  /\ \A x \in ActionRows(t, r, base) : \E a \in Range(t.actions) :
               x.id = ActionId(r, a.order) /\ x.order = a.order
         /\ \A a \in Range(t.actions) : \E x \in ActionRows(t, r, base) :
               x.id = ActionId(r, a.order) /\ x.order = a.order
<1> DEFINE Row(a) ==
       [id |-> ActionId(r, a.order), run |-> r, device |-> a.device, order |-> a.order,
        type |-> a.type,
        status |-> IF OutcomeOfAction(t, a.order).success THEN "succeeded" ELSE "failed",
        created |-> base + a.order, executed |-> base + OutcomeOfAction(t, a.order).order]
<1>1. ActionRows(t, r, base) = {Row(a) : a \in Range(t.actions)}
  BY DEF ActionRows
<1>2. \A a : Row(a).id = ActionId(r, a.order) /\ Row(a).order = a.order
  OBVIOUS
<1> HIDE DEF Row
<1> QED BY <1>1, <1>2

LEMMA CheckpointOfRecords ==
  ASSUME NEW t, NEW r, NEW base, Lists(t), OrdersAreContiguous(t)
  PROVE  CheckpointTells(MapTrace(t, r, base))
<1>m. PICK m : m = MapTrace(t, r, base)
  OBVIOUS
<1>r. /\ m.actions = ActionRows(t, r, base)
      /\ m.run.step = RecordCount(t)
      /\ m.checkpoint = CheckpointRow(t, r, base)
  BY <1>m DEF MapTrace, RunRow
<1>a. /\ \A x \in m.actions : \E a \in Range(t.actions) :
            x.id = ActionId(r, a.order) /\ x.order = a.order
      /\ \A a \in Range(t.actions) : \E x \in m.actions :
            x.id = ActionId(r, a.order) /\ x.order = a.order
  BY <1>r, ActionRowOf
<1>1. m.checkpoint.step = m.run.step
  BY <1>r DEF CheckpointRow
<1>c. m.checkpoint.agent_state.current_step = m.run.step
  BY <1>r DEF CheckpointRow, AgentState
<1>2. m.checkpoint.agent_state.completed_action_ids = Ids(m.actions)
  <2>1. m.checkpoint.agent_state.completed_action_ids = {ActionId(r, a.order) : a \in Range(t.actions)}
    BY <1>r DEF CheckpointRow, AgentState
  <2> QED BY <2>1, <1>a DEF Ids
<1>l. m.checkpoint.last = LastActionId(t, r)
  BY <1>r DEF CheckpointRow
<1>3. ASSUME m.actions # {}
      PROVE  m.checkpoint.last \in Ids(m.actions)
  <2>1. Range(t.actions) # {}
    BY <1>3, <1>a
  <2>2. PICK a \in Range(t.actions) : LastActionId(t, r) = ActionId(r, a.order)
    BY <2>1, LastActionIsLast
  <2> QED BY <2>2, <1>l, <1>a DEF Ids
<1>4. ASSUME NEW x \in m.actions, NEW y \in m.actions, m.checkpoint.last = x.id
      PROVE  y.order <= x.order
  <2>1. PICK a \in Range(t.actions) : x.id = ActionId(r, a.order) /\ x.order = a.order
    BY <1>a
  <2>2. PICK b \in Range(t.actions) : y.order = b.order
    BY <1>a
  <2>3. PICK z \in Range(t.actions) :
           LastActionId(t, r) = ActionId(r, z.order) /\ \A c \in Range(t.actions) : c.order <= z.order
    BY LastActionIsLast
  <2>4. ActionId(r, z.order) = ActionId(r, a.order)
    BY <1>4, <1>l, <2>1, <2>3
  <2>5. z.order = a.order
    BY <2>4 DEF ActionId
  <2> QED BY <2>1, <2>2, <2>3, <2>5
<1> QED BY <1>m, <1>1, <1>c, <1>2, <1>3, <1>4 DEF CheckpointTells

\* What a restore would hold as connected is what the devices table shows.
DevicesAgree(m) ==
    \A x \in m.devices :
        LET restored == m.checkpoint.agent_state.device_states[x.id]
        IN /\ restored.connection = x.connection
           /\ restored.faults = x.faults
           /\ restored.resource => x.connection = "connected"

LEMMA DevicesOfCheckpoint ==
  ASSUME NEW t, NEW r, NEW base, CheckpointIsCoherent(t.checkpoint)
  PROVE  DevicesAgree(MapTrace(t, r, base))
<1> SUFFICES ASSUME NEW x \in DeviceRows(t, base)
             PROVE  /\ t.checkpoint[x.id].connection = x.connection
                    /\ t.checkpoint[x.id].faults = x.faults
                    /\ t.checkpoint[x.id].resource => x.connection = "connected"
  BY DEF DevicesAgree, MapTrace, CheckpointRow, AgentState
<1>1. PICK d \in Catalog : /\ x.id = d /\ x.connection = t.checkpoint[d].connection
                          /\ x.faults = t.checkpoint[d].faults
  BY DEF DeviceRows
<1> QED BY <1>1 DEF CheckpointIsCoherent

---------------------------------------------------------------------------
(* What a database without rows would say to them.                         *)

\* The outcome of an action was recorded after it.
OutcomesFollow(t) ==
    \A o \in Range(t.outcomes), a \in Range(t.actions) :
        o.action_order = a.order => a.order <= o.order

LEMMA SavedInEmpty ==
  ASSUME NEW m
  PROVE  /\ SavedTrace(EmptyTables, m).devices = m.devices
         /\ SavedTrace(EmptyTables, m).runs = {m.run}
         /\ SavedTrace(EmptyTables, m).observations = m.observations
         /\ SavedTrace(EmptyTables, m).actions = m.actions
         /\ SavedTrace(EmptyTables, m).outcomes = m.outcomes
         /\ SavedTrace(EmptyTables, m).checkpoints = {m.checkpoint}
         /\ SavedTrace(EmptyTables, m).audits = m.audits
<1>1. \A S : InsertedById({}, S) = S
  BY DEF InsertedById, Ids
<1>2. \A S : UpsertedDevices({}, S) = S
  <2> SUFFICES ASSUME NEW S
               PROVE  UpsertedDevices({}, S) = S
    OBVIOUS
  <2>1. {x \in S : x.id \notin Ids({})} = S
    BY DEF Ids
  <2>2. UNION {{Upserted(y, x) : y \in {s \in {} : s.id = x.id}} : x \in S} = {}
    OBVIOUS
  <2> QED BY <2>1, <2>2 DEF UpsertedDevices
<1> QED BY <1>1, <1>2 DEF SavedTrace, EmptyTables

DeviceStored(t, base, d) ==
    [id |-> d, connection |-> t.checkpoint[d].connection,
     faults |-> t.checkpoint[d].faults, calibration |-> None,
     created |-> base, updated |-> base + RecordCount(t)]

LEMMA DevicesStorable ==
  ASSUME NEW t, NEW base \in Nat, Lists(t), NEW d, d.devices = DeviceRows(t, base)
  PROVE  DeviceConstraints(d) /\ Catalog \subseteq Ids(d.devices)
<1>n. RecordCount(t) \in Nat
  BY CountOfRecords
<1>1. d.devices = {DeviceStored(t, base, x) : x \in Catalog}
  BY DEF DeviceRows, DeviceStored
<1>2. \A x : /\ DeviceStored(t, base, x).id = x
             /\ DeviceStored(t, base, x).created = base
             /\ DeviceStored(t, base, x).updated = base + RecordCount(t)
  BY DEF DeviceStored
<1>3. PrimaryKey(d.devices)
  BY <1>1, <1>2 DEF PrimaryKey
<1>4. \A x \in d.devices : x.created = base /\ x.updated = base + RecordCount(t)
  BY <1>1, <1>2
<1>5. base + RecordCount(t) >= base
  BY <1>n
<1>6. \A x \in d.devices : x.updated >= x.created
  BY <1>4, <1>5
<1>7. Catalog \subseteq Ids(d.devices)
  BY <1>1, <1>2 DEF Ids
<1> QED BY <1>3, <1>6, <1>7 DEF DeviceConstraints

ObservationRow(r, base, x) ==
    [id |-> <<r, "observation", x.order>>, run |-> r, device |-> x.device,
     order |-> x.order, type |-> x.type, at |-> base + x.order]

LEMMA ObservationsStorable ==
  ASSUME NEW t, NEW r, NEW base, OrdersNameRecords(t), DevicesAreKnown(t), Lists(t),
         NEW d, d.observations = ObservationRows(t, r, base), r \in Ids(d.runs),
         Catalog \subseteq Ids(d.devices)
  PROVE  ObservationConstraints(d)
<1>1. d.observations = {ObservationRow(r, base, x) : x \in Range(t.observations)}
  BY DEF ObservationRows, ObservationRow
<1>2. \A x : /\ ObservationRow(r, base, x).id = <<r, "observation", x.order>>
             /\ ObservationRow(r, base, x).order = x.order
             /\ ObservationRow(r, base, x).run = r
             /\ ObservationRow(r, base, x).device = x.device
  BY DEF ObservationRow
<1>3. ASSUME NEW x \in d.observations, NEW y \in d.observations, x.order = y.order
      PROVE  x = y
  <2>1. PICK v \in Range(t.observations) : x = ObservationRow(r, base, v)
    BY <1>1
  <2>2. PICK w \in Range(t.observations) : y = ObservationRow(r, base, w)
    BY <1>1
  <2>3. v.order = w.order
    BY <2>1, <2>2, <1>2, <1>3
  <2> QED BY <2>1, <2>2, <2>3 DEF OrdersNameRecords
<1>4. \A x \in d.observations : x.id = <<r, "observation", x.order>>
  BY <1>1, <1>2
<1>5. PrimaryKey(d.observations)
  <2> SUFFICES ASSUME NEW x \in d.observations, NEW y \in d.observations, x.id = y.id
               PROVE  x.order = y.order
    BY <1>3 DEF PrimaryKey
  <2>1. <<r, "observation", x.order>> = <<r, "observation", y.order>>
    BY <1>4
  <2> QED BY <2>1
<1>6. OncePerRun(d.observations, "order")
  BY <1>3 DEF OncePerRun
<1>n. PICK n \in Nat : n = RecordCount(t)
  BY CountOfRecords
<1>7. \A v \in Range(t.observations) : v.order \in 1 .. n /\ v.device \in Catalog
  BY <1>n DEF OrdersNameRecords, Records, DevicesAreKnown
<1>8. \A v \in Range(t.observations) : v.order > 0
  BY <1>7
<1>9. \A x \in d.observations : x.order > 0 /\ x.run \in Ids(d.runs) /\ x.device \in Ids(d.devices)
  BY <1>1, <1>2, <1>7, <1>8
<1> QED BY <1>5, <1>6, <1>9 DEF ObservationConstraints

ActionRow(t, r, base, a) ==
    [id |-> ActionId(r, a.order), run |-> r, device |-> a.device, order |-> a.order,
     type |-> a.type,
     status |-> IF OutcomeOfAction(t, a.order).success THEN "succeeded" ELSE "failed",
     created |-> base + a.order, executed |-> base + OutcomeOfAction(t, a.order).order]

LEMMA ActionsStorable ==
  ASSUME NEW t, NEW r, NEW base \in Nat, OrdersNameRecords(t), DevicesAreKnown(t), Lists(t),
         OutcomesAreLinked(t), OutcomesFollow(t),
         NEW d, d.actions = ActionRows(t, r, base), r \in Ids(d.runs),
         Catalog \subseteq Ids(d.devices)
  PROVE  ActionConstraints(d)
<1>1. d.actions = {ActionRow(t, r, base, x) : x \in Range(t.actions)}
  BY DEF ActionRows, ActionRow
<1>2. \A x : /\ ActionRow(t, r, base, x).id = ActionId(r, x.order)
             /\ ActionRow(t, r, base, x).order = x.order
             /\ ActionRow(t, r, base, x).run = r
             /\ ActionRow(t, r, base, x).device = x.device
             /\ ActionRow(t, r, base, x).created = base + x.order
             /\ ActionRow(t, r, base, x).executed = base + OutcomeOfAction(t, x.order).order
  BY DEF ActionRow
<1>3. ASSUME NEW x \in d.actions, NEW y \in d.actions, x.order = y.order
      PROVE  x = y
  <2>1. PICK v \in Range(t.actions) : x = ActionRow(t, r, base, v)
    BY <1>1
  <2>2. PICK w \in Range(t.actions) : y = ActionRow(t, r, base, w)
    BY <1>1
  <2>3. v.order = w.order
    BY <2>1, <2>2, <1>2, <1>3
  <2> QED BY <2>1, <2>2, <2>3 DEF OrdersNameRecords
<1>4. \A x \in d.actions : x.id = ActionId(r, x.order)
  BY <1>1, <1>2
<1>5. PrimaryKey(d.actions)
  <2> SUFFICES ASSUME NEW x \in d.actions, NEW y \in d.actions, x.id = y.id
               PROVE  x.order = y.order
    BY <1>3 DEF PrimaryKey
  <2>1. ActionId(r, x.order) = ActionId(r, y.order)
    BY <1>4
  <2> QED BY <2>1 DEF ActionId
<1>6. OncePerRun(d.actions, "order")
  BY <1>3 DEF OncePerRun
<1>n. PICK n \in Nat : n = RecordCount(t)
  BY CountOfRecords
<1>7. \A v \in Range(t.actions) : v.order \in 1 .. n /\ v.device \in Catalog
  BY <1>n DEF OrdersNameRecords, Records, DevicesAreKnown
<1>8. \A v \in Range(t.outcomes) : v.order \in 1 .. n
  BY <1>n DEF OrdersNameRecords, Records
<1>9. \A v \in Range(t.actions) :
         v.order > 0 /\ base + OutcomeOfAction(t, v.order).order >= base + v.order
  <2> SUFFICES ASSUME NEW v \in Range(t.actions)
               PROVE  v.order > 0 /\ base + OutcomeOfAction(t, v.order).order >= base + v.order
    OBVIOUS
  <2>1. PICK o : o = OutcomeOfAction(t, v.order)
    OBVIOUS
  <2>2. o \in Range(t.outcomes) /\ o.action_order = v.order
    BY <2>1, OneOutcome
  <2>3. v.order <= o.order
    BY <2>2 DEF OutcomesFollow
  <2>4. v.order \in Nat /\ o.order \in Nat /\ v.order > 0
    BY <2>2, <1>7, <1>8
  <2>5. base + o.order >= base + v.order
    BY <2>3, <2>4
  <2> QED BY <2>1, <2>4, <2>5
<1>10. \A x \in d.actions :
          /\ x.order > 0
          /\ x.run \in Ids(d.runs)
          /\ x.device \in Ids(d.devices)
          /\ x.executed >= x.created
  BY <1>1, <1>2, <1>7, <1>9
<1> QED BY <1>5, <1>6, <1>10 DEF ActionConstraints

LEMMA OutcomesStorable ==
  ASSUME NEW t, NEW r, NEW base, OrdersNameRecords(t), OutcomesAreLinked(t), Lists(t),
         NEW d, d.outcomes = OutcomeRows(t, r, base), d.actions = ActionRows(t, r, base)
  PROVE  OutcomeConstraints(d)
<1>1. \A x : x \in d.outcomes <=> \E o \in Range(t.outcomes) : x = OutcomeRow(r, base, o)
  BY OutcomeRowOf
<1>2. \A x : /\ OutcomeRow(r, base, x).id = OutcomeId(r, x.order)
             /\ OutcomeRow(r, base, x).order = x.order
             /\ OutcomeRow(r, base, x).action = ActionId(r, x.action_order)
  BY DEF OutcomeRow
<1>l. \A o \in Range(t.outcomes) : \E a \in Range(t.actions) : a.order = o.action_order
  <2>1. \A o \in Range(t.outcomes) : o.action_order \in {a.order : a \in Range(t.actions)}
    BY DEF OutcomesAreLinked
  <2> QED BY <2>1
<1>3. ASSUME NEW x \in d.outcomes, NEW y \in d.outcomes, x.id = y.id
      PROVE  x = y
  <2>1. PICK v \in Range(t.outcomes) : x = OutcomeRow(r, base, v)
    BY <1>1
  <2>2. PICK w \in Range(t.outcomes) : y = OutcomeRow(r, base, w)
    BY <1>1
  <2>3. OutcomeId(r, v.order) = OutcomeId(r, w.order)
    BY <2>1, <2>2, <1>2, <1>3
  <2>4. v.order = w.order
    BY <2>3 DEF OutcomeId
  <2> QED BY <2>1, <2>2, <2>4 DEF OrdersNameRecords
<1>4. ASSUME NEW x \in d.outcomes, NEW y \in d.outcomes, x.action = y.action
      PROVE  x = y
  <2>1. PICK v \in Range(t.outcomes) : x = OutcomeRow(r, base, v)
    BY <1>1
  <2>2. PICK w \in Range(t.outcomes) : y = OutcomeRow(r, base, w)
    BY <1>1
  <2>3. ActionId(r, v.action_order) = ActionId(r, w.action_order)
    BY <2>1, <2>2, <1>2, <1>4
  <2>4. v.action_order = w.action_order
    BY <2>3 DEF ActionId
  <2>5. PICK a \in Range(t.actions) : a.order = v.action_order
    BY <1>l
  <2>6. v = OutcomeOfAction(t, a.order) /\ w = OutcomeOfAction(t, a.order)
    BY <2>4, <2>5, OneOutcome
  <2> QED BY <2>1, <2>2, <2>6
<1>n. PICK n \in Nat : n = RecordCount(t)
  BY CountOfRecords
<1>5. \A v \in Range(t.outcomes) : v.order \in 1 .. n
  BY <1>n DEF OrdersNameRecords, Records
<1>6. \A v \in Range(t.outcomes) : v.order > 0
  BY <1>5
<1>7. ASSUME NEW x \in d.outcomes
      PROVE  x.order > 0 /\ x.action \in Ids(d.actions)
  <2>1. PICK v \in Range(t.outcomes) : x = OutcomeRow(r, base, v)
    BY <1>1
  <2>2. PICK a \in Range(t.actions) : a.order = v.action_order
    BY <1>l
  <2>3. PICK y \in d.actions : y.id = ActionId(r, a.order)
    BY ActionRowOf
  <2>4. x.action = y.id
    BY <2>1, <2>2, <2>3, <1>2
  <2> QED BY <2>1, <2>4, <1>2, <1>6 DEF Ids
<1> QED BY <1>3, <1>4, <1>7 DEF OutcomeConstraints, PrimaryKey

LEMMA CheckpointStorable ==
  ASSUME NEW t, NEW r, NEW base, Lists(t), OrdersAreContiguous(t),
         NEW d, d.checkpoints = {CheckpointRow(t, r, base)},
         d.actions = ActionRows(t, r, base), r \in Ids(d.runs)
  PROVE  CheckpointConstraints(d)
<1>1. PICK k : k = CheckpointRow(t, r, base)
  OBVIOUS
<1>2. k.run = r /\ k.last = LastActionId(t, r) /\ k.pending = None
  BY <1>1 DEF CheckpointRow
<1>3. LastActionId(t, r) \in Ids(d.actions) \cup {None}
  <2>1. CASE Range(t.actions) = {}
    <3>1. t.actions = <<>>
      <4>1. IsList(t.actions)
        BY DEF Lists
      <4>2. Len(t.actions) = 0
        <5>1. ~ (1 \in 1 .. Len(t.actions))
          BY <2>1, <4>1, ListedAt
        <5> QED BY <5>1, <4>1 DEF IsList
      <4> QED BY <4>1, <4>2 DEF IsList
    <3> QED BY <3>1 DEF LastActionId
  <2>2. CASE Range(t.actions) # {}
    <3>1. PICK a \in Range(t.actions) : LastActionId(t, r) = ActionId(r, a.order)
      BY <2>2, LastActionIsLast
    <3>2. PICK x \in d.actions : x.id = ActionId(r, a.order)
      BY ActionRowOf
    <3> QED BY <3>1, <3>2 DEF Ids
  <2> QED BY <2>1, <2>2
<1>4. d.checkpoints = {k}
  BY <1>1
<1>5. PrimaryKey(d.checkpoints) /\ OncePerRun(d.checkpoints, "step")
  BY <1>4 DEF PrimaryKey, OncePerRun
<1>6. \A x \in d.checkpoints :
         x.run \in Ids(d.runs) /\ {x.last, x.pending} \ {None} \subseteq Ids(d.actions)
  BY <1>2, <1>3, <1>4
<1> QED BY <1>5, <1>6 DEF CheckpointConstraints

LEMMA AuditsStorable ==
  ASSUME NEW t, NEW r, NEW base, Lists(t),
         NEW d, d.audits = AuditRows(t, r, base), r \in Ids(d.runs)
  PROVE  AuditConstraints(d)
<1>n. PICK n \in Nat : n = RecordCount(t)
  BY CountOfRecords
<1> DEFINE Event(i) == [id |-> <<r, "audit", i>>, run |-> r, seq |-> i,
                        target |-> AuditTarget(t, r, i), at |-> base + i]
<1>1. d.audits = {Event(i) : i \in 1 .. n}
  BY <1>n DEF AuditRows
<1>2. \A i : Event(i).id = <<r, "audit", i>> /\ Event(i).run = r /\ Event(i).seq = i
  OBVIOUS
<1> HIDE DEF Event
<1>3. \A x \in d.audits : x.id = <<r, "audit", x.seq>> /\ x.run = r /\ x.seq \in 1 .. n
  BY <1>1, <1>2
<1>4. \A x, y \in d.audits : x.seq = y.seq => x = y
  BY <1>1, <1>2
<1>5. PrimaryKey(d.audits)
  <2> SUFFICES ASSUME NEW x \in d.audits, NEW y \in d.audits, x.id = y.id
               PROVE  x.seq = y.seq
    BY <1>4 DEF PrimaryKey
  <2>1. <<r, "audit", x.seq>> = <<r, "audit", y.seq>>
    BY <1>3
  <2> QED BY <2>1
<1>6. OncePerRun(d.audits, "seq")
  BY <1>4 DEF OncePerRun
<1>7. \A i \in 1 .. n : i > 0
  OBVIOUS
<1>8. \A x \in d.audits : x.seq > 0 /\ x.run \in Ids(d.runs)
  BY <1>3, <1>7
<1> QED BY <1>5, <1>6, <1>8 DEF AuditConstraints

LEMMA ValidIsStorable ==
  ASSUME NEW t, NEW r, NEW base \in Nat, Lists(t), ValidTrace(t), OutcomesFollow(t)
  PROVE  TraceConstraints(SavedTrace(EmptyTables, MapTrace(t, r, base)))
<1>m. PICK m : m = MapTrace(t, r, base)
  OBVIOUS
<1>d. PICK d : d = SavedTrace(EmptyTables, m)
  OBVIOUS
<1>r. /\ d.devices = DeviceRows(t, base)
      /\ d.runs = {RunRow(t, r, base)}
      /\ d.observations = ObservationRows(t, r, base)
      /\ d.actions = ActionRows(t, r, base)
      /\ d.outcomes = OutcomeRows(t, r, base)
      /\ d.checkpoints = {CheckpointRow(t, r, base)}
      /\ d.audits = AuditRows(t, r, base)
  <2>1. /\ m.devices = DeviceRows(t, base)
        /\ m.run = RunRow(t, r, base)
        /\ m.observations = ObservationRows(t, r, base)
        /\ m.actions = ActionRows(t, r, base)
        /\ m.outcomes = OutcomeRows(t, r, base)
        /\ m.checkpoint = CheckpointRow(t, r, base)
        /\ m.audits = AuditRows(t, r, base)
    BY <1>m DEF MapTrace
  <2> QED BY <2>1, <1>d, SavedInEmpty
<1>v. /\ OrdersAreContiguous(t) /\ OrdersNameRecords(t) /\ DevicesAreKnown(t)
      /\ OutcomesAreLinked(t)
  BY OrdersName DEF ValidTrace
<1>1. DeviceConstraints(d) /\ Catalog \subseteq Ids(d.devices)
  BY <1>r, DevicesStorable
<1>2. PrimaryKey(d.runs) /\ r \in Ids(d.runs)
  BY <1>r DEF PrimaryKey, Ids, RunRow
<1>3. ObservationConstraints(d)
  BY <1>1, <1>2, <1>r, <1>v, ObservationsStorable
<1>4. ActionConstraints(d)
  BY <1>1, <1>2, <1>r, <1>v, ActionsStorable
<1>5. OutcomeConstraints(d)
  BY <1>r, <1>v, OutcomesStorable
<1>6. CheckpointConstraints(d)
  BY <1>2, <1>r, <1>v, CheckpointStorable
<1>7. AuditConstraints(d)
  BY <1>2, <1>r, AuditsStorable
<1>8. TraceConstraints(d)
  BY <1>1, <1>2, <1>3, <1>4, <1>5, <1>6, <1>7 DEF TraceConstraints
<1> QED BY <1>8, <1>d, <1>m

---------------------------------------------------------------------------
(* The rows of a valid trace tell one story.                               *)

StoryOf(m) ==
    /\ TimelineIsWhole(m)
    /\ CountsAddUp(m)
    /\ PlacesAgree(m)
    /\ ActionsConclude(m)
    /\ CheckpointTells(m)
    /\ DevicesAgree(m)

LEMMA ValidTellsStory ==
  ASSUME NEW t, NEW r, NEW base, Lists(t), ValidTrace(t)
  PROVE  StoryOf(MapTrace(t, r, base))
<1>v. /\ OrdersAreContiguous(t) /\ OrdersNameRecords(t) /\ OutcomesAreLinked(t)
      /\ CheckpointIsCoherent(t.checkpoint)
  BY OrdersName DEF ValidTrace
<1>1. CountsAddUp(MapTrace(t, r, base))
  <2>1. /\ MapTrace(t, r, base).observations = ObservationRows(t, r, base)
        /\ MapTrace(t, r, base).actions = ActionRows(t, r, base)
        /\ MapTrace(t, r, base).outcomes = OutcomeRows(t, r, base)
        /\ MapTrace(t, r, base).run.step = RecordCount(t)
    BY DEF MapTrace, RunRow
  <2> QED BY <2>1, <1>v, RowsAreCounted DEF CountsAddUp, RecordCount
<1> QED BY <1>1, <1>v, TimelineWhole, PlacesOfRecords, ActionsAreConcluded, CheckpointOfRecords,
           DevicesOfCheckpoint DEF StoryOf

---------------------------------------------------------------------------
(* The builder.                                                            *)

Noted == [order : Nat, device : Catalog, type : {"any"}]

Concluded ==
    [order : Nat, device : Catalog, action_order : Nat, success : BOOLEAN, error : BOOLEAN]

TypesInv ==
    /\ observations \in Seq(Noted)
    /\ actions \in Seq(Noted)
    /\ outcomes \in Seq(Concluded)
    /\ next_order \in Nat \ {0}

\* One counter for three lists, and outcome() takes what attempt() returned.
CounterInv ==
    /\ {x.order : x \in Range(observations) \cup Range(actions) \cup Range(outcomes)}
          = 1 .. next_order - 1
    /\ Len(observations) + Len(actions) + Len(outcomes) = next_order - 1

OutcomeInv ==
    /\ \A o \in Range(outcomes) :
          /\ \E a \in Range(actions) :
                a.order = o.action_order /\ a.device = o.device /\ a.order < o.order
          /\ o.success => ~ o.error
    /\ \A i, j \in 1 .. Len(outcomes) :
          outcomes[i].action_order = outcomes[j].action_order => i = j

MappedInv ==
    /\ trace # None => Lists(trace)
    /\ rows.kind # "none" => trace # None
    /\ rows.kind = "rows" => ValidTrace(trace) /\ rows.rows = MapTrace(trace, RunId, BaseTime)
    /\ rows.kind \notin {"none", "rows"} => ~ ValidTrace(trace)

BuilderInv == TypesInv /\ CounterInv /\ OutcomeInv /\ MappedInv

LEMMA AppendedRange ==
  ASSUME NEW S, NEW s \in Seq(S), NEW e \in S
  PROVE  /\ Append(s, e) \in Seq(S)
         /\ Range(Append(s, e)) = Range(s) \cup {e}
         /\ Len(Append(s, e)) = Len(s) + 1
         /\ \A i \in 1 .. Len(s) : Append(s, e)[i] = s[i]
         /\ Append(s, e)[Len(s) + 1] = e
<1>1. /\ Append(s, e) \in Seq(S)
      /\ Len(Append(s, e)) = Len(s) + 1
      /\ \A i \in 1 .. Len(s) : Append(s, e)[i] = s[i]
      /\ Append(s, e)[Len(s) + 1] = e
  OBVIOUS
<1>2. PICK n \in Nat : n = Len(s)
  OBVIOUS
<1>3. DOMAIN s = 1 .. n /\ DOMAIN Append(s, e) = 1 .. n + 1
  BY <1>2
<1>4. \A x : x \in Range(Append(s, e)) <=> x \in Range(s) \cup {e}
  <2>1. \A i : i \in 1 .. n + 1 <=> i \in 1 .. n \/ i = n + 1
    OBVIOUS
  <2> QED BY <1>1, <1>2, <1>3, <2>1 DEF Range
<1> QED BY <1>1, <1>4

LEMMA CounterMoves ==
  ASSUME NEW S, NEW n \in Nat \ {0}, {x.order : x \in S} = 1 .. n - 1, NEW e, e.order = n
  PROVE  {x.order : x \in S \cup {e}} = 1 .. (n + 1) - 1
<1>1. {x.order : x \in S \cup {e}} = {x.order : x \in S} \cup {n}
  OBVIOUS
<1>2. 1 .. (n + 1) - 1 = (1 .. n - 1) \cup {n}
  OBVIOUS
<1> QED BY <1>1, <1>2

LEMMA InitBuilder == Init => BuilderInv
<1> SUFFICES ASSUME Init PROVE BuilderInv
  OBVIOUS
<1>1. Range(<<>>) = {}
  BY DEF Range
<1>2. TypesInv
  BY DEF Init, TypesInv
<1>3. CounterInv
  <2>1. {x.order : x \in Range(observations) \cup Range(actions) \cup Range(outcomes)} = {}
    BY <1>1 DEF Init
  <2>2. 1 .. next_order - 1 = {}
    BY DEF Init
  <2> QED BY <2>1, <2>2 DEF Init, CounterInv
<1>4. OutcomeInv
  BY <1>1 DEF Init, OutcomeInv
<1>5. MappedInv
  BY DEF Init, MappedInv
<1> QED BY <1>2, <1>3, <1>4, <1>5 DEF BuilderInv

LEMMA MappedKept ==
  ASSUME MappedInv, UNCHANGED <<trace, rows>>
  PROVE  MappedInv'
BY DEF MappedInv

LEMMA ObserveKeeps ==
  ASSUME BuilderInv, NEW d \in Catalog, Observe(d)
  PROVE  BuilderInv'
<1>e. PICK e : e = [order |-> next_order, device |-> d, type |-> "any"]
  OBVIOUS
<1>1. /\ observations' = Append(observations, e)
      /\ next_order' = next_order + 1
      /\ actions' = actions /\ outcomes' = outcomes
      /\ UNCHANGED <<trace, rows>>
  BY <1>e DEF Observe
<1>t. TypesInv
  BY DEF BuilderInv
<1>2. e \in Noted /\ e.order = next_order
  BY <1>e, <1>t DEF TypesInv, Noted
<1>3. /\ observations' \in Seq(Noted)
      /\ Range(observations') = Range(observations) \cup {e}
      /\ Len(observations') = Len(observations) + 1
  BY <1>1, <1>2, <1>t, AppendedRange DEF TypesInv
<1>4. TypesInv'
  BY <1>1, <1>3, <1>t DEF TypesInv
<1>5. CounterInv'
  <2> DEFINE S == Range(observations) \cup Range(actions) \cup Range(outcomes)
  <2>1. {x.order : x \in S} = 1 .. next_order - 1
    BY DEF BuilderInv, CounterInv
  <2>2. {x.order : x \in S \cup {e}} = 1 .. (next_order + 1) - 1
    <3> HIDE DEF S
    <3> QED BY <2>1, <1>2, <1>t, CounterMoves DEF TypesInv
  <2>3. Range(observations') \cup Range(actions') \cup Range(outcomes') = S \cup {e}
    BY <1>1, <1>3
  <2>4. Len(observations') + Len(actions') + Len(outcomes') = next_order' - 1
    <3>1. Len(observations) \in Nat /\ Len(actions) \in Nat /\ Len(outcomes) \in Nat
      BY <1>t DEF TypesInv
    <3>2. Len(observations) + Len(actions) + Len(outcomes) = next_order - 1
      BY DEF BuilderInv, CounterInv
    <3> QED BY <3>1, <3>2, <1>1, <1>3, <1>t DEF TypesInv
  <2> QED BY <2>2, <2>3, <2>4, <1>1 DEF CounterInv
<1>6. OutcomeInv'
  BY <1>1 DEF BuilderInv, OutcomeInv
<1>7. MappedInv'
  BY <1>1, MappedKept DEF BuilderInv
<1> QED BY <1>4, <1>5, <1>6, <1>7 DEF BuilderInv

LEMMA AttemptKeeps ==
  ASSUME BuilderInv, NEW d \in Catalog, Attempt(d)
  PROVE  BuilderInv'
<1>e. PICK e : e = [order |-> next_order, device |-> d, type |-> "any"]
  OBVIOUS
<1>1. /\ actions' = Append(actions, e)
      /\ next_order' = next_order + 1
      /\ observations' = observations /\ outcomes' = outcomes
      /\ UNCHANGED <<trace, rows>>
  BY <1>e DEF Attempt
<1>t. TypesInv
  BY DEF BuilderInv
<1>2. e \in Noted /\ e.order = next_order
  BY <1>e, <1>t DEF TypesInv, Noted
<1>3. /\ actions' \in Seq(Noted)
      /\ Range(actions') = Range(actions) \cup {e}
      /\ Len(actions') = Len(actions) + 1
  BY <1>1, <1>2, <1>t, AppendedRange DEF TypesInv
<1>4. TypesInv'
  BY <1>1, <1>3, <1>t DEF TypesInv
<1>5. CounterInv'
  <2> DEFINE S == Range(observations) \cup Range(actions) \cup Range(outcomes)
  <2>1. {x.order : x \in S} = 1 .. next_order - 1
    BY DEF BuilderInv, CounterInv
  <2>2. {x.order : x \in S \cup {e}} = 1 .. (next_order + 1) - 1
    <3> HIDE DEF S
    <3> QED BY <2>1, <1>2, <1>t, CounterMoves DEF TypesInv
  <2>3. Range(observations') \cup Range(actions') \cup Range(outcomes') = S \cup {e}
    BY <1>1, <1>3
  <2>4. Len(observations') + Len(actions') + Len(outcomes') = next_order' - 1
    <3>1. Len(observations) \in Nat /\ Len(actions) \in Nat /\ Len(outcomes) \in Nat
      BY <1>t DEF TypesInv
    <3>2. Len(observations) + Len(actions) + Len(outcomes) = next_order - 1
      BY DEF BuilderInv, CounterInv
    <3> QED BY <3>1, <3>2, <1>1, <1>3, <1>t DEF TypesInv
  <2> QED BY <2>2, <2>3, <2>4, <1>1 DEF CounterInv
<1>6. OutcomeInv'
  BY <1>1, <1>3 DEF BuilderInv, OutcomeInv
<1>7. MappedInv'
  BY <1>1, MappedKept DEF BuilderInv
<1> QED BY <1>4, <1>5, <1>6, <1>7 DEF BuilderInv

LEMMA RecordOutcomeKeeps ==
  ASSUME BuilderInv, NEW a \in Range(actions), NEW ok \in BOOLEAN, NEW error \in BOOLEAN,
         ~ (ok /\ error), RecordOutcome(a, ok, error)
  PROVE  BuilderInv'
<1>e. PICK e : e = [order |-> next_order, device |-> a.device, action_order |-> a.order,
                    success |-> ok, error |-> error]
  OBVIOUS
<1>1. /\ outcomes' = Append(outcomes, e)
      /\ next_order' = next_order + 1
      /\ observations' = observations /\ actions' = actions
      /\ UNCHANGED <<trace, rows>>
  BY <1>e DEF RecordOutcome
<1>g. \A o \in Range(outcomes) : o.action_order # a.order
  BY DEF RecordOutcome
<1>t. TypesInv
  BY DEF BuilderInv
<1>a. a \in Noted /\ a.order \in 1 .. next_order - 1
  <2>1. a \in Noted
    BY <1>t DEF TypesInv, Range
  <2>2. a.order \in {x.order : x \in Range(observations) \cup Range(actions) \cup Range(outcomes)}
    OBVIOUS
  <2> QED BY <2>1, <2>2 DEF BuilderInv, CounterInv
<1>b. a.order < next_order
  BY <1>a, <1>t DEF TypesInv
<1>2. /\ e \in Concluded /\ e.order = next_order /\ e.action_order = a.order
      /\ e.device = a.device
  BY <1>e, <1>a, <1>t DEF TypesInv, Noted, Concluded
<1>s. e.success => ~ e.error
  BY <1>e
<1>3. /\ outcomes' \in Seq(Concluded)
      /\ Range(outcomes') = Range(outcomes) \cup {e}
      /\ Len(outcomes') = Len(outcomes) + 1
      /\ \A i \in 1 .. Len(outcomes) : outcomes'[i] = outcomes[i]
      /\ outcomes'[Len(outcomes) + 1] = e
  BY <1>1, <1>2, <1>t, AppendedRange DEF TypesInv
<1>4. TypesInv'
  BY <1>1, <1>3, <1>t DEF TypesInv
<1>5. CounterInv'
  <2> DEFINE S == Range(observations) \cup Range(actions) \cup Range(outcomes)
  <2>1. {x.order : x \in S} = 1 .. next_order - 1
    BY DEF BuilderInv, CounterInv
  <2>2. {x.order : x \in S \cup {e}} = 1 .. (next_order + 1) - 1
    <3> HIDE DEF S
    <3> QED BY <2>1, <1>2, <1>t, CounterMoves DEF TypesInv
  <2>3. Range(observations') \cup Range(actions') \cup Range(outcomes') = S \cup {e}
    BY <1>1, <1>3
  <2>4. Len(observations') + Len(actions') + Len(outcomes') = next_order' - 1
    <3>1. Len(observations) \in Nat /\ Len(actions) \in Nat /\ Len(outcomes) \in Nat
      BY <1>t DEF TypesInv
    <3>2. Len(observations) + Len(actions) + Len(outcomes) = next_order - 1
      BY DEF BuilderInv, CounterInv
    <3> QED BY <3>1, <3>2, <1>1, <1>3, <1>t DEF TypesInv
  <2> QED BY <2>2, <2>3, <2>4, <1>1 DEF CounterInv
<1>6. OutcomeInv'
  <2>1. \A o \in Range(outcomes) :
           /\ \E b \in Range(actions) :
                 b.order = o.action_order /\ b.device = o.device /\ b.order < o.order
           /\ o.success => ~ o.error
    BY DEF BuilderInv, OutcomeInv
  <2>2. \A o \in Range(outcomes') :
           /\ \E b \in Range(actions') :
                 b.order = o.action_order /\ b.device = o.device /\ b.order < o.order
           /\ o.success => ~ o.error
    BY <2>1, <1>1, <1>2, <1>3, <1>b, <1>s
  <2>n. PICK n \in Nat : n = Len(outcomes)
    BY <1>t DEF TypesInv
  <2>o. \A i \in 1 .. n : outcomes[i] \in Range(outcomes)
    BY <2>n, <1>t DEF TypesInv, Range
  <2>3. ASSUME NEW i \in 1 .. n + 1, NEW j \in 1 .. n + 1,
               outcomes'[i].action_order = outcomes'[j].action_order
        PROVE  i = j
    <3>1. CASE i \in 1 .. n /\ j \in 1 .. n
      <4>1. outcomes[i].action_order = outcomes[j].action_order
        BY <2>n, <2>3, <3>1, <1>3
      <4> QED BY <4>1, <2>n, <3>1 DEF BuilderInv, OutcomeInv
    <3>2. CASE i = n + 1 /\ j \in 1 .. n
      BY <2>n, <2>o, <2>3, <3>2, <1>2, <1>3, <1>g
    <3>3. CASE i \in 1 .. n /\ j = n + 1
      BY <2>n, <2>o, <2>3, <3>3, <1>2, <1>3, <1>g
    <3>4. CASE i = n + 1 /\ j = n + 1
      BY <3>4
    <3>5. (i \in 1 .. n \/ i = n + 1) /\ (j \in 1 .. n \/ j = n + 1)
      OBVIOUS
    <3> QED BY <3>1, <3>2, <3>3, <3>4, <3>5
  <2> QED BY <2>2, <2>3, <2>n, <1>3 DEF OutcomeInv
<1>7. MappedInv'
  BY <1>1, MappedKept DEF BuilderInv
<1> QED BY <1>4, <1>5, <1>6, <1>7 DEF BuilderInv

LEMMA BuildersLists ==
  ASSUME TypesInv
  PROVE  IsList(observations) /\ IsList(actions) /\ IsList(outcomes)
BY SequencesAreLists DEF TypesInv

LEMMA OthersLists ==
  ASSUME NEW t \in OtherTraces
  PROVE  Lists(t)
BY OtherTracesAssumption, SequencesAreLists DEF Lists

LEMMA BuilderRests ==
  ASSUME BuilderInv, UNCHANGED <<observations, actions, outcomes, next_order>>, MappedInv'
  PROVE  BuilderInv'
<1>1. TypesInv'
  BY DEF BuilderInv, TypesInv
<1>2. CounterInv'
  BY DEF BuilderInv, CounterInv
<1>3. OutcomeInv'
  BY DEF BuilderInv, OutcomeInv
<1> QED BY <1>1, <1>2, <1>3 DEF BuilderInv

LEMMA BuildKeeps ==
  ASSUME BuilderInv, NEW c \in Checkpoints, Build(c)
  PROVE  BuilderInv'
<1>1. PICK t : t = [observations |-> observations, actions |-> actions,
                    outcomes |-> outcomes, checkpoint |-> c]
  OBVIOUS
<1>2. trace' = t /\ rows' = rows /\ trace = None
  BY <1>1 DEF Build
<1>3. Lists(t)
  BY <1>1, BuildersLists DEF BuilderInv, Lists
<1>4. rows.kind = "none"
  BY <1>2 DEF BuilderInv, MappedInv
<1>5. MappedInv'
  BY <1>2, <1>3, <1>4 DEF MappedInv
<1> QED BY <1>5, BuilderRests DEF Build

LEMMA HandOverKeeps ==
  ASSUME BuilderInv, trace = None, NEW t \in OtherTraces, HandOver(t)
  PROVE  BuilderInv'
<1>1. trace' = t /\ rows' = rows /\ rows.kind = "none"
  BY DEF HandOver, BuilderInv, MappedInv
<1>2. MappedInv'
  BY <1>1, OthersLists DEF MappedInv
<1> QED BY <1>2, BuilderRests DEF HandOver

LEMMA MapKeeps ==
  ASSUME BuilderInv, Map
  PROVE  BuilderInv'
<1>1. trace # None /\ trace' = trace /\ Lists(trace)
  BY DEF Map, BuilderInv, MappedInv
<1>2. CASE ValidTrace(trace)
  <2>1. rows' = [kind |-> "rows", rows |-> MapTrace(trace, RunId, BaseTime)]
    BY <1>2 DEF Map
  <2>2. rows'.kind = "rows" /\ rows'.rows = MapTrace(trace, RunId, BaseTime)
    BY <2>1
  <2>3. MappedInv'
    BY <1>1, <1>2, <2>2 DEF MappedInv
  <2> QED BY <2>3, BuilderRests DEF Map
<1>3. CASE ~ ValidTrace(trace)
  <2>1. rows'.kind = "invalid"
    BY <1>3 DEF Map
  <2>2. MappedInv'
    BY <1>1, <1>3, <2>1 DEF MappedInv
  <2> QED BY <2>2, BuilderRests DEF Map
<1> QED BY <1>2, <1>3

LEMMA NextBuilder == BuilderInv /\ [Next]_vars => BuilderInv'
<1> SUFFICES ASSUME BuilderInv, [Next]_vars PROVE BuilderInv'
  OBVIOUS
<1>1. CASE \E d \in Catalog : Observe(d) \/ Attempt(d)
  BY <1>1, ObserveKeeps, AttemptKeeps
<1>2. CASE \E a \in Range(actions), v \in {<<TRUE, FALSE>>, <<FALSE, TRUE>>, <<FALSE, FALSE>>} :
              RecordOutcome(a, v[1], v[2])
  <2>1. PICK a \in Range(actions), v \in {<<TRUE, FALSE>>, <<FALSE, TRUE>>, <<FALSE, FALSE>>} :
           RecordOutcome(a, v[1], v[2])
    BY <1>2
  <2>2. CASE v = <<TRUE, FALSE>>
    <3>1. RecordOutcome(a, TRUE, FALSE)
      BY <2>1, <2>2
    <3> QED BY <3>1, RecordOutcomeKeeps
  <2>3. CASE v = <<FALSE, TRUE>>
    <3>1. RecordOutcome(a, FALSE, TRUE)
      BY <2>1, <2>3
    <3> QED BY <3>1, RecordOutcomeKeeps
  <2>4. CASE v = <<FALSE, FALSE>>
    <3>1. RecordOutcome(a, FALSE, FALSE)
      BY <2>1, <2>4
    <3> QED BY <3>1, RecordOutcomeKeeps
  <2> QED BY <2>1, <2>2, <2>3, <2>4
<1>3. CASE \E c \in Checkpoints : Build(c)
  BY <1>3, BuildKeeps
<1>4. CASE next_order = 1 /\ trace = None /\ \E t \in OtherTraces : HandOver(t)
  BY <1>4, HandOverKeeps
<1>5. CASE Map
  BY <1>5, MapKeeps
<1>6. CASE UNCHANGED vars
  <2>1. UNCHANGED <<observations, actions, outcomes, next_order>> /\ UNCHANGED <<trace, rows>>
    BY <1>6 DEF vars
  <2>2. MappedInv'
    BY <2>1, MappedKept DEF BuilderInv
  <2> QED BY <2>1, <2>2, BuilderRests
<1> QED BY <1>1, <1>2, <1>3, <1>4, <1>5, <1>6 DEF Next

LEMMA BuilderInvariant == Spec => []BuilderInv
BY InitBuilder, NextBuilder, PTL DEF Spec

---------------------------------------------------------------------------
(* The theorems.                                                           *)

\* A trace with the builder's lists and a coherent checkpoint is valid once
\* every action is concluded.
LEMMA BuiltIsValid ==
  ASSUME TypesInv, CounterInv, OutcomeInv, NEW t, Lists(t),
         t.observations = observations, t.actions = actions, t.outcomes = outcomes,
         next_order > 1, Len(outcomes) = Len(actions), CheckpointIsCoherent(t.checkpoint)
  PROVE  ValidTrace(t)
<1>n. PICK n \in Nat : n = next_order - 1
  BY DEF TypesInv
<1>1. OrdersAreContiguous(t)
  <2>1. RecordCount(t) = n
    BY <1>n DEF RecordCount, CounterInv
  <2>2. n > 0
    BY <1>n DEF TypesInv
  <2>3. Orders(t) = 1 .. n
    BY <1>n DEF Orders, CounterInv
  <2> QED BY <2>1, <2>2, <2>3 DEF OrdersAreContiguous
<1>d. AllDistinct(observations, actions, outcomes)
  BY <1>1, PlacesAreDistinct
<1>2. DevicesAreKnown(t)
  <2>1. \A x \in Range(observations) : x.device \in Catalog
    <3>1. \A x \in Range(observations) : x \in Noted
      BY DEF TypesInv, Range
    <3> QED BY <3>1 DEF Noted
  <2>2. \A x \in Range(actions) : x.device \in Catalog
    <3>1. \A x \in Range(actions) : x \in Noted
      BY DEF TypesInv, Range
    <3> QED BY <3>1 DEF Noted
  <2>3. \A x \in Range(outcomes) : x.device \in Catalog
    <3>1. \A x \in Range(outcomes) : x \in Concluded
      BY DEF TypesInv, Range
    <3> QED BY <3>1 DEF Concluded
  <2> QED BY <2>1, <2>2, <2>3 DEF DevicesAreKnown
<1>l. IsList(actions) /\ IsList(outcomes)
  BY BuildersLists
<1>k. PICK k \in Nat : k = Len(actions) /\ k = Len(outcomes)
  BY <1>l DEF IsList
<1>a. PICK A : A = {a.order : a \in Range(actions)}
  OBVIOUS
<1>o. PICK O : O = {o.action_order : o \in Range(outcomes)}
  OBVIOUS
<1>3. IsFiniteSet(A) /\ Cardinality(A) = k
  <2> DEFINE g == [i \in 1 .. k |-> actions[i].order]
  <2>1. \A x : x \in A <=> \E i \in 1 .. k : x = g[i]
    <3>1. \A a : a \in Range(actions) <=> \E i \in 1 .. k : a = actions[i]
      BY <1>l, <1>k, ListedAt
    <3> QED BY <3>1, <1>a
  <2>2. /\ DOMAIN g = 1 .. k /\ g = [i \in 1 .. k |-> g[i]]
        /\ \A i, j \in 1 .. k : g[i] = g[j] => i = j
    BY <1>d, <1>k DEF AllDistinct
  <2> HIDE DEF g
  <2> QED BY <2>1, <2>2, CountListed
<1>4. IsFiniteSet(O) /\ Cardinality(O) = k
  <2> DEFINE g == [i \in 1 .. k |-> outcomes[i].action_order]
  <2>1. \A x : x \in O <=> \E i \in 1 .. k : x = g[i]
    <3>1. \A a : a \in Range(outcomes) <=> \E i \in 1 .. k : a = outcomes[i]
      BY <1>l, <1>k, ListedAt
    <3> QED BY <3>1, <1>o
  <2>2. /\ DOMAIN g = 1 .. k /\ g = [i \in 1 .. k |-> g[i]]
        /\ \A i, j \in 1 .. k : g[i] = g[j] => i = j
    BY <1>k DEF OutcomeInv
  <2> HIDE DEF g
  <2> QED BY <2>1, <2>2, CountListed
<1>5. O = A
  <2>1. O \in SUBSET A
    BY <1>a, <1>o DEF OutcomeInv
  <2> QED BY <2>1, <1>3, <1>4, FS_Subset
<1>6. OutcomesAreLinked(t)
  <2>1. \A i, j \in DOMAIN outcomes : outcomes[i].action_order = outcomes[j].action_order => i = j
    BY <1>l DEF OutcomeInv, IsList
  <2>2. \A o \in Range(outcomes), a \in Range(actions) :
           o.action_order = a.order => o.device = a.device
    <3> SUFFICES ASSUME NEW o \in Range(outcomes), NEW a \in Range(actions),
                        o.action_order = a.order
                 PROVE  o.device = a.device
      OBVIOUS
    <3>1. PICK b \in Range(actions) : b.order = o.action_order /\ b.device = o.device
      BY DEF OutcomeInv
    <3>2. PICK i \in 1 .. k : a = actions[i]
      BY <1>l, <1>k, ListedAt
    <3>3. PICK j \in 1 .. k : b = actions[j]
      BY <1>l, <1>k, ListedAt
    <3>4. i = j
      BY <3>1, <3>2, <3>3, <1>d, <1>k DEF AllDistinct
    <3> QED BY <3>1, <3>2, <3>3, <3>4
  <2> QED BY <2>1, <2>2, <1>5, <1>a, <1>o DEF OutcomesAreLinked
<1>7. SuccessHasNoError(t)
  BY DEF OutcomeInv, SuccessHasNoError
<1> QED BY <1>1, <1>2, <1>6, <1>7 DEF ValidTrace

\* Whatever a scenario observes, attempts and concludes in whatever order, its
\* trace is mapped: the validator has no rule the builder can break.
THEOREM ScenariosStayMapped == Spec => []ScenariosAreMapped
<1>1. BuilderInv => ScenariosAreMapped
  <2> SUFFICES ASSUME BuilderInv, Built, rows.kind # "none", next_order > 1,
                      Len(outcomes) = Len(actions), CheckpointIsCoherent(trace.checkpoint)
               PROVE  rows.kind = "rows"
    BY DEF ScenariosAreMapped, Mapped
  <2>1. Lists(trace)
    BY DEF BuilderInv, MappedInv, Built
  <2>2. ValidTrace(trace)
    BY <2>1, BuiltIsValid DEF BuilderInv, Built
  <2> QED BY <2>2 DEF BuilderInv, MappedInv
<1> QED BY <1>1, BuilderInvariant, PTL

\* The rows of any trace the validator accepts, a builder's or not, tell one
\* story: events, records, outcomes and checkpoint agree record by record.
THEOREM RowsTellOneStory == Spec => []RowsTellTheTrace
<1>1. BuilderInv => RowsTellTheTrace
  <2> SUFFICES ASSUME BuilderInv, rows.kind = "rows"
               PROVE  RowsTellTheTrace
    BY DEF RowsTellTheTrace, Mapped
  <2>1. PICK m : m = rows.rows
    OBVIOUS
  <2>2. trace # None /\ ValidTrace(trace) /\ m = MapTrace(trace, RunId, BaseTime)
    BY <2>1 DEF BuilderInv, MappedInv
  <2>3. StoryOf(m)
    BY <2>2, ValidTellsStory DEF BuilderInv, MappedInv
  <2>4. TimelineIsWhole(m) /\ CountsAddUp(m) /\ PlacesAgree(m) /\ ActionsConclude(m)
    BY <2>3 DEF StoryOf
  <2>5. CheckpointTells(m) /\ DevicesAgree(m)
    BY <2>3 DEF StoryOf
  <2> QED BY <2>1, <2>4, <2>5, Zenon
          DEF RowsTellTheTrace, TimelineIsWhole, CountsAddUp, PlacesAgree, ActionsConclude,
              CheckpointTells, DevicesAgree
<1> QED BY <1>1, BuilderInvariant, PTL

\* The schema accepts what a builder made, in any database without rows: in
\* particular no outcome is dated before its action.
THEOREM BuiltRowsStayStorable == Spec => []BuiltRowsAreStorable
<1>1. BuilderInv => BuiltRowsAreStorable
  <2> SUFFICES ASSUME BuilderInv, Built, rows.kind = "rows"
               PROVE  TraceConstraints(SavedTrace(EmptyTables, rows.rows))
    BY DEF BuiltRowsAreStorable, Mapped
  <2>1. /\ trace # None /\ Lists(trace) /\ ValidTrace(trace)
        /\ rows.rows = MapTrace(trace, RunId, BaseTime)
    BY DEF BuilderInv, MappedInv
  <2>2. OutcomesFollow(trace)
    <3> SUFFICES ASSUME NEW o \in Range(outcomes), NEW a \in Range(actions),
                        o.action_order = a.order
                 PROVE  a.order <= o.order
      BY DEF OutcomesFollow, Built
    <3>1. PICK b \in Range(actions) : b.order = o.action_order /\ b.order < o.order
      BY DEF BuilderInv, OutcomeInv
    <3>2. a \in Noted /\ o \in Concluded
      BY DEF BuilderInv, TypesInv, Range
    <3> QED BY <3>1, <3>2 DEF Noted, Concluded
  <2> QED BY <2>1, <2>2, BoundAssumption, ValidIsStorable
<1> QED BY <1>1, BuilderInvariant, PTL

---------------------------------------------------------------------------
(* What TracePersistence assumes of the traces it stores.                  *)

\* Each row of evidence names its run, and its id begins with it.
NamesRun(S, r) == \A x \in S : x.id[1] = r

LEMMA EvidenceNamesRun ==
  ASSUME NEW t, NEW r, NEW base
  PROVE  \A k \in EvidenceTables : NamesRun(EvidenceRows(MapTrace(t, r, base), k), r)
<1>m. PICK m : m = MapTrace(t, r, base)
  OBVIOUS
<1>r. /\ m.observations = {ObservationRow(r, base, x) : x \in Range(t.observations)}
      /\ m.actions = {ActionRow(t, r, base, x) : x \in Range(t.actions)}
      /\ m.outcomes = OutcomeRows(t, r, base)
      /\ m.checkpoint = CheckpointRow(t, r, base)
      /\ m.audits = AuditRows(t, r, base)
  BY <1>m DEF MapTrace, ObservationRows, ObservationRow, ActionRows, ActionRow
<1>1. NamesRun(m.observations, r)
  <2>1. \A x : ObservationRow(r, base, x).id[1] = r
    BY DEF ObservationRow
  <2> QED BY <2>1, <1>r DEF NamesRun
<1>2. NamesRun(m.actions, r)
  <2>1. \A x : ActionRow(t, r, base, x).id[1] = r
    BY DEF ActionRow, ActionId
  <2> QED BY <2>1, <1>r DEF NamesRun
<1>3. NamesRun(m.outcomes, r)
  <2>1. \A x : OutcomeRow(r, base, x).id[1] = r
    BY DEF OutcomeRow, OutcomeId
  <2> QED BY <2>1, <1>r, OutcomeRowOf DEF NamesRun
<1>4. NamesRun({m.checkpoint}, r)
  BY <1>r DEF NamesRun, CheckpointRow
<1>5. NamesRun(m.audits, r)
  BY <1>r DEF NamesRun, AuditRows
<1> QED BY <1>m, <1>1, <1>2, <1>3, <1>4, <1>5 DEF EvidenceTables, EvidenceRows

LEMMA MappedRowsAreOwn ==
  ASSUME NEW t, NEW r, NEW base, OutcomesAreLinked(t)
  PROVE  OwnRows(MapTrace(t, r, base))
<1>m. PICK m : m = MapTrace(t, r, base)
  OBVIOUS
<1>r. /\ m.observations = {ObservationRow(r, base, x) : x \in Range(t.observations)}
      /\ m.actions = {ActionRow(t, r, base, x) : x \in Range(t.actions)}
      /\ m.outcomes = OutcomeRows(t, r, base)
      /\ m.checkpoint = CheckpointRow(t, r, base)
      /\ m.audits = AuditRows(t, r, base)
      /\ m.run.id = r
  BY <1>m DEF MapTrace, ObservationRows, ObservationRow, ActionRows, ActionRow, RunRow
<1>1. \A x \in m.observations : x.run = r
  <2>1. \A x : ObservationRow(r, base, x).run = r
    BY DEF ObservationRow
  <2> QED BY <2>1, <1>r
<1>2. \A x \in m.actions : x.run = r
  <2>1. \A x : ActionRow(t, r, base, x).run = r
    BY DEF ActionRow
  <2> QED BY <2>1, <1>r
<1>3. m.checkpoint.run = r
  BY <1>r DEF CheckpointRow
<1>4. \A x \in m.audits : x.run = r
  BY <1>r DEF AuditRows
<1>5. \A o \in m.outcomes : o.action \in Ids(m.actions)
  <2> SUFFICES ASSUME NEW x \in m.outcomes
               PROVE  x.action \in Ids(m.actions)
    OBVIOUS
  <2>1. PICK o \in Range(t.outcomes) : x = OutcomeRow(r, base, o)
    BY <1>r, OutcomeRowOf
  <2>2. o.action_order \in {a.order : a \in Range(t.actions)}
    BY DEF OutcomesAreLinked
  <2>3. PICK a \in Range(t.actions) : a.order = o.action_order
    BY <2>2
  <2>4. ActionRow(t, r, base, a).id = ActionId(r, a.order)
    BY DEF ActionRow
  <2>5. x.action = ActionId(r, o.action_order)
    BY <2>1 DEF OutcomeRow
  <2> QED BY <2>3, <2>4, <2>5, <1>r DEF Ids
<1> QED BY <1>m, <1>r, <1>1, <1>2, <1>3, <1>4, <1>5 DEF OwnRows, EvidenceTables, EvidenceRows

LEMMA MappedDevicesAreNew ==
  ASSUME NEW t, NEW r, NEW base
  PROVE  NewDevices(MapTrace(t, r, base))
<1>1. MapTrace(t, r, base).devices = {DeviceStored(t, base, x) : x \in Catalog}
  BY DEF MapTrace, DeviceRows, DeviceStored
<1>2. \A x : /\ DeviceStored(t, base, x).id = x
             /\ DeviceStored(t, base, x).calibration = None
             /\ DOMAIN DeviceStored(t, base, x) = DeviceColumns
  BY DEF DeviceStored, DeviceColumns
<1> QED BY <1>1, <1>2 DEF NewDevices, PrimaryKey

\* What map_trace makes of valid traces is what save_trace relies on: rows and
\* ids belong to their run, the fingerprint of a run determines all its rows,
\* and no device row carries a calibration.
THEOREM MappedTracesAreOwn ==
  ASSUME NEW t, NEW u, ValidTrace(t), ValidTrace(u), NEW r, NEW q, NEW base, NEW later
  PROVE  LET m == MapTrace(t, r, base)
             n == MapTrace(u, q, later)
         IN /\ OwnRows(m) /\ NewDevices(m)
            /\ IF m.run.id = n.run.id THEN m.run.fingerprint = n.run.fingerprint => m = n
               ELSE OwnIds(m, n)
<1>m. PICK m : m = MapTrace(t, r, base)
  OBVIOUS
<1>n. PICK n : n = MapTrace(u, q, later)
  OBVIOUS
<1>1. OwnRows(m) /\ NewDevices(m)
  BY <1>m, MappedRowsAreOwn, MappedDevicesAreNew DEF ValidTrace
<1>2. m.run.id = r /\ n.run.id = q
  BY <1>m, <1>n DEF MapTrace, RunRow
<1>3. ASSUME m.run.fingerprint = n.run.fingerprint
      PROVE  m = n
  <2>1. <<t, r, base>> = <<u, q, later>>
    BY <1>3, <1>m, <1>n DEF MapTrace, RunRow
  <2>2. t = u /\ r = q /\ base = later
    BY <2>1
  <2> QED BY <2>2, <1>m, <1>n
<1>4. ASSUME r # q
      PROVE  OwnIds(m, n)
  <2>1. \A k \in EvidenceTables : NamesRun(EvidenceRows(m, k), r) /\ NamesRun(EvidenceRows(n, k), q)
    BY <1>m, <1>n, EvidenceNamesRun
  <2> QED BY <2>1, <1>4 DEF NamesRun, OwnIds, Ids
<1> QED BY <1>m, <1>n, <1>1, <1>2, <1>3, <1>4

\* Of the traces with a failed action, process B of the gate can restore those
\* that end with the oscilloscope connected and its faults resolved, as scenario
\* A, the one the gate hands it, does, and refuses the others, as scenario B
\* with its two active faults.
THEOREM MappedTracesAreReadable ==
  ASSUME NEW t, NEW r, NEW base, Lists(t), ValidTrace(t),
         \E o \in Range(t.outcomes) : ~ o.success
  PROVE  LET scope == t.checkpoint["scope_01"]
             m == MapTrace(t, r, base)
         IN ReaderAccepts(SavedTrace(EmptyTables, m), m) <=>
               scope.connection = "connected" /\ scope.faults = {}
<1>m. PICK m : m = MapTrace(t, r, base)
  OBVIOUS
<1>d. PICK d : d = SavedTrace(EmptyTables, m)
  OBVIOUS
<1>k. PICK k : k = CheckpointRow(t, r, base)
  OBVIOUS
<1>s. StoryOf(m)
  BY <1>m, ValidTellsStory
<1>t. d.runs = {m.run} /\ d.actions = m.actions /\ d.outcomes = m.outcomes
      /\ d.checkpoints = {k} /\ d.audits = m.audits
  <2>1. m.checkpoint = k
    BY <1>m, <1>k DEF MapTrace
  <2> QED BY <2>1, <1>d, SavedInEmpty
<1>o. OwnRows(m)
  BY <1>m, MappedRowsAreOwn DEF ValidTrace
<1>r. m.run.id = r /\ m.run.status = "completed"
  BY <1>m DEF MapTrace, RunRow
<1>1. /\ {x \in d.actions : x.run = r} = m.actions
      /\ {e \in d.audits : e.run = r} = m.audits
      /\ {x \in d.outcomes : x.action \in Ids(m.actions)} = m.outcomes
  BY <1>o, <1>r, <1>t DEF OwnRows, EvidenceTables, EvidenceRows
<1>2. /\ k.run = r /\ k.step = m.run.step /\ k.pending = None
      /\ k.agent_state = AgentState(t, r)
  BY <1>k, <1>m DEF CheckpointRow, MapTrace, RunRow
<1>a. /\ k.agent_state.current_step = m.run.step
      /\ RestoredSections \subseteq DOMAIN k.agent_state
      /\ k.agent_state.pending_action_id = None
      /\ k.agent_state.device_states = t.checkpoint
  BY <1>2, <1>m DEF AgentState, RestoredSections, MapTrace, RunRow
<1>3. {x \in d.checkpoints : x.run = r} = {k}
  BY <1>t, <1>2
<1>4. (CHOOSE x \in {k} : \A y \in {k} : y.step <= x.step) = k
  <2>1. PICK n \in Nat : n = RecordCount(t)
    BY CountOfRecords
  <2>2. k.step \in Nat
    BY <1>k, <2>1 DEF CheckpointRow
  <2>3. \E x \in {k} : \A y \in {k} : y.step <= x.step
    BY <2>2
  <2> QED BY <2>3
<1>f. PICK o \in Range(t.outcomes) : ~ o.success
  OBVIOUS
<1>x. PICK x : x = OutcomeRow(r, base, o)
  OBVIOUS
<1>5. x \in m.outcomes /\ ~ x.success
  <2>1. m.outcomes = OutcomeRows(t, r, base)
    BY <1>m DEF MapTrace
  <2>2. x.success = o.success
    BY <1>x DEF OutcomeRow
  <2> QED BY <2>1, <2>2, <1>f, <1>x, OutcomeRowOf
<1>6. PICK e \in m.audits : e.target = x.id
  BY <1>5, <1>s DEF StoryOf, PlacesAgree
<1>7. k.last \in k.agent_state.completed_action_ids
  <2>1. m.checkpoint = k
    BY <1>m, <1>k DEF MapTrace
  <2>2. m.actions # {}
    BY <1>5, <1>o DEF OwnRows, Ids
  <2> QED BY <2>1, <2>2, <1>s DEF StoryOf, CheckpointTells
<1>8. {y.seq : y \in m.audits} = 1 .. m.run.step
  BY <1>s DEF StoryOf, TimelineIsWhole
<1>9. ReaderAccepts(d, m) <=>
         t.checkpoint["scope_01"].connection = "connected" /\ t.checkpoint["scope_01"].faults = {}
  <2>1. \E y \in d.runs : y.id = r /\ y.step = m.run.step /\ y.status = "completed"
    BY <1>t, <1>r
  <2>2. \E y \in m.audits, z \in m.outcomes : y.target = z.id /\ ~ z.success
    BY <1>5, <1>6
  <2>3. /\ {y \in d.actions : y.run = m.run.id} = m.actions
        /\ {y \in d.audits : y.run = m.run.id} = m.audits
        /\ {y \in d.checkpoints : y.run = m.run.id} = {k}
    BY <1>1, <1>3, <1>r
  <2>4. \E y \in d.runs : y.id = m.run.id /\ y.step = m.run.step /\ y.status = "completed"
    BY <2>1, <1>r
  <2>5. k.step = m.run.step /\ k.pending = None
    BY <1>2
  <2>6. PICK scope : scope = t.checkpoint["scope_01"]
    OBVIOUS
  <2>7. k.agent_state.device_states["scope_01"] = scope
    BY <1>a, <2>6
  <2>8. ASSUME scope.connection = "connected", scope.faults = {}
        PROVE  ReaderAccepts(d, m)
    BY <1>1, <1>4, <1>a, <1>7, <1>8, <2>2, <2>3, <2>4, <2>5, <2>7, <2>8 DEF ReaderAccepts
  <2>9. ASSUME ReaderAccepts(d, m)
        PROVE  scope.connection = "connected" /\ scope.faults = {}
    BY <1>4, <2>3, <2>7, <2>9 DEF ReaderAccepts
  <2> QED BY <2>6, <2>8, <2>9
<1> QED BY <1>9, <1>d, <1>m
================================================================================
