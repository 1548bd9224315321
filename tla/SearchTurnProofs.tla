-------------------------- MODULE SearchTurnProofs --------------------------
(***************************************************************************)
(* Proofs about SearchTurn: what a seeker's turns read and say is sound,   *)
(* whatever the board, the plans of the model and the failures.            *)
(***************************************************************************)
EXTENDS SearchTurn, FiniteSetTheorems, FunctionTheorems, SequenceTheorems, WellFoundedInduction, TLAPS

-----------------------------------------------------------------------------
(* Sets in order *)

(* A set of numbers that is not empty has a least one. *)
LEMMA Least ==
  ASSUME NEW T \in SUBSET Nat, T # {}
  PROVE  \E x \in T : \A y \in T : x <= y
<1>1. PICK x \in T : \A y \in T : <<y, x>> \notin OpToRel(<, Nat)
  BY NatLessThanWellFounded, WFMin
<1>2. \A y \in T : ~(y < x)
  BY <1>1 DEF OpToRel
<1>3. QED
  BY <1>2

(* A strict total order on S. *)
Strict(R, S) ==
  /\ \A x \in S : <<x, x>> \notin R
  /\ \A x, y, z \in S : <<x, y>> \in R /\ <<y, z>> \in R => <<x, z>> \in R
  /\ \A x, y \in S : x # y => <<x, y>> \in R \/ <<y, x>> \in R

Below(R, S, x) == {y \in S : <<y, x>> \in R}

(* How many members come before one tells it from every other. *)
LEMMA Ranks ==
  ASSUME NEW S, IsFiniteSet(S), NEW R, Strict(R, S)
  PROVE  /\ \A x \in S : Cardinality(Below(R, S, x)) \in 0..Cardinality(S) - 1
         /\ \A x, y \in S : x # y => Cardinality(Below(R, S, x)) # Cardinality(Below(R, S, y))
<1>1. Cardinality(S) \in Nat
  BY FS_CardinalityType
<1>2. ASSUME NEW x \in S
      PROVE  /\ IsFiniteSet(Below(R, S, x)) /\ Cardinality(Below(R, S, x)) \in Nat
             /\ Cardinality(Below(R, S, x)) < Cardinality(S)
  <2>1. Below(R, S, x) \in SUBSET S /\ Below(R, S, x) # S
    BY DEF Below, Strict
  <2>2. QED
    BY <1>1, <2>1, FS_Subset, FS_CardinalityType
<1>3. ASSUME NEW x \in S, NEW y \in S, <<x, y>> \in R
      PROVE  Cardinality(Below(R, S, x)) < Cardinality(Below(R, S, y))
  <2>1. Below(R, S, x) \in SUBSET Below(R, S, y) /\ x \in Below(R, S, y) /\ x \notin Below(R, S, x)
    BY <1>3 DEF Below, Strict
  <2>2. Below(R, S, x) # Below(R, S, y)
    BY <2>1
  <2>3. QED
    BY <1>2, <2>1, <2>2, FS_Subset
<1>4. ASSUME NEW x \in S, NEW y \in S, x # y
      PROVE  Cardinality(Below(R, S, x)) # Cardinality(Below(R, S, y))
  <2>1. <<x, y>> \in R \/ <<y, x>> \in R
    BY <1>4 DEF Strict
  <2>2. QED
    BY <1>2, <1>3, <2>1
<1>5. QED
  BY <1>1, <1>2, <1>4

(* InOrder lists every member of the set once, and nothing else. *)
LEMMA InOrderLists ==
  ASSUME NEW S, IsFiniteSet(S), NEW R, Strict(R, S)
  PROVE  /\ Cardinality(S) \in Nat
         /\ InOrder(S, R) \in [1..Cardinality(S) -> S]
         /\ \A x \in S : \E n \in 1..Cardinality(S) : InOrder(S, R)[n] = x
         /\ \A m, n \in 1..Cardinality(S) : m # n => InOrder(S, R)[m] # InOrder(S, R)[n]
<1> DEFINE N    == Cardinality(S)
           rank == [x \in S |-> Cardinality(Below(R, S, x))]
<1>1. N \in Nat
  BY FS_CardinalityType
<1>2. rank \in Injection(S, 0..N - 1)
  BY Ranks DEF Injection, IsInjective
<1>3. IsFiniteSet(0..N - 1) /\ Cardinality(0..N - 1) = N
  BY <1>1, FS_Interval
<1>4. rank \in Surjection(S, 0..N - 1)
  BY <1>2, <1>3, FS_Injection
<1>5. ASSUME NEW n \in 1..N
      PROVE  \E x \in S : Cardinality({y \in S : <<y, x>> \in R}) = n - 1
  <2>1. n - 1 \in 0..N - 1
    BY <1>1
  <2>2. PICK x \in S : rank[x] = n - 1
    BY <1>4, <2>1 DEF Surjection
  <2>3. QED
    BY <2>2 DEF Below
<1>6. \A n \in 1..N : /\ InOrder(S, R)[n] \in S
                      /\ Cardinality(Below(R, S, InOrder(S, R)[n])) = n - 1
  BY <1>5 DEF InOrder, Below
<1>7. ASSUME NEW x \in S PROVE \E n \in 1..N : InOrder(S, R)[n] = x
  <2>1. Cardinality(Below(R, S, x)) + 1 \in 1..N
    BY <1>1, Ranks
  <2>2. PICK n \in 1..N : Cardinality(Below(R, S, x)) = n - 1
    BY <1>1, <2>1, Ranks
  <2>3. QED
    BY <1>6, <2>2, Ranks
<1>8. ASSUME NEW m \in 1..N, NEW n \in 1..N, m # n PROVE InOrder(S, R)[m] # InOrder(S, R)[n]
  BY <1>1, <1>6, <1>8
<1>9. InOrder(S, R) \in [1..N -> S]
  BY <1>5 DEF InOrder
<1>10. QED
  BY <1>1, <1>7, <1>8, <1>9

(* An order that holds of the elements of a sequence without repetitions. *)
LEMMA OrderIsStrict ==
  ASSUME NEW T, NEW n \in Nat, NEW s \in [1..n -> T], IsInjective(s), NEW S \in SUBSET ToSet(s)
  PROVE  Strict(OrderOf(s), S)
<1>1. \A i, k \in 1..n : s[i] = s[k] => i = k
  BY DEF IsInjective
<1>2. DOMAIN s = 1..n
  OBVIOUS
<1>3. \A x, y : <<x, y>> \in OrderOf(s) <=> \E i, k \in 1..n : i < k /\ x = s[i] /\ y = s[k]
  BY <1>2 DEF OrderOf, ToSet
<1>4. \A x \in S : \E i \in 1..n : x = s[i]
  BY <1>2 DEF ToSet
<1>5. \A x \in S : <<x, x>> \notin OrderOf(s)
  BY <1>1, <1>3
<1>6. ASSUME NEW x \in S, NEW y \in S, NEW z \in S, <<x, y>> \in OrderOf(s), <<y, z>> \in OrderOf(s)
      PROVE  <<x, z>> \in OrderOf(s)
  <2>1. PICK i, k \in 1..n : i < k /\ x = s[i] /\ y = s[k]
    BY <1>3, <1>6
  <2>2. PICK p, q \in 1..n : p < q /\ y = s[p] /\ z = s[q]
    BY <1>3, <1>6
  <2>3. k = p
    BY <1>1, <2>1, <2>2
  <2>4. QED
    BY <1>3, <2>1, <2>2, <2>3
<1>7. ASSUME NEW x \in S, NEW y \in S, x # y
      PROVE  <<x, y>> \in OrderOf(s) \/ <<y, x>> \in OrderOf(s)
  <2>1. PICK i, k \in 1..n : x = s[i] /\ y = s[k]
    BY <1>4
  <2>2. i < k \/ k < i
    BY <1>7, <2>1
  <2>3. QED
    BY <1>3, <2>1, <2>2
<1>8. QED
  BY <1>5, <1>6, <1>7 DEF Strict

(* The jobs are finitely many, and Newest is an order of them. *)
LEMMA NewestFirst ==
  /\ IsFiniteSet(Jobs)
  /\ \A S \in SUBSET Jobs : Strict(OrderOf(Newest), S)
<1> DEFINE n == Len(Newest)
<1>1. n \in Nat /\ Newest \in [1..n -> Jobs] /\ DOMAIN Newest = 1..n /\ n = Cardinality(Jobs)
  BY OrderAssumption
<1>2. Newest \in Surjection(1..n, Jobs)
  BY <1>1, OrderAssumption DEF ToSet, Surjection
<1>3. IsFiniteSet(1..n) /\ Cardinality(1..n) = n
  BY <1>1, FS_Interval
<1>4. IsFiniteSet(Jobs) /\ Newest \in Injection(1..n, Jobs)
  BY <1>1, <1>2, <1>3, FS_Surjection
<1>5. IsInjective(Newest)
  BY <1>1, <1>4 DEF Injection, IsInjective
<1>6. \A S \in SUBSET Jobs : S \in SUBSET ToSet(Newest)
  BY OrderAssumption
<1>7. QED
  BY <1>1, <1>4, <1>5, <1>6, OrderIsStrict

(* By a score first. *)
LEMMA ByScoreIsStrict ==
  ASSUME NEW S \in SUBSET Jobs, NEW score \in [Jobs -> Nat]
  PROVE  Strict(HigherFirst(S, score), S)
<1>1. Strict(OrderOf(Newest), S)
  BY NewestFirst
<1>2. \A x \in S : score[x] \in Nat
  OBVIOUS
<1>3. ASSUME NEW x \in S, NEW y \in S
      PROVE  <<x, y>> \in HigherFirst(S, score)
               <=> score[x] > score[y] \/ (score[x] = score[y] /\ <<x, y>> \in OrderOf(Newest))
  <2>1. <<x, y>>[1] = x /\ <<x, y>>[2] = y /\ <<x, y>> \in S \X S
    OBVIOUS
  <2>2. QED
    BY <2>1 DEF HigherFirst
<1>4. QED
  BY <1>1, <1>2, <1>3 DEF Strict

-----------------------------------------------------------------------------
(* Queries *)

RowType   == [job: Jobs, pay: Pays \cup {None}]
BoardType == [Jobs -> [status: Statuses, pay: Pays \cup {None}]]

(* No job has two rows. *)
Once(rows) == \A i, k \in 1..Len(rows) : i # k => rows[i].job # rows[k].job

(* Rows of b for members of S: all of them, unless the limit cuts them.    *)
RowsFrom(rows, b, S, limit) ==
  /\ rows \in Seq(RowType) /\ Once(rows) /\ Len(rows) <= limit
  /\ \A i \in 1..Len(rows) : rows[i].job \in S /\ rows[i].pay = b[rows[i].job].pay
  /\ S \subseteq JobsOf(rows) \/ Len(rows) = limit

(* The first of a sequence: a shorter one, or all of it. *)
LEMMA TopIs ==
  ASSUME NEW T, NEW s \in Seq(T), NEW limit \in Nat
  PROVE  /\ Top(s, limit) \in Seq(T) /\ Len(Top(s, limit)) \in 0..Len(s)
         /\ \A i \in 1..Len(Top(s, limit)) : Top(s, limit)[i] = s[i]
         /\ Len(Top(s, limit)) <= limit /\ Len(Top(s, limit)) \in {Len(s), limit}
<1> DEFINE n == Len(s)
           k == IF limit < n THEN limit ELSE n
<1>1. k \in 0..n /\ k <= limit /\ (k = n \/ k = limit)
  OBVIOUS
<1>2. n \in Nat /\ \A i \in 1..n : s[i] \in T
  OBVIOUS
<1>3. Top(s, limit) = SubSeq(s, 1, k)
  BY DEF Top
<1> HIDE DEF k
<1>4. /\ SubSeq(s, 1, k) \in Seq(T) /\ Len(SubSeq(s, 1, k)) = k
      /\ \A i \in 1..k : SubSeq(s, 1, k)[i] = s[i]
  <2>1. \A i \in 1..k : s[i] \in T
    BY <1>1, <1>2
  <2>2. /\ SubSeq(s, 1, k) \in Seq(T) /\ Len(SubSeq(s, 1, k)) = IF 1 <= k THEN k - 1 + 1 ELSE 0
        /\ \A i \in 1..k - 1 + 1 : SubSeq(s, 1, k)[i] = s[1 + i - 1]
    BY <1>1, <2>1, SubSeqProperties
  <2>3. Len(SubSeq(s, 1, k)) = k
    BY <1>1, <2>2
  <2>4. ASSUME NEW i \in 1..k PROVE SubSeq(s, 1, k)[i] = s[i]
    <3>1. i \in 1..k - 1 + 1 /\ 1 + i - 1 = i
      BY <1>1
    <3>2. QED
      BY <2>2, <3>1
  <2>5. QED
    BY <2>2, <2>3, <2>4
<1>5. QED
  BY <1>1, <1>3, <1>4

(* What a query in some order returns. *)
LEMMA TopRows ==
  ASSUME NEW b \in BoardType, NEW S \in SUBSET Jobs, NEW R, Strict(R, S), NEW limit \in Nat
  PROVE  RowsFrom(Rows(b, Top(InOrder(S, R), limit)), b, S, limit)
<1> DEFINE N    == Cardinality(S)
           s    == InOrder(S, R)
           top  == Top(s, limit)
           k    == Len(top)
           rows == Rows(b, top)
<1>1. IsFiniteSet(S)
  BY NewestFirst, FS_Subset
<1>2. /\ N \in Nat /\ s \in [1..N -> S] /\ \A x \in S : \E n \in 1..N : s[n] = x
      /\ \A m, n \in 1..N : m # n => s[m] # s[n]
  BY <1>1, InOrderLists
<1> HIDE DEF N, s
<1>3. /\ top \in [1..k -> S] /\ DOMAIN top = 1..k /\ \A i \in 1..k : top[i] = s[i]
      /\ k \in 0..N /\ k <= limit /\ (k = N \/ k = limit)
  <2>0. s \in Seq(S) /\ Len(s) = N
    BY <1>2
  <2>1. top \in Seq(S) /\ k \in 0..N /\ k <= limit /\ k \in {N, limit} /\ \A i \in 1..k : top[i] = s[i]
    BY <2>0, TopIs
  <2>2. QED
    BY <2>1, LenProperties
<1> HIDE DEF top, k
<1>4. rows = [i \in 1..k |-> Row(b, top[i])]
  BY <1>3 DEF Rows
<1>5. ASSUME NEW i \in 1..k
      PROVE  /\ rows[i] \in RowType /\ rows[i].job = top[i] /\ top[i] \in S
             /\ rows[i].pay = b[rows[i].job].pay
  <2>1. top[i] \in S /\ b[top[i]].pay \in Pays \cup {None}
    BY <1>3 DEF BoardType
  <2>2. rows[i] = [job |-> top[i], pay |-> b[top[i]].pay]
    BY <1>4 DEF Row
  <2>3. QED
    BY <2>1, <2>2 DEF RowType
<1>6. rows \in Seq(RowType) /\ Len(rows) = k /\ DOMAIN rows = 1..k
  <2>1. k \in Nat
    BY <1>2, <1>3
  <2>2. rows \in [1..k -> RowType]
    BY <1>4, <1>5
  <2> HIDE DEF rows
  <2>3. QED
    BY <2>1, <2>2
<1>7. ASSUME k = N PROVE S \subseteq JobsOf(rows)
  <2>1. ASSUME NEW x \in S PROVE \E i \in 1..k : rows[i].job = x
    <3>1. PICK n \in 1..N : s[n] = x
      BY <1>2
    <3>2. QED
      BY <1>3, <1>5, <1>7, <3>1
  <2>2. QED
    BY <1>6, <2>1 DEF JobsOf
<1>8. Once(rows)
  <2>1. ASSUME NEW i \in 1..k, NEW n \in 1..k, i # n PROVE rows[i].job # rows[n].job
    <3>1. i \in 1..N /\ n \in 1..N
      BY <1>2, <1>3
    <3>2. s[i] # s[n] /\ top[i] = s[i] /\ top[n] = s[n]
      BY <1>2, <1>3, <2>1, <3>1
    <3>3. QED
      BY <1>5, <3>2
  <2> HIDE DEF rows
  <2>2. QED
    BY <1>6, <2>1 DEF Once
<1> HIDE DEF rows
<1>9. RowsFrom(rows, b, S, limit)
  BY <1>2, <1>3, <1>5, <1>6, <1>7, <1>8 DEF RowsFrom
<1>10. QED
  BY <1>9 DEF rows, top, s

(* Rows of open jobs, with their salaries. *)
OpenRows(rows, b) ==
  /\ rows \in Seq(RowType) /\ Once(rows)
  /\ \A i \in 1..Len(rows) : rows[i].job \in Open(b) /\ rows[i].pay = b[rows[i].job].pay

LEMMA RowsAreOpen ==
  ASSUME NEW b, NEW S \in SUBSET Open(b), NEW rows, NEW limit, RowsFrom(rows, b, S, limit)
  PROVE  OpenRows(rows, b)
BY DEF RowsFrom, OpenRows

(* As many jobs as rows. *)
LEMMA RowsAreJobs ==
  ASSUME NEW rows \in Seq(RowType), Once(rows)
  PROVE  Cardinality(JobsOf(rows)) = Len(rows)
<1> DEFINE n == Len(rows)
           f == [i \in 1..n |-> rows[i].job]
<1>1. n \in Nat /\ DOMAIN rows = 1..n
  BY LenProperties
<1>2. f \in Surjection(1..n, JobsOf(rows))
  BY <1>1 DEF Surjection, JobsOf
<1>3. IsFiniteSet(1..n) /\ Cardinality(1..n) = n
  BY <1>1, FS_Interval
<1>4. f \in Injection(1..n, JobsOf(rows))
  <2>1. \A i, k \in 1..n : i # k => f[i] # f[k]
    BY DEF Once
  <2>2. f \in [1..n -> JobsOf(rows)]
    BY <1>2 DEF Surjection
  <2> HIDE DEF f
  <2>3. QED
    BY <2>1, <2>2 DEF Injection, IsInjective
<1>5. f \in Bijection(1..n, JobsOf(rows))
  BY <1>2, <1>4 DEF Bijection
<1> HIDE DEF f
<1>6. QED
  BY <1>3, <1>5, FS_Bijection DEF ExistsBijection

(* Open jobs in the area that fit the facets, all of them but for the limit. *)
Fitting(b, category, f) ==
  {j \in Open(b) : /\ category = Unasked \/ Category[j] \in Like[category] \ {Null}
                  /\ PlaceFits(j, f) /\ PayFits(b[j].pay, f)
                  /\ Kind[j] \in EmploymentTypes(f.kind)}

LEMMA SearchIs ==
  ASSUME NEW b \in BoardType, NEW category, NEW f, NEW limit \in Nat
  PROVE  /\ RowsFrom(Search(b, category, f, limit), b, Fitting(b, category, f), limit)
         /\ OpenRows(Search(b, category, f, limit), b)
<1>1. Fitting(b, category, f) \in SUBSET Jobs /\ Fitting(b, category, f) \in SUBSET Open(b)
  BY DEF Fitting, Open
<1>2. Strict(OrderOf(Newest), Fitting(b, category, f))
  BY <1>1, NewestFirst
<1>3. Search(b, category, f, limit)
        = Rows(b, Top(InOrder(Fitting(b, category, f), OrderOf(Newest)), limit))
  BY DEF Search, Fitting
<1>4. RowsFrom(Search(b, category, f, limit), b, Fitting(b, category, f), limit)
  BY <1>1, <1>2, <1>3, TopRows
<1>5. QED
  BY <1>1, <1>4, RowsAreOpen

(* Hits that are still open and fit. *)
LEMMA HydrateIs ==
  ASSUME NEW b \in BoardType, NEW hits \in Hits, NEW f, NEW limit \in Nat
  PROVE  /\ OpenRows(Hydrate(b, hits, f, limit), b)
         /\ Len(Hydrate(b, hits, f, limit)) <= limit
         /\ \A i \in 1..Len(Hydrate(b, hits, f, limit)) : MatchesFacets(Hydrate(b, hits, f, limit)[i], f)
<1> DEFINE S    == {j \in GetByIds(b, hits) : MatchesFacets(Row(b, j), f)}
           rows == Hydrate(b, hits, f, limit)
<1>1. PICK n \in 0..TopK : hits \in [1..n -> Jobs] /\ IsInjective(hits)
  BY DEF Hits, SeqOf
<1>2. n \in Nat
  BY LimitsAssumption
<1>3. S \in SUBSET ToSet(hits) /\ S \in SUBSET Open(b) /\ S \in SUBSET Jobs
  BY DEF GetByIds, Open
<1>4. \A j \in S : MatchesFacets(Row(b, j), f)
  OBVIOUS
<1>5. rows = Rows(b, Top(InOrder(S, OrderOf(hits)), limit))
  BY DEF Hydrate
<1> HIDE DEF S, rows
<1>6. Strict(OrderOf(hits), S)
  BY <1>1, <1>2, <1>3, OrderIsStrict
<1>7. RowsFrom(rows, b, S, limit)
  BY <1>3, <1>5, <1>6, TopRows
<1>8. OpenRows(rows, b)
  BY <1>3, <1>7, RowsAreOpen
<1>9. \A i \in 1..Len(rows) : MatchesFacets(rows[i], f)
  <2>1. ASSUME NEW i \in 1..Len(rows) PROVE MatchesFacets(rows[i], f)
    <3>1. rows[i] \in RowType /\ rows[i].job \in S /\ rows[i].pay = b[rows[i].job].pay
      BY <1>7, ElementOfSeq DEF RowsFrom
    <3>2. rows[i] = Row(b, rows[i].job)
      BY <3>1 DEF RowType, Row
    <3>3. QED
      BY <1>4, <3>1, <3>2
  <2>2. QED
    BY <2>1
<1>10. QED
  BY <1>7, <1>8, <1>9 DEF rows, RowsFrom

LEMMA TitleIs ==
  ASSUME NEW b \in BoardType, NEW words, NEW phrased, NEW limit \in Nat
  PROVE  /\ OpenRows(SearchByTitle(b, words, phrased, limit), b)
         /\ Len(SearchByTitle(b, words, phrased, limit)) <= limit
<1> DEFINE Shared(j) == Cardinality(words \cap (Title[j] \cup Skills[j] \cup CategoryWords[Category[j]]))
           found == {j \in Open(b) : Shared(j) > 0}
           best  == {j \in found : \A k \in found : Shared(k) <= Shared(j)}
           score == [j \in Jobs |-> Cardinality(words \cap Title[j]) + (IF j \in phrased THEN 1 ELSE 0)]
           rows  == SearchByTitle(b, words, phrased, limit)
<1>1. best \in SUBSET Open(b) /\ best \in SUBSET Jobs
  BY DEF Open
<1>2. score \in [Jobs -> Nat]
  <2>1. ASSUME NEW j \in Jobs PROVE Cardinality(words \cap Title[j]) \in Nat
    BY JobsAssumption, FS_Intersection, FS_CardinalityType
  <2>2. QED
    BY <2>1
<1>3. rows = Rows(b, Top(ByScore(best, score), limit))
  BY DEF SearchByTitle
<1> HIDE DEF best, score, rows
<1>4. Strict(HigherFirst(best, score), best)
  BY <1>1, <1>2, ByScoreIsStrict
<1>5. RowsFrom(rows, b, best, limit)
  BY <1>1, <1>3, <1>4, TopRows DEF ByScore
<1>6. QED
  BY <1>1, <1>5, RowsAreOpen DEF rows, RowsFrom

LEMMA RecommendIs ==
  ASSUME NEW b \in BoardType, NEW skills, NEW limit \in Nat
  PROVE  /\ OpenRows(RecommendBySkills(b, skills, limit), b)
         /\ Len(RecommendBySkills(b, skills, limit)) <= limit
<1> DEFINE found == {j \in Open(b) : skills \cap Skills[j] # {}}
           score == [j \in Jobs |-> Cardinality(skills \cap Skills[j])]
           rows  == RecommendBySkills(b, skills, limit)
<1>1. found \in SUBSET Open(b) /\ found \in SUBSET Jobs
  BY DEF Open
<1>2. score \in [Jobs -> Nat]
  <2>1. ASSUME NEW j \in Jobs PROVE Cardinality(skills \cap Skills[j]) \in Nat
    BY JobsAssumption, FS_Intersection, FS_CardinalityType
  <2>2. QED
    BY <2>1
<1>3. rows = Rows(b, Top(ByScore(found, score), limit))
  BY DEF RecommendBySkills
<1> HIDE DEF found, score, rows
<1>4. Strict(HigherFirst(found, score), found)
  BY <1>1, <1>2, ByScoreIsStrict
<1>5. RowsFrom(rows, b, found, limit)
  BY <1>1, <1>3, <1>4, TopRows DEF ByScore
<1>6. QED
  BY <1>1, <1>5, RowsAreOpen DEF rows, RowsFrom

(* The best category of a phrase, if it has open jobs. *)
LEMMA MatchIs ==
  ASSUME NEW b, NEW phrase \in Phrases
  PROVE  /\ MatchCategory(b, phrase) \in Labels \cup {Unasked}
         /\ Names[phrase] # <<>> => Head(Names[phrase]) \in Labels
         /\ Names[phrase] # <<>> /\ (\E j \in Open(b) : Category[j] = Head(Names[phrase]))
              => MatchCategory(b, phrase) = Head(Names[phrase])
<1> DEFINE s     == Names[phrase]
           found == {n \in DOMAIN s : \E j \in Open(b) : Label(Category[j]) = s[n]}
<1>1. s \in Seq(Labels) /\ DOMAIN s = 1..Len(s) /\ Len(s) \in Nat
  BY NamesAssumption
<1>2. MatchCategory(b, phrase) = IF found = {} THEN Unasked ELSE s[Min(found)]
  BY DEF MatchCategory
<1>3. found \in SUBSET Nat /\ \A n \in found : n \in 1..Len(s) /\ s[n] \in Labels
  BY <1>1
<1>4. \A n \in 1..Len(s) : n \in found <=> \E j \in Open(b) : Label(Category[j]) = s[n]
  BY <1>1
<1> HIDE DEF found, s
<1>5. ASSUME found # {} PROVE Min(found) \in found /\ \A n \in found : Min(found) <= n
  BY <1>3, <1>5, Least DEF Min
<1>6. MatchCategory(b, phrase) \in Labels \cup {Unasked}
  BY <1>2, <1>3, <1>5
<1>7. ASSUME s # <<>>, \E j \in Open(b) : Category[j] = Head(s)
      PROVE  MatchCategory(b, phrase) = Head(s)
  <2>1. 1 \in 1..Len(s) /\ Head(s) = s[1]
    BY <1>1, <1>7
  <2>2. 1 \in found
    <3>1. s[1] \in Labels
      BY <1>1, <2>1
    <3>2. Label(s[1]) = s[1]
      BY <3>1 DEF Labels, Label, Categories, Null
    <3>3. QED
      BY <1>4, <1>7, <2>1, <3>2
  <2>3. Min(found) = 1
    <3>1. Min(found) \in found /\ Min(found) <= 1
      BY <1>5, <2>2
    <3>2. Min(found) \in 1..Len(s)
      BY <1>3, <3>1
    <3>3. QED
      BY <1>1, <3>1, <3>2
  <2>4. QED
    BY <1>2, <2>1, <2>2, <2>3
<1>8. ASSUME s # <<>> PROVE Head(s) \in Labels
  BY <1>1, <1>8
<1>9. QED
  BY <1>6, <1>7, <1>8 DEF s

(* The overview counts what history counts. *)
LEMMA CountsAreNumbers ==
  ASSUME NEW b
  PROVE  Counts(b) = CountsOf(b) /\ CountsOf(b) \subseteq Nat
<1> DEFINE S     == Open(b)
           areas == {Category[j] : j \in S}
           f     == [j \in S |-> Category[j]]
<1>1. Live(b) = S
  BY DEF Live, Open
<1>2. IsFiniteSet(S) /\ Cardinality(S) \in Nat
  BY NewestFirst, FS_Subset, FS_CardinalityType DEF Open
<1>3. Cardinality(areas) \in Nat
  <2>1. f \in Surjection(S, areas)
    BY DEF Surjection
  <2>2. QED
    BY <1>2, <2>1, FS_Surjection, FS_CardinalityType
<1>4. ASSUME NEW c PROVE Cardinality({j \in S : Category[j] = c}) \in Nat
  BY <1>2, FS_Subset, FS_CardinalityType
<1>5. Counts(b) = {Cardinality(S), Cardinality(areas)}
                    \cup {Cardinality({j \in S : Category[j] = c}) : c \in areas}
  BY DEF Counts
<1>6. CountsOf(b) = {Cardinality(S), Cardinality(areas)}
                      \cup {Cardinality({k \in S : Category[k] = Category[j]}) : j \in S}
  BY <1>1 DEF CountsOf
<1>7. Counts(b) = CountsOf(b)
  <2>1. {Cardinality({j \in S : Category[j] = c}) : c \in areas}
          = {Cardinality({k \in S : Category[k] = Category[j]}) : j \in S}
    OBVIOUS
  <2>2. QED
    BY <1>5, <1>6, <2>1
<1>8. CountsOf(b) \subseteq Nat
  <2>1. \A j \in S : Cardinality({k \in S : Category[k] = Category[j]}) \in Nat
    BY <1>4
  <2>2. QED
    BY <1>2, <1>3, <1>6, <2>1
<1>9. QED
  BY <1>7, <1>8

-----------------------------------------------------------------------------
(* Results *)

(* The first of some places. *)
LEMMA FirstIs ==
  ASSUME NEW T \in SUBSET Nat
  PROVE  /\ First(T) \subseteq T
         /\ T # {} => \E m \in T : First(T) = {m}
         /\ \A k \in Nat : T # {} /\ (\A n \in T : n < k) => First(T \cup {k}) = First(T)
<1>1. First(T) \subseteq T
  BY DEF First
<1>2. ASSUME T # {} PROVE \E m \in T : First(T) = {m}
  <2>1. PICK m \in T : \A n \in T : m <= n
    BY <1>2, Least
  <2>2. \A x \in T : (\A n \in T : x <= n) => x = m
    BY <2>1
  <2>3. QED
    BY <2>1, <2>2 DEF First
<1>3. ASSUME NEW k \in Nat, T # {}, \A n \in T : n < k PROVE First(T \cup {k}) = First(T)
  <2>1. PICK m \in T : First(T) = {m}
    BY <1>2, <1>3
  <2>2. m \in Nat /\ m < k /\ \A n \in T : m <= n
    BY <1>3, <2>1 DEF First
  <2>3. m \in First(T \cup {k})
    BY <2>2 DEF First
  <2>4. ASSUME NEW x \in First(T \cup {k}) PROVE x = m
    <3>1. x \in Nat /\ x <= m /\ (x \in T \/ x = k)
      BY <2>1 DEF First
    <3>2. QED
      BY <2>2, <3>1
  <2>5. QED
    BY <2>1, <2>3, <2>4
<1>4. QED
  BY <1>1, <1>2, <1>3

(* One more result. *)
LEMMA OfAppend ==
  ASSUME NEW X, NEW s \in Seq(X), NEW r \in X, NEW tool
  PROVE  /\ Of(s, tool) \in SUBSET (1..Len(s)) /\ Of(s, tool) \in SUBSET Nat /\ Len(s) \in Nat
         /\ Of(Append(s, r), tool) = IF r.call.tool = tool THEN Of(s, tool) \cup {Len(s) + 1} ELSE Of(s, tool)
         /\ \A n \in 1..Len(s) : Append(s, r)[n] = s[n]
         /\ Append(s, r)[Len(s) + 1] = r /\ Append(s, r) \in Seq(X) /\ Len(Append(s, r)) = Len(s) + 1
<1>1. /\ Append(s, r) \in Seq(X) /\ Len(Append(s, r)) = Len(s) + 1 /\ Len(s) \in Nat
      /\ \A n \in 1..Len(s) : Append(s, r)[n] = s[n]
      /\ Append(s, r)[Len(s) + 1] = r
  BY AppendProperties, LenProperties
<1>2. DOMAIN s = 1..Len(s) /\ DOMAIN Append(s, r) = 1..(Len(s) + 1)
  BY <1>1, LenProperties
<1>3. 1..(Len(s) + 1) = 1..Len(s) \cup {Len(s) + 1}
  BY <1>1
<1>4. Of(s, tool) = {n \in 1..Len(s) : s[n].call.tool = tool}
  BY <1>2 DEF Of
<1>5. Of(Append(s, r), tool) = {n \in 1..(Len(s) + 1) : Append(s, r)[n].call.tool = tool}
  BY <1>2 DEF Of
<1>6. QED
  BY <1>1, <1>3, <1>4, <1>5

-----------------------------------------------------------------------------
(* The inductive invariant *)

Shortcuts == {[Step("submit_application") EXCEPT !.ref = Slug[j]] : j \in Jobs}
Steps     == Calls \cup {Step("search_jobs")} \cup Shortcuts
Wordings  == {"", "categories", "list", "nothing", "cards", "none", "status", "link", "listing", "answer",
              "busy", "safe"}
Causes    == {"translate", "menu", "search", "tool", "model", "remember"}

ResultType ==
  [call: Steps, failed: BOOLEAN, rows: Seq(RowType), counts: SUBSET Nat, link: SUBSET Jobs,
   apps: SUBSET Applications]

DraftType == [text: Wordings, shown: Seq(RowType), claim: Claims]

PinType   == [job: Jobs \cup {NoJob}, loose: BOOLEAN]
SpokeType == [lang: Languages, kept: BOOLEAN]

TurnType ==
  [msg: Messages \cup {NoMessage}, english: BOOLEAN, lang: Languages, found: Languages, pin: PinType,
   shortcut: BOOLEAN, live: SUBSET Jobs, always: SUBSET Jobs, pays: SUBSET (Pays \cup {None}),
   counts: SUBSET Nat, hadApplied: BOOLEAN, spoke: SpokeType, alone: BOOLEAN, failed: SUBSET Causes]

RivalType ==
  [at: {"gone", "begun", "loaded", "pinned", "stored"}, says: Languages \cup {Unsaid}, found: Languages,
   job: Jobs \cup {NoJob}, spoke: SpokeType, alone: BOOLEAN]

WorldOK   == board \in BoardType /\ applied \in SUBSET Applications
MemoryOK  == /\ pin \in PinType /\ stored \in Languages
             /\ cache \in [Fixed \X Languages -> {"nothing", "translation"}]
             /\ others \in [Rivals -> RivalType]
TurnOK    == turn \in TurnType /\ count \in [turns: Nat, edits: Nat, faults: Nat, steps: Nat]
PlanOK    == /\ plan \in Seq(Steps) /\ Len(plan) <= steps /\ steps \in 0..MaxSteps
             /\ loops \in {0, 1} \cup 0..MaxLoops
FactType  == [category: Phrases \cup {Unasked}, hits: Hits]
ThoughtOK == fact \in FactType /\ results \in Seq(ResultType)
ReplyOK   == /\ catalog \in Seq(RowType) /\ draft \in DraftType
             /\ draft.text \in {"cards", "list"} => Len(draft.shown) \in 1..CardLimit
HistoryOK == shown \in SUBSET Jobs /\ owed \in SUBSET Jobs /\ speaks \in SpokeType

(* Where there is a step to run, and another plan may be made. *)
StepsOK ==
  /\ node \in {"execute", "search_rows"} => plan # <<>>
  /\ node = "search_rows" => Call.tool = "search_jobs"
  /\ node = "planner" => loops = 0 \/ loops < MaxLoops

TypeInv == WorldOK /\ MemoryOK /\ TurnOK /\ PlanOK /\ ThoughtOK /\ ReplyOK /\ HistoryOK /\ StepsOK

(* Nothing has been found or planned before the agent. *)
Fresh == {"to_english", "load"}
Early == {"idle", "to_english", "load", "menu", "recommend", "newest", "browse", "browse_category",
          "browse_title", "browse_classified", "classify"}
EarlyInv ==
  /\ node \in Early => results = <<>> /\ catalog = <<>> /\ loops = 0 /\ ~turn.shortcut
  /\ node \in Early \ {"browse_category", "browse_classified"} => fact.category = Unasked
  /\ node \in {"browse_category", "browse_classified"} => fact.category \in Labels

(* A text is left in English if the model failed; the cache never keeps an *)
(* original; what is sent out of band is in the language used last.        *)
LanguageInv ==
  /\ node = "localize" => turn.lang # "en"
  /\ node \notin {"remember", "deliver"} => left = {}
  /\ left \subseteq Texts
  /\ left # {} => "translate" \in turn.failed /\ turn.lang # "en"
  /\ ~pushed.excused => pushed.left = {} /\ pushed.lang = pushed.expected

(* The language used last is what is stored when no turn may still store   *)
(* one, if the last to do so was alone. A turn that is alone replies in it,*)
(* and stores it over what it found.                                       *)
NoneCrosses == \A r \in Rivals : ~Crossing(r)
TurnCrossOK ==
  /\ InFlight /\ turn.alone => NoneCrosses /\ speaks.lang = Expected
  /\ node \in Fresh /\ turn.spoke.kept => NoneCrosses /\ stored = turn.spoke.lang
  /\ node \notin Fresh \cup {"idle"} =>
       /\ turn.lang = Language(Says(turn.msg), turn.found)
       /\ turn.spoke.kept => turn.found = turn.spoke.lang
  /\ InFlight /\ node \notin Fresh /\ turn.alone => stored = turn.found
RivalOK(r) ==
  Crossing(r) /\ others[r].alone =>
    /\ ~InFlight /\ \A q \in Rivals : Crossing(q) => q = r
    /\ speaks.lang = Language(others[r].says, others[r].spoke.lang)
    /\ others[r].at = "begun" /\ others[r].spoke.kept => stored = others[r].spoke.lang
    /\ others[r].at # "begun" =>
         /\ stored = others[r].found
         /\ others[r].spoke.kept => others[r].found = others[r].spoke.lang
CrossInv ==
  /\ speaks.kept => Quiet /\ stored = speaks.lang
  /\ TurnCrossOK /\ \A r \in Rivals : RivalOK(r)

(* What is open now was open during the turn, and what was open all along  *)
(* is; a sender who had applied has.                                       *)
BoardInv ==
  /\ node # "idle" => /\ turn.always \subseteq Open(board) /\ Open(board) \subseteq turn.live
                      /\ \A j \in Open(board) : board[j].pay \in turn.pays
                      /\ CountsOf(board) \subseteq turn.counts
  /\ turn.hadApplied => \E a \in applied : Applicant[a] = Seeker

(* Complete, Presented, Answers and Held, of a turn t. *)
CompleteIn(t, rows, category) ==
  \/ {j \in t.always : Category[j] = category} \subseteq JobsOf(rows)
  \/ Len(rows) >= CategoryLimit

PresentedIn(t, cards, rows, category) ==
  LET open == {j \in t.always : Category[j] = category}
  IN \/ Len(rows) >= CategoryLimit
     \/ /\ Cardinality(open) <= Len(rows)
        /\ open \subseteq JobsOf(cards) \/ (Len(cards) = CardLimit /\ CardLimit < Len(rows))

AnswersIn(t, call, rows) ==
  /\ \A i \in DOMAIN rows :
       /\ PlaceFits(rows[i].job, call.facets) /\ PayFits(rows[i].pay, call.facets)
       /\ KindFits(call, rows[i].job)
  /\ call.phrase # Unasked /\ call.facets = NoFacets /\ Names[call.phrase] # <<>> =>
       LET c == Head(Names[call.phrase])
       IN (\E j \in t.always : Category[j] = c) => CompleteIn(t, rows, c)

HeldIn(t, rs, claim) ==
  CASE claim.what = "none"    -> TRUE
    [] claim.what = "salary"  -> claim.of \in t.pays \cup t.msg.typed
    [] claim.what = "count"   ->
         \/ claim.of \in t.counts \cup t.msg.typed
         \/ \E n \in Of(rs, "search_jobs") :
              LET jobs == JobsOf(rs[n].rows) IN jobs \subseteq t.live /\ claim.of = Cardinality(jobs)
         \/ Of(rs, "search_docs") # {}

(* Rows that were read during the turn. *)
Read(t, rows) ==
  /\ Once(rows)
  /\ \A i \in 1..Len(rows) : rows[i].job \in t.live /\ rows[i].pay \in t.pays

(* What a result is, of the board that the turn has seen. *)
Sound(t, r) ==
  /\ Read(t, r.rows)
  /\ (r.call.tool # "search_jobs" \/ r.failed) => r.rows = <<>>
  /\ r.call.tool = "search_jobs" /\ ~r.failed => AnswersIn(t, r.call, r.rows)
  /\ r.call.tool # "search_docs" => r.counts \subseteq t.counts
  /\ \A j \in r.link : j \in t.live /\ Slug[j] = r.call.ref
  /\ r.call.tool = "get_application_status" /\ ~r.failed /\ r.call.ref = Unasked /\ t.hadApplied
       => r.apps # {}

ResultsInv == \A n \in 1..Len(results) : Sound(turn, results[n])

(* The area that a phrase names best is looked for, if it had jobs all along. *)
PhraseInv ==
  node = "search_rows" =>
    IF Call.phrase = Unasked THEN fact.category = Unasked
    ELSE /\ fact.category # Unasked
         /\ Names[Call.phrase] # <<>> /\ (\E j \in turn.always : Category[j] = Head(Names[Call.phrase]))
              => fact.category = Head(Names[Call.phrase])

(* Within the agent, the catalog is of the last search that found something. *)
Agent == {"planner", "execute", "search_rows", "reflect", "responder", "rewrite"}
LastFound(rows, rs) ==
  /\ Finds(rs) = {} => rows = <<>>
  /\ \A n \in Finds(rs) : (\A m \in Finds(rs) : m <= n) => rows = rs[n].rows
CatalogInv == node \in Agent => LastFound(catalog, results)

(* A turn that is a shortcut plans nothing but an application for the pin, *)
(* and no other turn of the agent has a pin to follow up.                  *)
ForPin(call) == call.tool = "submit_application" /\ call.ref = Slug[turn.pin.job]
ShortcutInv ==
  /\ turn.shortcut =>
       /\ turn.pin.job # NoJob /\ catalog = <<>>
       /\ \A n \in 1..Len(plan) : ForPin(plan[n])
       /\ \A n \in 1..Len(results) : ForPin(results[n].call)
  /\ node \in Agent /\ turn.shortcut => OnPinned
  /\ node \in Agent /\ ~turn.shortcut /\ OnPinned => node = "planner" /\ results = <<>> /\ catalog = <<>>

(* A pin that may be shown has been, or is owed to a reply. *)
PinOK(p) == p.job # NoJob /\ ~p.loose => p.job \in shown \cup owed
PinInv   == PinOK(pin) /\ PinOK(turn.pin)

(* The reply, from when it is drafted. *)
DraftOK ==
  /\ draft.text \in {"cards", "list", "listing"} => Read(turn, draft.shown)
  /\ draft.text = "cards" /\ fact.category # Unasked =>
       PresentedIn(turn, draft.shown, catalog, fact.category)
  /\ draft.text = "listing" => \A r \in Listed(results) : AnswersIn(turn, r.call, draft.shown)
  /\ draft.text = "answer" /\ draft.claim.seen => HeldIn(turn, results, draft.claim)
  /\ draft.text = "none" /\ turn.hadApplied =>
       \E r \in FirstOf(results, "get_application_status") : r.failed \/ r.call.ref # Unasked
  /\ draft.text = "link" =>
       \A j \in JobsOf(draft.shown) : j \in turn.live /\ (turn.shortcut => Slug[j] = Slug[turn.pin.job])
Foremost == catalog # <<>> => (Loose \/ Head(catalog).job \in Shows)

DraftInv == Answered => DraftOK /\ Foremost

Inv == /\ TypeInv /\ EarlyInv /\ LanguageInv /\ CrossInv /\ BoardInv /\ ResultsInv /\ PhraseInv
       /\ CatalogInv /\ ShortcutInv /\ PinInv /\ DraftInv

-----------------------------------------------------------------------------
(* The initial state *)

LEMMA NoFactIs == NoFact \in FactType /\ NoFact.category = Unasked
<1>1. <<>> \in [1..0 -> Jobs] /\ IsInjective(<<>>) /\ 0 \in 0..TopK
  BY LimitsAssumption DEF IsInjective
<1>2. <<>> \in Hits
  BY <1>1 DEF Hits, SeqOf
<1>3. QED
  BY <1>2 DEF NoFact, FactType

LEMMA NoTurnIs == NoTurn \in TurnType /\ Blank \in DraftType
<1>1. NoTurn \in TurnType
  <2>1. NoPin \in PinType
    BY DEF NoPin, PinType
  <2>2. [lang |-> "en", kept |-> FALSE] \in SpokeType
    BY DEF SpokeType, Languages
  <2>3. QED
    BY <2>1, <2>2 DEF NoTurn, TurnType, Languages
<1>2. Blank \in DraftType
  <2>1. <<>> \in Seq(RowType)
    OBVIOUS
  <2>2. NoClaim \in Claims
    BY ClaimsAssumption
  <2>3. "" \in Wordings
    BY DEF Wordings
  <2>4. QED
    BY <2>1, <2>2, <2>3 DEF Blank, DraftType
<1>3. QED
  BY <1>1, <1>2

LEMMA NoRivalIs == NoRival \in RivalType /\ NoPin \in PinType
<1>1. [lang |-> "en", kept |-> FALSE] \in SpokeType
  BY DEF SpokeType, Languages
<1>2. QED
  BY <1>1 DEF NoRival, RivalType, NoPin, PinType, Unsaid, Languages

LEMMA InitInv == Init => Inv
<1> SUFFICES ASSUME Init PROVE Inv
  OBVIOUS
<1> USE DEF Init
<1>1. WorldOK
  <2>1. board \in BoardType
    BY BoardAssumption DEF BoardType
  <2>2. QED
    BY <2>1 DEF WorldOK
<1>2. MemoryOK
  <2>1. others \in [Rivals -> RivalType] /\ pin \in PinType
    BY NoRivalIs
  <2>2. cache \in [Fixed \X Languages -> {"nothing", "translation"}] /\ stored \in Languages
    BY DEF Languages
  <2>3. QED
    BY <2>1, <2>2 DEF MemoryOK
<1>3. TurnOK
  BY NoTurnIs DEF TurnOK
<1>4. PlanOK
  BY BoundsAssumption DEF PlanOK
<1>5. ThoughtOK
  BY NoFactIs DEF ThoughtOK
<1>6. ReplyOK
  <2>1. catalog \in Seq(RowType) /\ draft \in DraftType
    BY NoTurnIs
  <2>2. draft.text = ""
    BY DEF Blank
  <2>3. QED
    BY <2>1, <2>2 DEF ReplyOK
<1>7. HistoryOK
  BY DEF HistoryOK, SpokeType, Languages
<1>8. StepsOK
  BY DEF StepsOK
<1>9. EarlyInv
  BY NoFactIs DEF EarlyInv, NoTurn, Early
<1>10. LanguageInv /\ CrossInv
  <2>1. \A r \in Rivals : ~Crossing(r)
    BY DEF Crossing, NoRival
  <2>2. CrossInv
    BY <2>1 DEF CrossInv, TurnCrossOK, RivalOK, InFlight, Quiet, Fresh
  <2>3. QED
    BY <2>2 DEF LanguageInv, NoPush
<1>11. BoardInv
  BY DEF BoardInv, NoTurn
<1>12. ResultsInv
  BY DEF ResultsInv
<1>13. PhraseInv /\ CatalogInv
  BY DEF PhraseInv, CatalogInv, Agent
<1>14. ShortcutInv
  BY DEF ShortcutInv, NoTurn, Agent
<1>15. PinInv /\ DraftInv
  BY DEF PinInv, PinOK, DraftInv, NoPin, Answered, NoTurn
<1>16. QED
  BY <1>1, <1>2, <1>3, <1>4, <1>5, <1>6, <1>7, <1>8, <1>9, <1>10, <1>11, <1>12, <1>13, <1>14, <1>15
     DEF Inv, TypeInv

-----------------------------------------------------------------------------
(* The shapes that a step may have *)

(* Nothing but the failures of a turn. *)
Alike(t, u) ==
  /\ u.msg = t.msg /\ u.lang = t.lang /\ u.found = t.found /\ u.pin = t.pin
  /\ u.live = t.live /\ u.always = t.always /\ u.pays = t.pays /\ u.counts = t.counts
  /\ u.hadApplied = t.hadApplied /\ t.failed \subseteq u.failed
Steady == turn'.spoke = turn.spoke /\ turn'.alone = turn.alone
Same == /\ TurnOK' /\ Alike(turn, turn') /\ Steady
        /\ turn'.english = turn.english /\ turn'.shortcut = turn.shortcut

(* From one place before the agent to another. *)
Moves ==
  /\ node \in Early \ {"idle"} /\ node' \in (Early \ {"idle"}) \cup {"planner"}
  /\ node \in Fresh <=> node' \in Fresh
  /\ TurnOK' /\ Alike(turn, turn') /\ Steady /\ turn'.shortcut = turn.shortcut
  /\ fact' \in FactType
  /\ IF node' \in {"browse_category", "browse_classified"} THEN fact'.category \in Labels
     ELSE node' # "planner" => fact'.category = Unasked
  /\ cache' \in [Fixed \X Languages -> {"nothing", "translation"}]
  /\ UNCHANGED <<world, pin, stored, others, history, reply, plan, steps, loops, results>>

(* A reply is drafted. *)
Drafts ==
  /\ node \notin {"idle", "localize", "remember", "deliver"} \cup Fresh /\ node' = "persist"
  /\ Same /\ ReplyOK' /\ DraftOK' /\ Foremost' /\ (turn.shortcut => catalog' = <<>>)
  /\ UNCHANGED <<world, memory, history, left, thoughts>>

(* A plan is made. *)
Plans ==
  /\ node = "planner" /\ node' \in {"responder", "execute"}
  /\ PlanOK' /\ (node' = "execute" => plan' # <<>>)
  /\ TurnOK' /\ Alike(turn, turn') /\ Steady /\ turn'.english = turn.english
  /\ turn'.shortcut = OnPinned
  /\ OnPinned => \A n \in 1..Len(plan') : ForPin(plan'[n])
  /\ UNCHANGED <<world, memory, history, reply, fact, results>>

(* A step of it has its result. *)
Executes ==
  \E result \in ResultType :
    /\ node \in {"execute", "search_rows"} /\ node' \in {"execute", "responder", "reflect"}
    /\ node' = "execute" => Tail(plan) # <<>>
    /\ Same /\ result.call = Call /\ Sound(turn, result)
    /\ results' = Append(results, result)
    /\ catalog' = IF result.rows # <<>> THEN result.rows ELSE catalog
    /\ plan' = Tail(plan) /\ fact' = NoFact
    /\ UNCHANGED <<world, memory, history, draft, left, steps, loops>>

(* A search is under way. *)
Seeks ==
  /\ node = "execute" /\ node' = "search_rows" /\ Call.tool = "search_jobs"
  /\ fact' \in FactType /\ PhraseInv'
  /\ UNCHANGED <<world, memory, history, reply, plan, steps, loops, results, turn, count>>

(* Nothing but the place changes. *)
Considers ==
  /\ \/ node = "reflect" /\ node' = "responder"
     \/ node = "reflect" /\ node' = "planner" /\ loops < MaxLoops
     \/ node = "responder" /\ node' = "rewrite"
  /\ UNCHANGED <<world, memory, history, reply, thoughts, turn, count>>

(* What the turn does not see while it runs. *)
Aside ==
  /\ UNCHANGED <<world, node, thoughts, reply>>
  /\ TurnOK' /\ Alike(turn, turn') /\ turn'.english = turn.english /\ turn'.shortcut = turn.shortcut
  /\ MemoryOK' /\ HistoryOK' /\ CrossInv' /\ PinOK(pin)' /\ PinOK(turn.pin)'
  /\ ~pushed'.excused => pushed'.left = {} /\ pushed'.lang = pushed'.expected

(* The end of a turn, and of its state. *)
Resets ==
  /\ node' = "idle" /\ Reset /\ UNCHANGED <<world, memory, pushed, speaks>>
  /\ count' \in [turns: Nat, edits: Nat, faults: Nat, steps: Nat]
  /\ HistoryOK' /\ PinOK(pin)'

Ends   == LoadContext \/ Persist \/ Localize \/ Remember \/ Resets
Around == \/ \E m \in Messages : Begin(m)
          \/ \E j \in Jobs, status \in Statuses : Edit(j, [board[j] EXCEPT !.status = status])
          \/ \E j \in Jobs, pay \in Pays : Edit(j, [board[j] EXCEPT !.pay = pay])
          \/ \E a \in Applications : ApplyElsewhere(a)
          \/ Aside

Shapes == Moves \/ Drafts \/ Plans \/ Executes \/ Seeks \/ Considers \/ Ends \/ Around

-----------------------------------------------------------------------------
(* A step of any shape preserves the types *)

LEMMA RowsOfJobs == ASSUME NEW rows \in Seq(RowType) PROVE JobsOf(rows) \in SUBSET Jobs
<1>1. DOMAIN rows = 1..Len(rows) /\ \A i \in 1..Len(rows) : rows[i].job \in Jobs
  <2>1. \A i \in 1..Len(rows) : rows[i] \in RowType
    BY ElementOfSeq
  <2>2. QED
    BY <2>1, LenProperties DEF RowType
<1>2. QED
  BY <1>1 DEF JobsOf

(* The history of the board that a turn keeps. *)
LEMMA OpenIsLive == ASSUME NEW b PROVE Live(b) = Open(b) /\ Live(b) \in SUBSET Jobs
BY DEF Live, Open

LEMMA ScriptsAre == ASSUME NEW m \in Messages \cup {NoMessage} PROVE Scripts[m.script] \in Languages
<1>1. CASE m \in Messages
  <2>1. m.script \in DOMAIN Scripts
    BY <1>1, MessagesAssumption DEF Message
  <2>2. QED
    BY <2>1 DEF Scripts, Languages
<1>2. CASE m = NoMessage
  <2>1. m.script = "none"
    BY <1>2 DEF NoMessage
  <2>2. QED
    BY <2>1 DEF Scripts, Languages
<1>3. QED
  BY <1>1, <1>2

LEMMA NewTurnIs ==
  ASSUME TypeInv, NEW m \in Messages
  PROVE  NewTurn(m) \in TurnType
<1>1. m \in Messages \cup {NoMessage} /\ m.script \in DOMAIN Scripts
  BY MessagesAssumption DEF Message
<1>2. Scripts[m.script] \in Languages
  BY <1>1 DEF Scripts, Languages
<1>3. Language(Says(m), "en") \in Languages
  BY <1>2 DEF Language, Says, Languages
<1>4. {board[j].pay : j \in Live(board)} \in SUBSET (Pays \cup {None})
  BY DEF Live, TypeInv, WorldOK, BoardType
<1>5. speaks \in SpokeType /\ NoPin \in PinType /\ Quiet \in BOOLEAN
  BY NoRivalIs DEF TypeInv, HistoryOK, Quiet, InFlight
<1>6. CountsOf(board) \in SUBSET Nat /\ Live(board) \in SUBSET Jobs
  BY CountsAreNumbers, OpenIsLive
<1>7. (m.tap # "" \/ Scripts[m.script] = "en") \in BOOLEAN /\ (\E a \in applied : Applicant[a] = Seeker) \in BOOLEAN
  OBVIOUS
<1>8. "en" \in Languages
  BY DEF Languages
<1>9. QED
  BY <1>1, <1>3, <1>4, <1>5, <1>6, <1>7, <1>8 DEF NewTurn, TurnType

LEMMA CountIs ==
  ASSUME TurnOK, NEW what \in Causes, NoFault \/ Fault(what)
  PROVE  Same
<1>1. CASE NoFault
  BY <1>1 DEF NoFault, Same, Steady, Alike, TurnOK, TurnType
<1>2. CASE Fault(what)
  <2>1. turn' = [turn EXCEPT !.failed = @ \cup {what}] /\ count' = [count EXCEPT !.faults = @ + 1]
    BY <1>2 DEF Fault, Mishap
  <2>2. turn' \in TurnType
    BY <2>1 DEF TurnOK, TurnType
  <2>3. TurnOK'
    BY <2>1, <2>2 DEF TurnOK
  <2>4. QED
    BY <2>1, <2>3 DEF Same, Steady, Alike, TurnOK, TurnType
<1>3. QED
  BY <1>1, <1>2

LEMMA EditIs ==
  ASSUME TypeInv, NEW j \in Jobs, NEW row \in [status: Statuses, pay: Pays \cup {None}], Edit(j, row)
  PROVE  /\ board' \in BoardType /\ TurnOK'
         /\ turn' = IF node = "idle" THEN turn
                    ELSE [turn EXCEPT !.live = @ \cup Open(board'), !.always = @ \cap Open(board'),
                                      !.pays = @ \cup {board'[i].pay : i \in Open(board')},
                                      !.counts = @ \cup CountsOf(board')]
<1>1. board' \in BoardType
  BY DEF Edit, TypeInv, WorldOK, BoardType
<1>2. Live(board') = Open(board') /\ Open(board') \in SUBSET Jobs
  BY OpenIsLive
<1>3. {board'[i].pay : i \in Open(board')} \in SUBSET (Pays \cup {None})
  BY <1>1, <1>2 DEF BoardType
<1>4. turn' = IF node = "idle" THEN turn
              ELSE [turn EXCEPT !.live = @ \cup Open(board'), !.always = @ \cap Open(board'),
                                !.pays = @ \cup {board'[i].pay : i \in Open(board')},
                                !.counts = @ \cup CountsOf(board')]
  BY <1>2 DEF Edit, Watch
<1>5. turn' \in TurnType
  <2>1. CountsOf(board') \in SUBSET Nat
    BY CountsAreNumbers
  <2>2. QED
    BY <1>2, <1>3, <1>4, <2>1 DEF TypeInv, TurnOK, TurnType
<1>6. count' \in [turns: Nat, edits: Nat, faults: Nat, steps: Nat]
  BY DEF Edit, TypeInv, TurnOK
<1>7. QED
  BY <1>1, <1>4, <1>5, <1>6 DEF TurnOK

LEMMA RowIs ==
  ASSUME TypeInv, NEW j \in Jobs
  PROVE  /\ \A status \in Statuses : [board[j] EXCEPT !.status = status] \in [status: Statuses, pay: Pays \cup {None}]
         /\ \A pay \in Pays : [board[j] EXCEPT !.pay = pay] \in [status: Statuses, pay: Pays \cup {None}]
BY DEF TypeInv, WorldOK, BoardType

(* Translations are all that the cache gets. *)
LEMMA CachedIs ==
  ASSUME NEW c \in [Fixed \X Languages -> {"nothing", "translation"}], NEW texts, NEW lang, NEW done
  PROVE  Cached(c, texts, lang, done) \in [Fixed \X Languages -> {"nothing", "translation"}]
BY DEF Cached

LEMMA ShownIs == ASSUME ReplyOK PROVE Shows \in SUBSET Jobs
BY RowsOfJobs DEF ReplyOK, DraftType, Shows

LEMMA PinnedIs ==
  ASSUME ReplyOK, catalog # <<>>
  PROVE  Pinned \in PinType /\ Pinned.job \in Jobs /\ Pinned.loose = Loose /\ Pinned.job = Head(catalog).job
<1>1. catalog \in Seq(RowType)
  BY DEF ReplyOK
<1>2. Head(catalog) \in RowType
  BY <1>1, HeadTailProperties
<1>3. Head(catalog).job \in Jobs
  BY <1>2 DEF RowType
<1>4. Loose \in BOOLEAN
  BY DEF Loose
<1>5. QED
  BY <1>3, <1>4 DEF Pinned, PinType

LEMMA OwnIs == ASSUME ReplyOK PROVE Own \in SUBSET Jobs
BY PinnedIs DEF Own, Pinning

LEMMA TypeMoves == ASSUME Inv, Moves PROVE TypeInv'
<1> USE DEF Inv, TypeInv, Moves, world, history, reply
<1>1. WorldOK'
  BY DEF WorldOK
<1>2. MemoryOK'
  BY DEF MemoryOK
<1>3. PlanOK'
  BY DEF PlanOK
<1>4. ThoughtOK'
  BY DEF ThoughtOK
<1>5. ReplyOK'
  BY DEF ReplyOK
<1>6. HistoryOK'
  BY DEF HistoryOK
<1>7. StepsOK'
  BY DEF EarlyInv, StepsOK, Early
<1>8. QED
  BY <1>1, <1>2, <1>3, <1>4, <1>5, <1>6, <1>7

LEMMA TypeDrafts == ASSUME Inv, Drafts PROVE TypeInv'
<1> USE DEF Inv, TypeInv, Drafts, Same, world, memory, history, thoughts
<1>1. WorldOK' /\ MemoryOK'
  BY DEF WorldOK, MemoryOK
<1>2. PlanOK' /\ ThoughtOK'
  BY DEF PlanOK, ThoughtOK
<1>3. HistoryOK' /\ StepsOK'
  BY DEF HistoryOK, StepsOK
<1>4. QED
  BY <1>1, <1>2, <1>3

LEMMA TypePlans == ASSUME Inv, Plans PROVE TypeInv'
<1> USE DEF Inv, TypeInv, Plans, world, memory, history, reply
<1>1. WorldOK' /\ MemoryOK'
  BY DEF WorldOK, MemoryOK
<1>2. ThoughtOK' /\ ReplyOK'
  BY DEF ThoughtOK, ReplyOK
<1>3. HistoryOK' /\ StepsOK'
  BY DEF HistoryOK, StepsOK
<1>4. QED
  BY <1>1, <1>2, <1>3

LEMMA TypeExecutes == ASSUME Inv, Executes PROVE TypeInv'
<1>1. PICK result \in ResultType :
        /\ node \in {"execute", "search_rows"} /\ node' \in {"execute", "responder", "reflect"}
        /\ node' = "execute" => Tail(plan) # <<>>
        /\ Same /\ results' = Append(results, result)
        /\ catalog' = IF result.rows # <<>> THEN result.rows ELSE catalog
        /\ plan' = Tail(plan) /\ fact' = NoFact
        /\ UNCHANGED <<world, memory, history, draft, left, steps, loops>>
  BY DEF Executes
<1> USE DEF Inv, TypeInv
<1>2. WorldOK' /\ MemoryOK'
  BY <1>1 DEF WorldOK, MemoryOK, world, memory
<1>3. PlanOK'
  <2>1. plan \in Seq(Steps) /\ plan # <<>>
    BY <1>1 DEF StepsOK, PlanOK
  <2>2. Tail(plan) \in Seq(Steps) /\ Len(Tail(plan)) = Len(plan) - 1
    BY <2>1, HeadTailProperties
  <2>3. QED
    BY <1>1, <2>1, <2>2 DEF PlanOK
<1>4. ThoughtOK'
  <2>1. results' \in Seq(ResultType)
    BY <1>1, AppendProperties DEF ThoughtOK
  <2>2. QED
    BY <1>1, <2>1, NoFactIs DEF ThoughtOK
<1>5. ReplyOK'
  <2>1. result.rows \in Seq(RowType)
    BY DEF ResultType
  <2>2. catalog' \in Seq(RowType)
    BY <1>1, <2>1 DEF ReplyOK
  <2>3. QED
    BY <1>1, <2>2 DEF ReplyOK
<1>6. HistoryOK'
  BY <1>1 DEF HistoryOK, history
<1>7. StepsOK'
  BY <1>1 DEF StepsOK
<1>8. TurnOK'
  BY <1>1 DEF Same
<1>9. QED
  BY <1>2, <1>3, <1>4, <1>5, <1>6, <1>7, <1>8

LEMMA TypeSeeks == ASSUME Inv, Seeks PROVE TypeInv'
<1> USE DEF Inv, TypeInv, Seeks, world, memory, history, reply
<1>1. WorldOK' /\ MemoryOK' /\ TurnOK'
  BY DEF WorldOK, MemoryOK, TurnOK
<1>2. PlanOK' /\ ThoughtOK' /\ ReplyOK'
  BY DEF PlanOK, ThoughtOK, ReplyOK
<1>3. HistoryOK'
  BY DEF HistoryOK
<1>4. StepsOK'
  BY DEF StepsOK, Call
<1>5. QED
  BY <1>1, <1>2, <1>3, <1>4

LEMMA TypeConsiders == ASSUME Inv, Considers PROVE TypeInv'
<1> USE DEF Inv, TypeInv, Considers, world, memory, history, reply, thoughts
<1>1. WorldOK' /\ MemoryOK' /\ TurnOK'
  BY DEF WorldOK, MemoryOK, TurnOK
<1>2. PlanOK' /\ ThoughtOK' /\ ReplyOK'
  BY DEF PlanOK, ThoughtOK, ReplyOK
<1>3. HistoryOK' /\ StepsOK'
  BY DEF HistoryOK, StepsOK
<1>4. QED
  BY <1>1, <1>2, <1>3

LEMMA TypePersist == ASSUME Inv, Persist PROVE TypeInv'
<1> USE DEF Inv, TypeInv, Persist, Goto, world, reply, thoughts
<1>1. MemoryOK'
  <2>1. pin' \in PinType
    BY PinnedIs DEF MemoryOK, Pinning
  <2>2. QED
    BY <2>1 DEF MemoryOK
<1>2. WorldOK' /\ TurnOK'
  BY DEF WorldOK, TurnOK
<1>3. PlanOK' /\ ThoughtOK' /\ ReplyOK'
  BY DEF PlanOK, ThoughtOK, ReplyOK
<1>4. HistoryOK' /\ StepsOK'
  BY OwnIs DEF HistoryOK, StepsOK
<1>5. QED
  BY <1>1, <1>2, <1>3, <1>4

LEMMA TypeLoad == ASSUME Inv, LoadContext PROVE TypeInv'
<1> USE DEF Inv, TypeInv, LoadContext, Goto, world, memory, history, reply, thoughts
<1>1. WorldOK' /\ MemoryOK'
  BY DEF WorldOK, MemoryOK
<1>2. TurnOK'
  <2>1. turn \in TurnType /\ stored \in Languages /\ pin \in PinType
    BY DEF TurnOK, MemoryOK
  <2>2. turn.msg \in Messages \cup {NoMessage}
    BY <2>1 DEF TurnType
  <2>3. Scripts[turn.msg.script] \in Languages
    BY <2>2, ScriptsAre
  <2>4. Language(Says(turn.msg), stored) \in Languages
    BY <2>1, <2>3 DEF Language, Says
  <2>5. turn' \in TurnType
    BY <2>1, <2>4 DEF TurnType
  <2>6. QED
    BY <2>5 DEF TurnOK
<1>3. PlanOK' /\ ThoughtOK' /\ ReplyOK'
  BY DEF PlanOK, ThoughtOK, ReplyOK
<1>4. HistoryOK' /\ StepsOK'
  BY DEF HistoryOK, StepsOK
<1>5. QED
  BY <1>1, <1>2, <1>3, <1>4

LEMMA TypeAside == ASSUME Inv, Aside PROVE TypeInv'
<1> USE DEF Inv, TypeInv, Aside, world, reply, thoughts
<1>1. WorldOK' /\ PlanOK'
  BY DEF WorldOK, PlanOK
<1>2. ThoughtOK' /\ ReplyOK' /\ StepsOK'
  BY DEF ThoughtOK, ReplyOK, StepsOK, Call
<1>3. QED
  BY <1>1, <1>2

LEMMA TypeLocalize == ASSUME Inv, Localize PROVE TypeInv' /\ Same
<1>1. PICK done \in SUBSET Todo(cache, Texts, turn.lang) :
        /\ cache' = Cached(cache, Texts, turn.lang, done)
        /\ IF done = Todo(cache, Texts, turn.lang) THEN NoFault ELSE Fault("translate")
  BY DEF Localize
<1> USE DEF Inv, TypeInv
<1>2. /\ node' = "remember"
      /\ UNCHANGED <<world, pin, stored, others, thoughts, catalog, draft, history>>
  BY DEF Localize, Goto
<1>3. MemoryOK'
  <2>1. cache' \in [Fixed \X Languages -> {"nothing", "translation"}]
    BY <1>1, CachedIs DEF MemoryOK
  <2>2. QED
    BY <1>2, <2>1 DEF MemoryOK
<1>4. Same
  BY <1>1, CountIs DEF Causes
<1>5. WorldOK' /\ PlanOK' /\ ThoughtOK'
  BY <1>2 DEF WorldOK, PlanOK, ThoughtOK, world, thoughts
<1>6. ReplyOK'
  BY <1>2 DEF ReplyOK
<1>7. HistoryOK' /\ StepsOK'
  BY <1>2 DEF HistoryOK, StepsOK, history
<1>8. QED
  BY <1>3, <1>4, <1>5, <1>6, <1>7 DEF Same

LEMMA TypeRemember == ASSUME Inv, Remember PROVE TypeInv' /\ Same
<1> USE DEF Inv, TypeInv
<1>1. /\ node' = "deliver"
      /\ stored' \in {turn.lang, stored} /\ (NoFault \/ Fault("remember"))
      /\ speaks' = speaks \/ speaks' = [speaks EXCEPT !.kept = Kept(Says(turn.msg), turn.spoke, turn.alone)]
      /\ UNCHANGED <<world, pin, cache, others, thoughts, reply, pushed, shown, owed>>
  BY DEF Remember, Goto
<1>2. turn.lang \in Languages /\ Kept(Says(turn.msg), turn.spoke, turn.alone) \in BOOLEAN
  <2>1. turn.lang \in Languages /\ turn.alone \in BOOLEAN
    BY DEF TurnOK, TurnType
  <2>2. QED
    BY <2>1 DEF Kept
<1>3. MemoryOK'
  BY <1>1, <1>2 DEF MemoryOK
<1>4. Same
  BY <1>1, CountIs DEF Causes
<1>5. WorldOK' /\ PlanOK' /\ ThoughtOK'
  BY <1>1 DEF WorldOK, PlanOK, ThoughtOK, world, thoughts
<1>6. ReplyOK'
  BY <1>1 DEF ReplyOK, reply
<1>7. HistoryOK'
  BY <1>1, <1>2 DEF HistoryOK, SpokeType
<1>8. StepsOK'
  BY <1>1 DEF StepsOK
<1>9. QED
  BY <1>3, <1>4, <1>5, <1>6, <1>7, <1>8 DEF Same

LEMMA TypeResets == ASSUME Inv, Resets PROVE TypeInv'
<1> USE DEF Inv, TypeInv, Resets, Reset
<1>1. WorldOK' /\ MemoryOK'
  BY DEF WorldOK, MemoryOK, world, memory
<1>2. TurnOK'
  BY NoTurnIs DEF TurnOK
<1>3. PlanOK'
  <2>1. plan' \in Seq(Steps) /\ Len(plan') = 0
    OBVIOUS
  <2>2. QED
    BY <2>1, BoundsAssumption DEF PlanOK
<1>4. ThoughtOK'
  BY NoFactIs DEF ThoughtOK
<1>5. ReplyOK'
  <2>1. catalog' \in Seq(RowType) /\ draft' \in DraftType
    BY NoTurnIs
  <2>2. draft'.text = ""
    BY DEF Blank
  <2>3. QED
    BY <2>1, <2>2 DEF ReplyOK
<1>6. StepsOK'
  BY DEF StepsOK
<1>7. QED
  BY <1>1, <1>2, <1>3, <1>4, <1>5, <1>6

(* What the first words of a turn make of history. *)
LEMMA ArrivalIs ==
  ASSUME TypeInv, NEW says \in Languages \cup {Unsaid}, Arrival(says)
  PROVE  /\ speaks' = [lang |-> Language(says, speaks.lang), kept |-> FALSE] /\ speaks' \in SpokeType
         /\ pushed'.excused /\ count' \in [turns: Nat, edits: Nat, faults: Nat, steps: Nat]
<1>1. count' = [count EXCEPT !.turns = @ + 1] /\ pushed' = NoPush
      /\ speaks' = [lang |-> Language(says, speaks.lang), kept |-> FALSE]
  BY DEF Arrival
<1>2. count \in [turns: Nat, edits: Nat, faults: Nat, steps: Nat] /\ speaks.lang \in Languages
  BY DEF TypeInv, TurnOK, HistoryOK, SpokeType
<1>3. Language(says, speaks.lang) \in Languages
  BY <1>2 DEF Language
<1>4. count' \in [turns: Nat, edits: Nat, faults: Nat, steps: Nat]
  BY <1>1, <1>2
<1>5. QED
  BY <1>1, <1>3, <1>4 DEF NoPush, SpokeType

LEMMA SaysIs == ASSUME NEW m \in Messages PROVE Says(m) \in Languages \cup {Unsaid}
<1>1. Scripts[m.script] \in Languages
  BY ScriptsAre
<1>2. QED
  BY <1>1 DEF Says

LEMMA CrossedIs ==
  ASSUME MemoryOK
  PROVE  /\ Crossed \in [Rivals -> RivalType]
         /\ \A r \in Rivals : Crossed[r] = [others[r] EXCEPT !.alone = FALSE] /\ ~Crossed[r].alone
                             /\ Crossed[r].at = others[r].at
<1>1. \A r \in Rivals : others[r] \in RivalType
  BY DEF MemoryOK
<1>2. \A r \in Rivals : [others[r] EXCEPT !.alone = FALSE] \in RivalType
  BY <1>1 DEF RivalType
<1>3. QED
  BY <1>1, <1>2 DEF Crossed, RivalType

LEMMA TypeBegin == ASSUME TypeInv, NEW m \in Messages, Begin(m) PROVE TypeInv'
<1>1. TurnOK'
  <2>1. turn' \in TurnType
    BY NewTurnIs DEF Begin
  <2>2. count' \in [turns: Nat, edits: Nat, faults: Nat, steps: Nat]
    BY SaysIs, ArrivalIs DEF Begin
  <2>3. QED
    BY <2>1, <2>2 DEF TurnOK
<1> USE DEF TypeInv, Begin
<1>2. WorldOK' /\ MemoryOK'
  BY CrossedIs DEF WorldOK, MemoryOK, world
<1>3. PlanOK' /\ ThoughtOK' /\ ReplyOK'
  BY DEF PlanOK, ThoughtOK, ReplyOK, thoughts, reply
<1>4. HistoryOK' /\ StepsOK'
  BY SaysIs, ArrivalIs DEF HistoryOK, StepsOK
<1>5. QED
  BY <1>1, <1>2, <1>3, <1>4

LEMMA TypeEdit ==
  ASSUME Inv, NEW j \in Jobs, NEW row \in [status: Statuses, pay: Pays \cup {None}], Edit(j, row)
  PROVE  TypeInv'
<1> USE DEF Inv, TypeInv
<1>1. board' \in BoardType /\ TurnOK'
  BY EditIs
<1>2. UNCHANGED <<applied, memory, node, thoughts, reply, history>>
  BY DEF Edit
<1>3. WorldOK' /\ MemoryOK'
  BY <1>1, <1>2 DEF WorldOK, MemoryOK, memory
<1>4. PlanOK' /\ ThoughtOK' /\ ReplyOK'
  BY <1>2 DEF PlanOK, ThoughtOK, ReplyOK, thoughts, reply
<1>5. HistoryOK' /\ StepsOK'
  BY <1>2 DEF HistoryOK, StepsOK, history, thoughts, Call
<1>6. QED
  BY <1>1, <1>3, <1>4, <1>5

LEMMA TypeApply == ASSUME Inv, NEW a \in Applications, ApplyElsewhere(a) PROVE TypeInv'
<1> USE DEF Inv, TypeInv, ApplyElsewhere
<1>1. WorldOK' /\ MemoryOK'
  BY DEF WorldOK, MemoryOK, memory
<1>2. PlanOK' /\ ThoughtOK' /\ ReplyOK'
  BY DEF PlanOK, ThoughtOK, ReplyOK, thoughts, reply
<1>3. HistoryOK' /\ StepsOK' /\ TurnOK'
  BY DEF HistoryOK, StepsOK, history, thoughts, Call, TurnOK
<1>4. QED
  BY <1>1, <1>2, <1>3

-----------------------------------------------------------------------------
(* What was read stays true as the turn sees more of the board *)

Grown(t, u) ==
  /\ t.live \subseteq u.live /\ u.always \subseteq t.always /\ t.pays \subseteq u.pays
  /\ t.counts \subseteq u.counts /\ u.hadApplied = t.hadApplied

LEMMA Grows ==
  ASSUME NEW t \in TurnType, NEW u \in TurnType, Grown(t, u)
  PROVE  \A r \in ResultType : Sound(t, r) => Sound(u, r)
<1> SUFFICES ASSUME NEW r \in ResultType, Sound(t, r) PROVE Sound(u, r)
  OBVIOUS
<1>1. Read(u, r.rows)
  BY DEF Sound, Read, Grown
<1>2. AnswersIn(t, r.call, r.rows) => AnswersIn(u, r.call, r.rows)
  BY DEF AnswersIn, CompleteIn, Grown
<1>3. r.counts \subseteq t.counts => r.counts \subseteq u.counts
  BY DEF Grown
<1>4. (\A j \in r.link : j \in t.live /\ Slug[j] = r.call.ref)
        => \A j \in r.link : j \in u.live /\ Slug[j] = r.call.ref
  BY DEF Grown
<1>5. u.hadApplied = t.hadApplied
  BY DEF Grown
<1>6. QED
  BY <1>1, <1>2, <1>3, <1>4, <1>5 DEF Sound

LEMMA AlikeIsGrown == ASSUME NEW t, NEW u, Alike(t, u) PROVE Grown(t, u)
BY DEF Alike, Grown

(* Results that stay. *)
LEMMA ResultsStay ==
  ASSUME TypeInv, TurnOK', ResultsInv, Grown(turn, turn'), UNCHANGED results
  PROVE  ResultsInv'
<1>1. turn \in TurnType /\ turn' \in TurnType
  BY DEF TypeInv, TurnOK
<1>2. \A n \in 1..Len(results) : results[n] \in ResultType
  BY ElementOfSeq DEF TypeInv, ThoughtOK
<1>3. \A n \in 1..Len(results) : Sound(turn, results[n])
  BY DEF ResultsInv
<1>4. \A n \in 1..Len(results) : Sound(turn', results[n])
  BY <1>1, <1>2, <1>3, Grows
<1>5. QED
  BY <1>4 DEF ResultsInv

(* A draft that stays: the turn has seen the same. *)
LEMMA HeldAlike ==
  ASSUME NEW t, NEW u, Alike(t, u)
  PROVE  /\ \A rows : Read(t, rows) => Read(u, rows)
         /\ \A cards, rows, c : PresentedIn(t, cards, rows, c) => PresentedIn(u, cards, rows, c)
         /\ \A call, rows : AnswersIn(t, call, rows) => AnswersIn(u, call, rows)
         /\ \A rs, claim : HeldIn(t, rs, claim) => HeldIn(u, rs, claim)
<1>1. /\ u.live = t.live /\ u.always = t.always /\ u.pays = t.pays /\ u.msg = t.msg
      /\ u.counts = t.counts
  BY DEF Alike
<1>2. \A rows : Read(t, rows) => Read(u, rows)
  BY <1>1 DEF Read
<1>3. \A cards, rows, c : PresentedIn(t, cards, rows, c) => PresentedIn(u, cards, rows, c)
  BY <1>1 DEF PresentedIn
<1>4. \A call, rows : AnswersIn(t, call, rows) => AnswersIn(u, call, rows)
  BY <1>1 DEF AnswersIn, CompleteIn
<1>5. \A rs, claim : HeldIn(t, rs, claim) => HeldIn(u, rs, claim)
  BY <1>1 DEF HeldIn
<1>6. QED
  BY <1>2, <1>3, <1>4, <1>5

LEMMA DraftStays ==
  ASSUME DraftInv, Answered, Alike(turn, turn'), turn'.shortcut = turn.shortcut,
         UNCHANGED <<draft, catalog, thoughts>>
  PROVE  DraftOK' /\ Foremost'
<1> USE DEF thoughts, DraftInv
<1>1. draft.text \in {"cards", "list", "listing"} => Read(turn', draft.shown)
  BY HeldAlike DEF DraftOK
<1>2. draft.text = "cards" /\ fact.category # Unasked =>
        PresentedIn(turn', draft.shown, catalog, fact.category)
  BY HeldAlike DEF DraftOK
<1>3. draft.text = "listing" => \A r \in Listed(results) : AnswersIn(turn', r.call, draft.shown)
  BY HeldAlike DEF DraftOK
<1>4. draft.text = "answer" /\ draft.claim.seen => HeldIn(turn', results, draft.claim)
  BY HeldAlike DEF DraftOK
<1>5. draft.text = "none" /\ turn'.hadApplied =>
         \E r \in FirstOf(results, "get_application_status") : r.failed \/ r.call.ref # Unasked
  BY DEF DraftOK, Alike
<1>6. draft.text = "link" =>
        \A j \in JobsOf(draft.shown) : j \in turn'.live /\ (turn'.shortcut => Slug[j] = Slug[turn'.pin.job])
  BY DEF DraftOK, Alike
<1>7. Foremost'
  BY DEF Foremost, Loose, Shows
<1>8. QED
  BY <1>1, <1>2, <1>3, <1>4, <1>5, <1>6, <1>7 DEF DraftOK

-----------------------------------------------------------------------------
(* The rest of the invariant, a shape at a time *)

(* What is said of languages and pins does not depend on how far the turn *)
(* is, as long as it is between loading its context and its end.           *)
LEMMA CrossStays ==
  ASSUME CrossInv, Alike(turn, turn'), Steady, UNCHANGED <<stored, others, speaks>>,
         node \notin {"idle", "deliver"}, node' \notin {"idle", "deliver"}, node \in Fresh <=> node' \in Fresh
  PROVE  CrossInv'
<1>1. InFlight /\ InFlight'
  BY DEF InFlight
<1>2. \A r \in Rivals : Crossing(r)' <=> Crossing(r)
  BY DEF Crossing
<1>3. ~speaks.kept /\ ~speaks'.kept
  BY <1>1 DEF CrossInv, Quiet
<1>4. TurnCrossOK'
  BY <1>1, <1>2 DEF CrossInv, TurnCrossOK, NoneCrosses, Expected, Alike, Steady
<1>5. ASSUME NEW r \in Rivals PROVE RivalOK(r)'
  BY <1>1, <1>2 DEF CrossInv, RivalOK
<1>6. QED
  BY <1>3, <1>4, <1>5 DEF CrossInv

LEMMA MemoryStays ==
  ASSUME LanguageInv, CrossInv, PinInv, Alike(turn, turn'), Steady,
         UNCHANGED <<pin, stored, others, history>>, left' = left, left = {},
         node \notin {"idle", "deliver"}, node' \notin {"idle", "deliver", "localize"},
         node \in Fresh <=> node' \in Fresh
  PROVE  LanguageInv' /\ CrossInv' /\ PinInv'
<1>1. LanguageInv'
  BY DEF LanguageInv, history
<1>2. CrossInv'
  BY CrossStays DEF history
<1>3. PinInv'
  BY DEF PinInv, PinOK, Alike, history
<1>4. QED
  BY <1>1, <1>2, <1>3

LEMMA BoardStays ==
  ASSUME BoardInv, Alike(turn, turn'), UNCHANGED world, node # "idle"
  PROVE  BoardInv'
BY DEF BoardInv, Alike, world

LEMMA InvMoves == ASSUME Inv, Moves PROVE Inv'
<1> USE DEF Moves
<1>0. /\ TypeInv /\ EarlyInv /\ LanguageInv /\ CrossInv /\ BoardInv /\ ResultsInv /\ ShortcutInv /\ PinInv /\ TypeInv'
  BY TypeMoves DEF Inv
<1>1. EarlyInv'
  BY <1>0 DEF EarlyInv, Early, reply
<1>2. LanguageInv' /\ CrossInv' /\ PinInv'
  <2>1. /\ node \notin {"idle", "deliver"} /\ node' \notin {"idle", "deliver", "localize"}
        /\ left = {} /\ left' = left
    BY <1>0 DEF LanguageInv, Early, reply
  <2>2. QED
    BY <1>0, <2>1, MemoryStays
<1>3. BoardInv'
  BY <1>0, BoardStays
<1>4. ResultsInv'
  BY <1>0, AlikeIsGrown, ResultsStay
<1>5. PhraseInv' /\ DraftInv'
  BY DEF PhraseInv, DraftInv, Answered, Early
<1>6. CatalogInv'
  <2>1. results' = <<>> /\ catalog' = <<>>
    BY <1>0 DEF EarlyInv, reply
  <2>2. Finds(results') = {}
    BY <2>1 DEF Finds, Of
  <2>3. QED
    BY <2>1, <2>2 DEF CatalogInv, LastFound
<1>7. ShortcutInv'
  <2>1. results' = <<>> /\ catalog' = <<>> /\ ~turn'.shortcut
    BY <1>0 DEF EarlyInv, reply
  <2>2. node' \in Agent => node' = "planner"
    BY DEF Agent, Early
  <2>3. QED
    BY <2>1, <2>2 DEF ShortcutInv
<1>8. QED
  BY <1>0, <1>1, <1>2, <1>3, <1>4, <1>5, <1>6, <1>7 DEF Inv

LEMMA InvDrafts == ASSUME Inv, Drafts PROVE Inv'
<1> USE DEF Drafts
<1>0. /\ TypeInv /\ EarlyInv /\ LanguageInv /\ CrossInv /\ BoardInv /\ ResultsInv /\ ShortcutInv /\ PinInv /\ TypeInv'
      /\ Alike(turn, turn') /\ TurnOK' /\ Steady
  BY TypeDrafts DEF Inv, Same
<1>1. EarlyInv'
  BY <1>0 DEF EarlyInv, Early, thoughts
<1>2. LanguageInv' /\ CrossInv' /\ PinInv'
  <2>1. left = {} /\ left' = left
    BY <1>0 DEF LanguageInv
  <2>2. QED
    BY <1>0, <2>1, MemoryStays DEF memory, Fresh
<1>3. BoardInv'
  BY <1>0, BoardStays
<1>4. ResultsInv'
  BY <1>0, AlikeIsGrown, ResultsStay DEF thoughts
<1>5. PhraseInv' /\ CatalogInv'
  BY DEF PhraseInv, CatalogInv, Agent
<1>6. DraftInv'
  BY DEF DraftInv
<1>7. ShortcutInv'
  BY <1>0 DEF ShortcutInv, Agent, Same, thoughts, ForPin, Alike
<1>8. QED
  BY <1>0, <1>1, <1>2, <1>3, <1>4, <1>5, <1>6, <1>7 DEF Inv

LEMMA InvPlans == ASSUME Inv, Plans PROVE Inv'
<1> USE DEF Plans
<1>0. /\ TypeInv /\ EarlyInv /\ LanguageInv /\ CrossInv /\ BoardInv /\ ResultsInv /\ ShortcutInv /\ PinInv /\ TypeInv'
      /\ CatalogInv
  BY TypePlans DEF Inv
<1>1. EarlyInv'
  BY <1>0 DEF EarlyInv, Early
<1>2. LanguageInv' /\ CrossInv' /\ PinInv'
  <2>1. left = {} /\ left' = left
    BY <1>0 DEF LanguageInv, reply
  <2>2. QED
    BY <1>0, <2>1, MemoryStays DEF memory, Fresh
<1>3. BoardInv'
  BY <1>0, BoardStays
<1>4. ResultsInv'
  BY <1>0, AlikeIsGrown, ResultsStay
<1>5. PhraseInv' /\ DraftInv'
  BY DEF PhraseInv, DraftInv, Answered
<1>6. CatalogInv'
  BY <1>0 DEF CatalogInv, Agent, reply
<1>7. ShortcutInv'
  <2>1. OnPinned => turn.pin.job # NoJob /\ catalog = <<>> /\ \A n \in 1..Len(results) : ForPin(results[n].call)
    BY <1>0 DEF ShortcutInv, Agent, OnPinned
  <2>2. OnPinned' = OnPinned /\ turn'.pin = turn.pin
    BY DEF OnPinned, Followup, Alike
  <2>3. QED
    BY <2>1, <2>2 DEF ShortcutInv, ForPin, reply
<1>8. QED
  BY <1>0, <1>1, <1>2, <1>3, <1>4, <1>5, <1>6, <1>7 DEF Inv

LEMMA InvSeeks == ASSUME Inv, Seeks PROVE Inv'
<1> USE DEF Seeks
<1>0. /\ TypeInv /\ EarlyInv /\ LanguageInv /\ CrossInv /\ BoardInv /\ ResultsInv /\ ShortcutInv /\ PinInv /\ TypeInv'
      /\ CatalogInv /\ Alike(turn, turn') /\ TurnOK' /\ Steady
  BY TypeSeeks DEF Inv, TypeInv, Alike, Steady
<1>1. EarlyInv'
  BY <1>0 DEF EarlyInv, Early
<1>2. LanguageInv' /\ CrossInv' /\ PinInv'
  <2>1. left = {} /\ left' = left
    BY <1>0 DEF LanguageInv, reply
  <2>2. QED
    BY <1>0, <2>1, MemoryStays DEF memory, Fresh
<1>3. BoardInv'
  BY <1>0, BoardStays
<1>4. ResultsInv'
  BY <1>0, AlikeIsGrown, ResultsStay
<1>5. DraftInv'
  BY DEF DraftInv, Answered
<1>6. CatalogInv'
  BY <1>0 DEF CatalogInv, Agent, reply
<1>7. ShortcutInv'
  BY <1>0 DEF ShortcutInv, Agent, OnPinned, Followup, ForPin, memory, reply
<1>8. QED
  BY <1>0, <1>1, <1>2, <1>3, <1>4, <1>5, <1>6, <1>7 DEF Inv

LEMMA InvConsiders == ASSUME Inv, Considers PROVE Inv'
<1> USE DEF Considers
<1>0. /\ TypeInv /\ EarlyInv /\ LanguageInv /\ CrossInv /\ BoardInv /\ ResultsInv /\ ShortcutInv /\ PinInv /\ TypeInv'
      /\ CatalogInv /\ Alike(turn, turn') /\ TurnOK' /\ Steady
  BY TypeConsiders DEF Inv, TypeInv, Alike, Steady
<1>1. EarlyInv'
  BY <1>0 DEF EarlyInv, Early
<1>2. LanguageInv' /\ CrossInv' /\ PinInv'
  <2>1. left = {} /\ left' = left
    BY <1>0 DEF LanguageInv, reply
  <2>2. QED
    BY <1>0, <2>1, MemoryStays DEF memory, Fresh
<1>3. BoardInv'
  BY <1>0, BoardStays
<1>4. ResultsInv'
  BY <1>0, AlikeIsGrown, ResultsStay DEF thoughts
<1>5. PhraseInv' /\ DraftInv'
  BY DEF PhraseInv, DraftInv, Answered
<1>6. CatalogInv'
  BY <1>0 DEF CatalogInv, Agent, reply, thoughts
<1>7. ShortcutInv'
  BY <1>0 DEF ShortcutInv, Agent, OnPinned, Followup, ForPin, memory, reply, thoughts
<1>8. QED
  BY <1>0, <1>1, <1>2, <1>3, <1>4, <1>5, <1>6, <1>7 DEF Inv

(* One more search that found something, or none. *)
LEMMA FindsAppend ==
  ASSUME NEW s \in Seq(ResultType), NEW r \in ResultType, r.call.tool # "search_jobs" => r.rows = <<>>,
         NEW rows, LastFound(rows, s)
  PROVE  LastFound(IF r.rows # <<>> THEN r.rows ELSE rows, Append(s, r))
<1> DEFINE k == Len(s) + 1
           t == Append(s, r)
<1>1. /\ Of(s, "search_jobs") \in SUBSET (1..Len(s)) /\ Len(s) \in Nat
      /\ Of(t, "search_jobs") = IF r.call.tool = "search_jobs" THEN Of(s, "search_jobs") \cup {k}
                                ELSE Of(s, "search_jobs")
      /\ \A n \in 1..Len(s) : t[n] = s[n]
      /\ t[k] = r
  BY OfAppend
<1> HIDE DEF t
<1>2. Finds(s) \in SUBSET (1..Len(s)) /\ k \notin 1..Len(s) /\ \A n \in 1..Len(s) : ~(k <= n)
  BY <1>1 DEF Finds
<1>3. Finds(t) = IF r.rows # <<>> THEN Finds(s) \cup {k} ELSE Finds(s)
  BY <1>1, <1>2 DEF Finds
<1>4. CASE r.rows = <<>>
  BY <1>1, <1>2, <1>3, <1>4 DEF LastFound, t
<1>5. CASE r.rows # <<>>
  <2>1. \A n \in Finds(t) : (\A m \in Finds(t) : m <= n) => n = k
    BY <1>2, <1>3, <1>5
  <2>2. LastFound(r.rows, t)
    BY <1>1, <1>3, <1>5, <2>1 DEF LastFound
  <2>3. QED
    BY <1>5, <2>2 DEF t
<1>6. QED
  BY <1>4, <1>5

LEMMA InvExecutes == ASSUME Inv, Executes PROVE Inv'
<1>1. PICK result \in ResultType :
        /\ node \in {"execute", "search_rows"} /\ node' \in {"execute", "responder", "reflect"}
        /\ node' = "execute" => Tail(plan) # <<>>
        /\ Same /\ result.call = Call /\ Sound(turn, result)
        /\ results' = Append(results, result)
        /\ catalog' = IF result.rows # <<>> THEN result.rows ELSE catalog
        /\ plan' = Tail(plan) /\ fact' = NoFact
        /\ UNCHANGED <<world, memory, history, draft, left, steps, loops>>
  BY DEF Executes
<1>0. /\ TypeInv /\ EarlyInv /\ LanguageInv /\ CrossInv /\ BoardInv /\ ResultsInv /\ ShortcutInv /\ PinInv /\ TypeInv'
      /\ CatalogInv /\ Alike(turn, turn') /\ Steady /\ TurnOK' /\ turn'.shortcut = turn.shortcut
      /\ turn'.english = turn.english
  BY <1>1, TypeExecutes DEF Inv, Same
<1>2. EarlyInv'
  BY <1>0, <1>1, NoFactIs DEF EarlyInv, Early
<1>3. LanguageInv' /\ CrossInv' /\ PinInv'
  <2>1. left = {} /\ left' = left
    BY <1>0, <1>1 DEF LanguageInv
  <2>2. QED
    BY <1>0, <1>1, <2>1, MemoryStays DEF memory, Fresh
<1>4. BoardInv'
  BY <1>0, <1>1, BoardStays
<1>5. results \in Seq(ResultType) /\ plan \in Seq(Steps) /\ plan # <<>>
  BY <1>0, <1>1 DEF TypeInv, ThoughtOK, PlanOK, StepsOK
<1>6. /\ Len(results') = Len(results) + 1 /\ Len(results) \in Nat
      /\ \A n \in 1..Len(results) : results'[n] = results[n]
      /\ results'[Len(results) + 1] = result
  BY <1>1, <1>5, AppendProperties, LenProperties
<1>7. ResultsInv'
  <2>1. turn \in TurnType /\ turn' \in TurnType /\ Grown(turn, turn')
    BY <1>0, AlikeIsGrown DEF TypeInv, TurnOK
  <2>2. \A n \in 1..Len(results) : results[n] \in ResultType
    BY <1>5, ElementOfSeq
  <2>3. \A n \in 1..Len(results) : Sound(turn', results'[n])
    BY <1>0, <1>6, <2>1, <2>2, Grows DEF ResultsInv
  <2>4. Sound(turn', result)
    BY <1>1, <2>1, Grows
  <2>5. \A n \in 1..Len(results') : n \in 1..Len(results) \/ n = Len(results) + 1
    BY <1>6
  <2>6. \A n \in 1..Len(results') : Sound(turn', results'[n])
    BY <1>6, <2>3, <2>4, <2>5
  <2>7. QED
    BY <2>6 DEF ResultsInv
<1>8. PhraseInv' /\ DraftInv'
  BY <1>1 DEF PhraseInv, DraftInv, Answered
<1>9. CatalogInv'
  <2>1. LastFound(catalog, results)
    BY <1>0, <1>1 DEF CatalogInv, Agent
  <2>2. result.call.tool # "search_jobs" => result.rows = <<>>
    BY <1>1 DEF Sound
  <2>3. LastFound(catalog', results')
    BY <1>1, <1>5, <2>1, <2>2, FindsAppend
  <2>4. QED
    BY <2>3 DEF CatalogInv
<1>10. ShortcutInv'
  <2>1. OnPinned' = OnPinned /\ turn'.pin = turn.pin
    BY <1>0, <1>1 DEF OnPinned, Followup, Alike
  <2>2. OnPinned => turn.shortcut
    BY <1>0, <1>1 DEF ShortcutInv, Agent
  <2>3. ASSUME turn.shortcut
        PROVE  /\ turn.pin.job # NoJob /\ catalog' = <<>> /\ OnPinned
               /\ \A n \in 1..Len(plan') : ForPin(plan'[n])
               /\ \A n \in 1..Len(results') : ForPin(results'[n].call)
    <3>1. /\ turn.pin.job # NoJob /\ catalog = <<>> /\ OnPinned
          /\ \A n \in 1..Len(plan) : ForPin(plan[n])
          /\ \A n \in 1..Len(results) : ForPin(results[n].call)
      BY <1>0, <1>1, <2>3 DEF ShortcutInv, Agent
    <3>2. /\ Len(Tail(plan)) = Len(plan) - 1 /\ Len(plan) \in Nat \ {0} /\ Head(plan) = plan[1]
          /\ \A n \in 1..Len(Tail(plan)) : Tail(plan)[n] = plan[n + 1]
      BY <1>5, HeadTailProperties, EmptySeq, LenProperties
    <3>3. ForPin(result.call)
      BY <1>1, <3>1, <3>2 DEF Call
    <3>4. result.rows = <<>>
      BY <1>1, <3>3 DEF Sound, ForPin
    <3>5. \A n \in 1..Len(plan') : ForPin(plan'[n])
      BY <1>1, <3>1, <3>2
    <3>6. \A n \in 1..Len(results') : ForPin(results'[n].call)
      BY <1>6, <3>1, <3>3
    <3>7. QED
      BY <1>1, <3>1, <3>4, <3>5, <3>6
  <2>4. QED
    BY <1>0, <2>1, <2>2, <2>3 DEF ShortcutInv, ForPin
<1>11. QED
  BY <1>0, <1>2, <1>3, <1>4, <1>7, <1>8, <1>9, <1>10 DEF Inv

LEMMA InvLoad == ASSUME Inv, LoadContext PROVE Inv'
<1>0. /\ TypeInv /\ EarlyInv /\ LanguageInv /\ CrossInv /\ BoardInv /\ ResultsInv /\ PinInv /\ TypeInv'
  BY TypeLoad DEF Inv
<1>1. /\ node = "load" /\ node' = "menu"
      /\ turn' = [turn EXCEPT !.found = stored, !.pin = pin, !.lang = Language(Says(turn.msg), stored)]
      /\ UNCHANGED <<world, memory, thoughts, reply, history, count>>
  BY DEF LoadContext, Goto
<1>2. turn \in TurnType /\ TurnOK'
  BY <1>0 DEF TypeInv, TurnOK
<1>3. /\ Grown(turn, turn') /\ turn'.msg = turn.msg /\ turn'.spoke = turn.spoke /\ turn'.alone = turn.alone
      /\ turn'.shortcut = turn.shortcut /\ turn'.found = stored /\ turn'.pin = pin
      /\ turn'.lang = Language(Says(turn.msg), stored)
      /\ turn'.live = turn.live /\ turn'.always = turn.always
  BY <1>1, <1>2 DEF Grown, TurnType
<1>4. results = <<>> /\ catalog = <<>> /\ loops = 0 /\ ~turn.shortcut /\ fact.category = Unasked
      /\ left = {}
  BY <1>0, <1>1 DEF EarlyInv, Early, LanguageInv
<1>5. EarlyInv'
  BY <1>1, <1>3, <1>4 DEF EarlyInv, Early, thoughts, reply
<1>6. LanguageInv'
  BY <1>0, <1>1, <1>4 DEF LanguageInv, reply, history
<1>7. CrossInv'
  <2>1. InFlight /\ InFlight' /\ node \in Fresh /\ node' \notin Fresh
    BY <1>1 DEF InFlight, Fresh
  <2>2. \A r \in Rivals : Crossing(r)' <=> Crossing(r)
    BY <1>1 DEF Crossing, memory
  <2>3. stored' = stored /\ speaks' = speaks /\ others' = others
    BY <1>1 DEF memory, history
  <2>4. ~speaks'.kept
    BY <1>0, <2>1, <2>3 DEF CrossInv, Quiet
  <2>5. TurnCrossOK'
    BY <1>0, <1>3, <2>1, <2>2, <2>3 DEF CrossInv, TurnCrossOK, NoneCrosses, Expected
  <2>6. ASSUME NEW r \in Rivals PROVE RivalOK(r)'
    BY <1>0, <2>1, <2>2, <2>3 DEF CrossInv, RivalOK
  <2>7. QED
    BY <2>4, <2>5, <2>6 DEF CrossInv
<1>8. BoardInv'
  BY <1>0, <1>1, <1>3 DEF BoardInv, Grown, world
<1>9. ResultsInv'
  BY <1>0, <1>1, <1>2, <1>3, ResultsStay DEF thoughts
<1>10. PhraseInv' /\ CatalogInv' /\ DraftInv'
  BY <1>1 DEF PhraseInv, CatalogInv, DraftInv, Answered, Agent
<1>11. ShortcutInv'
  BY <1>1, <1>3, <1>4 DEF ShortcutInv, Agent
<1>12. PinInv'
  <2>1. pin' = pin /\ shown' = shown /\ owed' = owed
    BY <1>1 DEF memory, history
  <2>2. QED
    BY <1>0, <1>3, <2>1 DEF PinInv, PinOK
<1>13. QED
  BY <1>0, <1>5, <1>6, <1>7, <1>8, <1>9, <1>10, <1>11, <1>12 DEF Inv

LEMMA InvPersist == ASSUME Inv, Persist PROVE Inv'
<1>0. /\ TypeInv /\ EarlyInv /\ LanguageInv /\ CrossInv /\ BoardInv /\ ResultsInv /\ ShortcutInv /\ PinInv /\ TypeInv'
      /\ DraftInv
  BY TypePersist DEF Inv
<1>1. /\ node = "persist" /\ node' = IF turn.lang = "en" THEN "remember" ELSE "localize"
      /\ pin' = IF Pinning THEN Pinned ELSE pin
      /\ owed' = owed \cup Own
      /\ UNCHANGED <<world, stored, cache, others, turn, thoughts, reply, pushed, shown, speaks, count>>
  BY DEF Persist, Goto
<1>2. Alike(turn, turn') /\ Steady
  BY <1>1 DEF Alike, Steady
<1>3. DraftOK' /\ Foremost'
  BY <1>0, <1>1, <1>2, DraftStays DEF Answered, reply
<1>4. EarlyInv'
  BY <1>1 DEF EarlyInv, Early
<1>5. LanguageInv' /\ CrossInv'
  <2>1. LanguageInv'
    BY <1>0, <1>1 DEF LanguageInv, reply, Texts
  <2>2. CrossInv'
    BY <1>0, <1>1, <1>2, CrossStays DEF Fresh
  <2>3. QED
    BY <2>1, <2>2
<1>6. BoardInv'
  BY <1>0, <1>1, <1>2, BoardStays
<1>7. ResultsInv'
  BY <1>0, <1>1, <1>2, AlikeIsGrown, ResultsStay DEF TypeInv, thoughts
<1>8. PhraseInv' /\ CatalogInv'
  BY <1>1 DEF PhraseInv, CatalogInv, Agent
<1>9. ShortcutInv'
  BY <1>0, <1>1 DEF ShortcutInv, Agent, ForPin, reply, thoughts
<1>10. PinInv'
  <2>1. Pinning => Pinned.loose \/ Pinned.job \in Own
    BY DEF Own
  <2>2. PinOK(turn.pin)'
    BY <1>0, <1>1 DEF PinInv, PinOK
  <2>3. CASE pin' = pin
    BY <1>0, <1>1, <2>2, <2>3 DEF PinInv, PinOK
  <2>4. CASE Pinning /\ pin' = Pinned
    BY <1>1, <2>1, <2>2, <2>4 DEF PinInv, PinOK
  <2>5. QED
    BY <1>1, <2>3, <2>4
<1>11. DraftInv'
  BY <1>3 DEF DraftInv
<1>12. QED
  BY <1>0, <1>4, <1>5, <1>6, <1>7, <1>8, <1>9, <1>10, <1>11 DEF Inv

LEMMA InvLocalize == ASSUME Inv, Localize PROVE Inv'
<1>0. /\ TypeInv /\ EarlyInv /\ LanguageInv /\ CrossInv /\ BoardInv /\ ResultsInv /\ ShortcutInv /\ PinInv /\ TypeInv'
      /\ DraftInv /\ Alike(turn, turn') /\ Steady /\ TurnOK' /\ turn'.shortcut = turn.shortcut
  BY TypeLocalize DEF Inv, Same
<1>1. /\ node = "localize" /\ node' = "remember"
      /\ UNCHANGED <<world, pin, stored, others, thoughts, catalog, draft, history>>
  BY DEF Localize, Goto
<1>2. PICK done \in SUBSET Todo(cache, Texts, turn.lang) :
        /\ left' = LeftInEnglish(cache, Texts, turn.lang, done)
        /\ IF done = Todo(cache, Texts, turn.lang) THEN NoFault ELSE Fault("translate")
  BY DEF Localize
<1>3. left' \subseteq Texts
  BY <1>2 DEF LeftInEnglish
<1>4. ASSUME left' # {} PROVE "translate" \in turn'.failed
  <2>1. PICK x \in left' : TRUE
    BY <1>4
  <2>2. x \in Texts \ Glossary /\ (InCache(cache, x, turn.lang) => cache[<<x, turn.lang>>] = "original")
        /\ (~InCache(cache, x, turn.lang) => x \notin done)
    BY <1>2 DEF LeftInEnglish
  <2>3. cache \in [Fixed \X Languages -> {"nothing", "translation"}] /\ turn.lang \in Languages
    BY <1>0 DEF TypeInv, MemoryOK, TurnOK, TurnType
  <2>4. ~InCache(cache, x, turn.lang)
    BY <2>2, <2>3 DEF InCache
  <2>5. x \in Todo(cache, Texts, turn.lang)
    BY <2>2, <2>4 DEF Todo
  <2>6. Fault("translate")
    BY <1>2, <2>2, <2>4, <2>5
  <2>7. turn' = [turn EXCEPT !.failed = @ \cup {"translate"}] /\ turn \in TurnType
    BY <1>0, <2>6 DEF Fault, Mishap, TypeInv, TurnOK
  <2>8. QED
    BY <2>7 DEF TurnType
<1>5. EarlyInv'
  BY <1>1 DEF EarlyInv, Early
<1>6. LanguageInv' /\ CrossInv'
  <2>1. LanguageInv'
    BY <1>0, <1>1, <1>3, <1>4 DEF LanguageInv, history, Texts, Alike
  <2>2. CrossInv'
    BY <1>0, <1>1, CrossStays DEF Fresh, history
  <2>3. QED
    BY <2>1, <2>2
<1>7. BoardInv'
  BY <1>0, <1>1, BoardStays
<1>8. ResultsInv'
  BY <1>0, <1>1, AlikeIsGrown, ResultsStay DEF thoughts
<1>9. PhraseInv' /\ CatalogInv'
  BY <1>1 DEF PhraseInv, CatalogInv, Agent
<1>10. ShortcutInv'
  BY <1>0, <1>1 DEF ShortcutInv, Agent, ForPin, Alike, thoughts
<1>11. PinInv'
  BY <1>0, <1>1 DEF PinInv, PinOK, Alike, history
<1>12. DraftInv'
  <2>1. DraftOK' /\ Foremost'
    BY <1>0, <1>1, DraftStays DEF Answered
  <2>2. QED
    BY <1>1, <2>1 DEF DraftInv
<1>13. QED
  BY <1>0, <1>5, <1>6, <1>7, <1>8, <1>9, <1>10, <1>11, <1>12 DEF Inv

LEMMA InvRemember == ASSUME Inv, Remember PROVE Inv'
<1>0. /\ TypeInv /\ EarlyInv /\ LanguageInv /\ CrossInv /\ BoardInv /\ ResultsInv /\ ShortcutInv /\ PinInv
      /\ TypeInv' /\ DraftInv /\ Alike(turn, turn') /\ Steady /\ TurnOK' /\ turn'.shortcut = turn.shortcut
  BY TypeRemember DEF Inv, Same
<1>1. /\ node = "remember" /\ node' = "deliver"
      /\ \/ /\ stored' = IF turn.lang # turn.found THEN turn.lang ELSE stored
            /\ speaks' = [speaks EXCEPT !.kept = Kept(Says(turn.msg), turn.spoke, turn.alone)]
         \/ UNCHANGED <<stored, speaks>>
      /\ UNCHANGED <<world, pin, cache, others, thoughts, reply, pushed, shown, owed>>
  BY DEF Remember, Goto
<1>2. EarlyInv'
  BY <1>1 DEF EarlyInv, Early
<1>3. LanguageInv'
  BY <1>0, <1>1 DEF LanguageInv, reply, Texts, Alike
<1>4. CrossInv'
  <2>1. InFlight /\ ~InFlight' /\ node \notin Fresh \cup {"idle"} /\ node' \notin Fresh
    BY <1>1 DEF InFlight, Fresh
  <2>2. (\A r \in Rivals : Crossing(r)' <=> Crossing(r)) /\ others' = others
    BY <1>1 DEF Crossing
  <2>3. ~speaks.kept
    BY <1>0, <2>1 DEF CrossInv, Quiet
  <2>4. TurnCrossOK'
    BY <1>0, <2>1 DEF CrossInv, TurnCrossOK, Alike, Steady
  <2>5. \A r \in Rivals : Crossing(r) => ~others[r].alone
    BY <1>0, <2>1 DEF CrossInv, RivalOK
  <2>6. \A r \in Rivals : RivalOK(r)'
    BY <2>2, <2>5 DEF RivalOK
  <2>7. CASE UNCHANGED <<stored, speaks>>
    BY <2>3, <2>4, <2>6, <2>7 DEF CrossInv
  <2>8. CASE /\ stored' = IF turn.lang # turn.found THEN turn.lang ELSE stored
             /\ speaks' = [speaks EXCEPT !.kept = Kept(Says(turn.msg), turn.spoke, turn.alone)]
    <3>1. speaks \in SpokeType
      BY <1>0 DEF TypeInv, HistoryOK
    <3>2. speaks'.lang = speaks.lang /\ speaks'.kept = Kept(Says(turn.msg), turn.spoke, turn.alone)
      BY <2>8, <3>1 DEF SpokeType
    <3>3. ASSUME speaks'.kept PROVE Quiet' /\ stored' = speaks'.lang
      <4>1. turn.alone /\ (Says(turn.msg) # Unsaid \/ turn.spoke.kept)
        BY <3>2, <3>3 DEF Kept
      <4>2. NoneCrosses /\ speaks.lang = Language(Says(turn.msg), turn.spoke.lang) /\ stored = turn.found
        BY <1>0, <2>1, <4>1 DEF CrossInv, TurnCrossOK, Expected
      <4>3. /\ turn.lang = Language(Says(turn.msg), turn.found)
            /\ turn.spoke.kept => turn.found = turn.spoke.lang
        BY <1>0, <2>1 DEF CrossInv, TurnCrossOK
      <4>4. speaks.lang = turn.lang
        BY <4>1, <4>2, <4>3 DEF Language
      <4>5. Quiet'
        BY <2>1, <2>2, <4>2 DEF Quiet, NoneCrosses
      <4>6. QED
        BY <2>8, <3>2, <4>2, <4>4, <4>5
    <3>4. QED
      BY <2>4, <2>6, <3>3 DEF CrossInv
  <2>9. QED
    BY <1>1, <2>7, <2>8
<1>5. BoardInv'
  BY <1>0, <1>1, BoardStays
<1>6. ResultsInv'
  BY <1>0, <1>1, AlikeIsGrown, ResultsStay DEF thoughts
<1>7. PhraseInv' /\ CatalogInv'
  BY <1>1 DEF PhraseInv, CatalogInv, Agent
<1>8. ShortcutInv'
  BY <1>0, <1>1 DEF ShortcutInv, Agent, ForPin, Alike, thoughts, reply
<1>9. PinInv'
  BY <1>0, <1>1 DEF PinInv, PinOK, Alike
<1>10. DraftInv'
  <2>1. DraftOK' /\ Foremost'
    BY <1>0, <1>1, DraftStays DEF Answered, reply
  <2>2. QED
    BY <1>1, <2>1 DEF DraftInv
<1>11. QED
  BY <1>0, <1>2, <1>3, <1>4, <1>5, <1>6, <1>7, <1>8, <1>9, <1>10 DEF Inv

LEMMA InvResets == ASSUME Inv, Resets PROVE Inv'
<1>0. /\ TypeInv /\ LanguageInv /\ CrossInv /\ BoardInv /\ TypeInv'
  BY TypeResets DEF Inv
<1>1. /\ node' = "idle" /\ PinOK(pin)'
      /\ turn' = NoTurn /\ plan' = <<>> /\ loops' = 0 /\ fact' = NoFact /\ results' = <<>>
      /\ catalog' = <<>> /\ left' = {}
      /\ UNCHANGED <<world, memory, pushed, speaks>>
  BY DEF Resets, Reset
<1>2. EarlyInv'
  BY <1>1, NoFactIs DEF EarlyInv, NoTurn
<1>3. LanguageInv'
  BY <1>0, <1>1 DEF LanguageInv
<1>4. CrossInv'
  <2>1. ~InFlight' /\ node' \notin Fresh
    BY <1>1 DEF InFlight, Fresh
  <2>2. \A r \in Rivals : Crossing(r)' <=> Crossing(r)
    BY <1>1 DEF Crossing, memory
  <2>3. stored' = stored /\ speaks' = speaks /\ others' = others
    BY <1>1 DEF memory
  <2>4. TurnCrossOK'
    BY <1>1, <2>1 DEF TurnCrossOK
  <2>5. ASSUME NEW r \in Rivals PROVE RivalOK(r)'
    BY <1>0, <2>1, <2>2, <2>3 DEF CrossInv, RivalOK
  <2>6. speaks'.kept => Quiet' /\ stored' = speaks'.lang
    BY <1>0, <2>1, <2>2, <2>3 DEF CrossInv, Quiet
  <2>7. QED
    BY <2>4, <2>5, <2>6 DEF CrossInv
<1>5. BoardInv'
  BY <1>1 DEF BoardInv, NoTurn
<1>6. ResultsInv'
  BY <1>1 DEF ResultsInv
<1>7. PhraseInv' /\ CatalogInv' /\ DraftInv'
  BY <1>1 DEF PhraseInv, CatalogInv, DraftInv, Answered, Agent
<1>8. ShortcutInv'
  BY <1>1 DEF ShortcutInv, NoTurn, Agent
<1>9. PinInv'
  BY <1>1 DEF PinInv, PinOK, NoTurn, NoPin
<1>10. QED
  BY <1>0, <1>2, <1>3, <1>4, <1>5, <1>6, <1>7, <1>8, <1>9 DEF Inv

LEMMA InvBegin == ASSUME Inv, NEW m \in Messages, Begin(m) PROVE Inv'
<1>0. /\ TypeInv /\ EarlyInv /\ LanguageInv /\ CrossInv /\ BoardInv /\ PinInv /\ TypeInv' /\ ShortcutInv
  BY TypeBegin DEF Inv
<1>1. /\ node = "idle" /\ node' \in Fresh /\ Arrival(Says(m))
      /\ turn' = NewTurn(m) /\ others' = Crossed
      /\ UNCHANGED <<world, pin, stored, cache, thoughts, reply, shown, owed>>
  BY DEF Begin, Fresh
<1>2. results = <<>> /\ catalog = <<>> /\ loops = 0 /\ fact.category = Unasked /\ left = {}
  BY <1>0, <1>1 DEF EarlyInv, Early, LanguageInv
<1>3. /\ turn'.shortcut = FALSE /\ turn'.msg = m /\ turn'.spoke = speaks /\ turn'.alone = Quiet
      /\ turn'.pin = NoPin
      /\ turn'.always = Open(board) /\ turn'.live = Open(board)
      /\ turn'.pays = {board[j].pay : j \in Open(board)} /\ turn'.counts = CountsOf(board)
      /\ turn'.hadApplied => \E a \in applied : Applicant[a] = Seeker
  BY <1>1, OpenIsLive DEF NewTurn
<1>4. EarlyInv'
  BY <1>1, <1>2, <1>3 DEF EarlyInv, Early, Fresh, thoughts, reply
<1>5. /\ speaks' = [lang |-> Language(Says(m), speaks.lang), kept |-> FALSE]
      /\ pushed'.excused
  BY <1>0, <1>1, SaysIs, ArrivalIs
<1>6. LanguageInv'
  BY <1>1, <1>2, <1>5 DEF LanguageInv, Fresh, reply
<1>7. CrossInv'
  <2>1. \A r \in Rivals : (Crossing(r)' <=> Crossing(r)) /\ ~others'[r].alone
    BY <1>0, <1>1, CrossedIs DEF TypeInv, Crossing
  <2>2. \A r \in Rivals : RivalOK(r)'
    BY <2>1 DEF RivalOK
  <2>3. TurnCrossOK'
    <3>1. speaks'.lang = Expected'
      BY <1>3, <1>5 DEF Expected
    <3>2. Quiet => NoneCrosses'
      BY <2>1 DEF Quiet, NoneCrosses
    <3>3. speaks.kept => Quiet /\ stored' = speaks.lang
      BY <1>0, <1>1 DEF CrossInv
    <3>4. QED
      BY <1>1, <1>3, <3>1, <3>2, <3>3 DEF TurnCrossOK
  <2>4. QED
    BY <1>5, <2>2, <2>3 DEF CrossInv
<1>8. BoardInv'
  <2>1. board' = board /\ applied' = applied
    BY <1>1 DEF world
  <2>2. QED
    BY <1>3, <2>1 DEF BoardInv
<1>9. ResultsInv'
  BY <1>1, <1>2 DEF ResultsInv, thoughts
<1>10. PhraseInv' /\ CatalogInv' /\ DraftInv'
  BY <1>1 DEF PhraseInv, CatalogInv, DraftInv, Answered, Agent, Fresh
<1>11. ShortcutInv'
  BY <1>1, <1>3 DEF ShortcutInv, Agent, Fresh
<1>12. PinInv'
  BY <1>0, <1>1, <1>3 DEF PinInv, PinOK, NoPin
<1>13. QED
  BY <1>0, <1>4, <1>6, <1>7, <1>8, <1>9, <1>10, <1>11, <1>12 DEF Inv

LEMMA InvEdit ==
  ASSUME Inv, NEW j \in Jobs, NEW row \in [status: Statuses, pay: Pays \cup {None}], Edit(j, row)
  PROVE  Inv'
<1>0. /\ TypeInv /\ EarlyInv /\ LanguageInv /\ CrossInv /\ BoardInv /\ ResultsInv /\ PhraseInv /\ CatalogInv
      /\ ShortcutInv /\ PinInv /\ TypeInv'
  BY TypeEdit DEF Inv
<1>1. /\ ~Answered
      /\ turn' = IF node = "idle" THEN turn
                 ELSE [turn EXCEPT !.live = @ \cup Open(board'), !.always = @ \cap Open(board'),
                                   !.pays = @ \cup {board'[i].pay : i \in Open(board')},
                                   !.counts = @ \cup CountsOf(board')]
      /\ UNCHANGED <<applied, memory, node, thoughts, reply, history>>
  BY <1>0, EditIs DEF Edit
<1>2. turn \in TurnType /\ TurnOK'
  BY <1>0 DEF TypeInv, TurnOK
<1>3. /\ Grown(turn, turn') /\ turn'.msg = turn.msg /\ turn'.lang = turn.lang /\ turn'.spoke = turn.spoke
      /\ turn'.shortcut = turn.shortcut /\ turn'.english = turn.english /\ turn'.failed = turn.failed
      /\ turn'.found = turn.found /\ turn'.pin = turn.pin /\ turn'.alone = turn.alone
  BY <1>1, <1>2 DEF Grown, TurnType
<1>4. node # "idle" => /\ turn'.always \subseteq Open(board') /\ Open(board') \subseteq turn'.live
                       /\ turn'.pays = turn.pays \cup {board'[i].pay : i \in Open(board')}
                       /\ CountsOf(board') \subseteq turn'.counts
  BY <1>1, <1>2 DEF TurnType
<1>5. EarlyInv'
  BY <1>0, <1>1, <1>3 DEF EarlyInv, thoughts, reply
<1>6. LanguageInv' /\ CrossInv'
  <2>1. LanguageInv'
    BY <1>0, <1>1, <1>3 DEF LanguageInv, Texts, reply, history
  <2>2. stored' = stored /\ speaks' = speaks /\ others' = others /\ node' = node
    BY <1>1 DEF memory, history
  <2>3. TurnCrossOK'
    BY <1>0, <1>3, <2>2 DEF CrossInv, TurnCrossOK, NoneCrosses, Crossing, InFlight, Expected
  <2>4. ASSUME NEW r \in Rivals PROVE RivalOK(r)'
    BY <1>0, <2>2 DEF CrossInv, RivalOK, Crossing, InFlight
  <2>5. speaks'.kept => Quiet' /\ stored' = speaks'.lang
    BY <1>0, <2>2 DEF CrossInv, Quiet, Crossing, InFlight
  <2>6. QED
    BY <2>1, <2>3, <2>4, <2>5 DEF CrossInv
<1>7. BoardInv'
  BY <1>0, <1>1, <1>3, <1>4 DEF BoardInv, Grown
<1>8. ResultsInv'
  BY <1>0, <1>1, <1>2, <1>3, ResultsStay DEF thoughts
<1>9. PhraseInv'
  BY <1>0, <1>1, <1>3 DEF PhraseInv, Call, Grown, thoughts
<1>10. CatalogInv'
  BY <1>0, <1>1 DEF CatalogInv, thoughts, reply
<1>11. ShortcutInv'
  BY <1>0, <1>1, <1>3 DEF ShortcutInv, OnPinned, Followup, ForPin, thoughts, reply
<1>12. PinInv'
  BY <1>0, <1>1, <1>3 DEF PinInv, PinOK, memory, history
<1>13. DraftInv'
  BY <1>1 DEF DraftInv, Answered
<1>14. QED
  BY <1>0, <1>5, <1>6, <1>7, <1>8, <1>9, <1>10, <1>11, <1>12, <1>13 DEF Inv

LEMMA InvApply == ASSUME Inv, NEW a \in Applications, ApplyElsewhere(a) PROVE Inv'
<1>0. /\ TypeInv /\ EarlyInv /\ LanguageInv /\ CrossInv /\ BoardInv /\ ResultsInv /\ PhraseInv /\ CatalogInv
      /\ ShortcutInv /\ PinInv /\ TypeInv'
  BY TypeApply DEF Inv
<1>1. /\ ~Answered /\ applied' = applied \cup {a}
      /\ UNCHANGED <<board, memory, node, turn, thoughts, reply, history>>
  BY DEF ApplyElsewhere
<1>2. EarlyInv'
  BY <1>0, <1>1 DEF EarlyInv, thoughts, reply
<1>3. LanguageInv' /\ CrossInv'
  <2>1. LanguageInv'
    BY <1>0, <1>1 DEF LanguageInv, Texts, reply, history
  <2>2. stored' = stored /\ speaks' = speaks /\ others' = others /\ node' = node /\ turn' = turn
    BY <1>1 DEF memory, history
  <2>3. TurnCrossOK' /\ \A r \in Rivals : RivalOK(r)'
    BY <1>0, <2>2 DEF CrossInv, TurnCrossOK, RivalOK, NoneCrosses, Crossing, InFlight, Expected
  <2>4. speaks'.kept => Quiet' /\ stored' = speaks'.lang
    BY <1>0, <2>2 DEF CrossInv, Quiet, Crossing, InFlight
  <2>5. QED
    BY <2>1, <2>3, <2>4 DEF CrossInv
<1>4. BoardInv'
  BY <1>0, <1>1 DEF BoardInv
<1>5. ResultsInv' /\ PhraseInv' /\ CatalogInv'
  BY <1>0, <1>1 DEF ResultsInv, PhraseInv, CatalogInv, Call, thoughts, reply
<1>6. ShortcutInv'
  BY <1>0, <1>1 DEF ShortcutInv, OnPinned, Followup, ForPin, thoughts, reply
<1>7. PinInv'
  BY <1>0, <1>1 DEF PinInv, PinOK, memory, history
<1>8. DraftInv'
  BY <1>1 DEF DraftInv, Answered
<1>9. QED
  BY <1>0, <1>2, <1>3, <1>4, <1>5, <1>6, <1>7, <1>8 DEF Inv

LEMMA InvAside == ASSUME Inv, Aside PROVE Inv'
<1>0. /\ TypeInv /\ EarlyInv /\ LanguageInv /\ BoardInv /\ ResultsInv /\ PhraseInv /\ CatalogInv
      /\ ShortcutInv /\ DraftInv /\ TypeInv'
  BY TypeAside DEF Inv
<1>1. /\ UNCHANGED <<world, node, thoughts, reply>>
      /\ TurnOK' /\ Alike(turn, turn') /\ turn'.english = turn.english /\ turn'.shortcut = turn.shortcut
      /\ CrossInv' /\ PinOK(pin)' /\ PinOK(turn.pin)'
      /\ ~pushed'.excused => pushed'.left = {} /\ pushed'.lang = pushed'.expected
  BY DEF Aside
<1>2. EarlyInv'
  BY <1>0, <1>1 DEF EarlyInv, thoughts, reply
<1>3. LanguageInv'
  BY <1>0, <1>1 DEF LanguageInv, Alike, Texts, reply
<1>4. BoardInv'
  BY <1>0, <1>1 DEF BoardInv, Alike, world
<1>5. ResultsInv'
  BY <1>0, <1>1, AlikeIsGrown, ResultsStay DEF thoughts
<1>6. PhraseInv' /\ CatalogInv'
  BY <1>0, <1>1 DEF PhraseInv, CatalogInv, Call, Alike, thoughts, reply
<1>7. ShortcutInv'
  BY <1>0, <1>1 DEF ShortcutInv, OnPinned, Followup, ForPin, Alike, thoughts, reply
<1>8. PinInv'
  BY <1>1 DEF PinInv, PinOK
<1>9. DraftInv'
  <2>1. ASSUME Answered PROVE DraftOK' /\ Foremost'
    BY <1>0, <1>1, <2>1, DraftStays DEF reply
  <2>2. QED
    BY <1>1, <2>1 DEF DraftInv, Answered
<1>10. QED
  BY <1>0, <1>1, <1>2, <1>3, <1>4, <1>5, <1>6, <1>7, <1>8, <1>9 DEF Inv

LEMMA InvShapes == ASSUME Inv, Shapes PROVE Inv'
<1>1. CASE Ends
  BY <1>1, InvLoad, InvPersist, InvLocalize, InvRemember, InvResets DEF Ends
<1>2. CASE Around
  <2>1. TypeInv
    BY DEF Inv
  <2>2. CASE \E m \in Messages : Begin(m)
    BY <2>2, InvBegin
  <2>3. CASE \E j \in Jobs, status \in Statuses : Edit(j, [board[j] EXCEPT !.status = status])
    BY <2>1, <2>3, InvEdit, RowIs
  <2>4. CASE \E j \in Jobs, pay \in Pays : Edit(j, [board[j] EXCEPT !.pay = pay])
    BY <2>1, <2>4, InvEdit, RowIs
  <2>5. CASE \E a \in Applications : ApplyElsewhere(a)
    BY <2>5, InvApply
  <2>6. CASE Aside
    BY <2>6, InvAside
  <2>7. QED
    BY <1>2, <2>2, <2>3, <2>4, <2>5, <2>6 DEF Around
<1>3. QED
  BY <1>1, <1>2, InvMoves, InvDrafts, InvPlans, InvExecutes, InvSeeks, InvConsiders DEF Shapes

-----------------------------------------------------------------------------
(* Before the agent: a step moves on, or says what it found *)

Area == {"browse_category", "browse_classified"}

LEMMA PassMoves ==
  ASSUME Inv, NEW from \in Early \ {"idle"}, NEW to \in (Early \ {"idle"}) \cup {"planner"}, Pass(from, to), Same,
         from \in Fresh <=> to \in Fresh, fact' \in FactType, UNCHANGED <<plan, steps, loops, results>>,
         IF to \in Area THEN fact'.category \in Labels ELSE fact'.category = Unasked
  PROVE  Moves
<1>1. cache \in [Fixed \X Languages -> {"nothing", "translation"}]
  BY DEF Inv, TypeInv, MemoryOK
<1>2. QED
  BY <1>1 DEF Pass, Goto, Moves, Same, memory, Area

LEMMA PassOn ==
  ASSUME Inv, NEW from \in Early \ (Area \cup {"idle"}), NEW to \in (Early \ (Area \cup {"idle"})) \cup {"planner"},
         Pass(from, to), Same, from \in Fresh <=> to \in Fresh, UNCHANGED thoughts
  PROVE  Moves
<1>1. fact \in FactType /\ fact.category = Unasked
  BY DEF Inv, TypeInv, ThoughtOK, EarlyInv, Pass, Goto, Area
<1>2. /\ from \in Early \ {"idle"} /\ to \in (Early \ {"idle"}) \cup {"planner"} /\ to \notin Area
  BY DEF Area
<1>3. UNCHANGED <<fact, plan, steps, loops, results>>
  BY DEF thoughts
<1>4. QED
  BY <1>1, <1>2, <1>3, PassMoves

(* Open rows are read of the board that the turn sees. *)
LEMMA OpenIsRead ==
  ASSUME TypeInv, BoardInv, node # "idle", NEW rows, OpenRows(rows, board)
  PROVE  Read(turn, rows)
<1>1. ASSUME NEW i \in 1..Len(rows) PROVE rows[i].job \in turn.live /\ rows[i].pay \in turn.pays
  BY DEF OpenRows, BoardInv
<1>2. QED
  BY <1>1 DEF OpenRows, Read

(* The first of some rows. *)
LEMMA TopIsRead ==
  ASSUME NEW rows \in Seq(RowType), rows # <<>>, NEW t \in TurnType, Read(t, rows)
  PROVE  /\ Top(rows, CardLimit) \in Seq(RowType) /\ Len(Top(rows, CardLimit)) \in 1..CardLimit
         /\ Read(t, Top(rows, CardLimit))
         /\ Head(rows).job \in JobsOf(Top(rows, CardLimit))
         /\ Top(rows, CardLimit) # <<>> /\ Head(Top(rows, CardLimit)) = Head(rows)
<1> DEFINE top == Top(rows, CardLimit)
<1>1. CardLimit \in Nat /\ CardLimit > 0
  BY BoundsAssumption
<1>2. /\ top \in Seq(RowType) /\ Len(top) \in 0..Len(rows) /\ \A i \in 1..Len(top) : top[i] = rows[i]
      /\ Len(top) <= CardLimit /\ Len(top) \in {Len(rows), CardLimit}
  BY <1>1, TopIs
<1>3. Len(rows) \in Nat \ {0} /\ Head(rows) = rows[1]
  BY EmptySeq, LenProperties, HeadTailProperties
<1> HIDE DEF top
<1>4. Len(top) \in Nat \ {0} /\ 1 \in 1..Len(top)
  BY <1>1, <1>2, <1>3
<1>5. top # <<>> /\ Head(top) = top[1] /\ DOMAIN top = 1..Len(top)
  BY <1>2, <1>4, EmptySeq, LenProperties, HeadTailProperties
<1>6. \A i \in 1..Len(top) : i \in 1..Len(rows)
  BY <1>2, <1>3
<1>7. Read(t, top)
  BY <1>2, <1>6 DEF Read, Once
<1>8. Head(rows).job \in JobsOf(top)
  BY <1>2, <1>3, <1>4, <1>5 DEF JobsOf
<1>9. Len(top) \in 1..CardLimit
  BY <1>1, <1>2, <1>4
<1>10. Head(top) = Head(rows)
  BY <1>2, <1>3, <1>4, <1>5
<1>11. QED
  BY <1>2, <1>5, <1>7, <1>8, <1>9, <1>10 DEF top

(* A reply before the agent. *)
LEMMA SayIs ==
  ASSUME Inv, node \in Early \ (Fresh \cup {"idle"}), Same, UNCHANGED thoughts,
         NEW text \in {"categories", "list", "nothing", "cards", "none", "status"},
         NEW jobs \in Seq(RowType), NEW rows \in Seq(RowType), Say(text, jobs, rows),
         text \in {"cards", "list"} => Len(jobs) \in 1..CardLimit /\ Read(turn, jobs),
         text = "cards" /\ fact.category # Unasked => PresentedIn(turn, jobs, rows, fact.category),
         text = "none" => ~turn.hadApplied,
         rows # <<>> => text \in {"cards", "list"} /\ Head(rows).job \in JobsOf(jobs)
  PROVE  Drafts
<1>1. /\ draft' = [text |-> text, shown |-> jobs, claim |-> NoClaim] /\ catalog' = rows
      /\ node' = "persist" /\ UNCHANGED <<world, memory, history, left>>
  BY DEF Say
<1>2. draft'.text = text /\ draft'.shown = jobs
  BY <1>1
<1>3. draft' \in DraftType
  <2>1. text \in Wordings /\ NoClaim \in Claims
    BY ClaimsAssumption DEF Wordings
  <2>2. QED
    BY <1>1, <2>1 DEF DraftType
<1>4. ReplyOK'
  BY <1>1, <1>2, <1>3 DEF ReplyOK
<1>5. fact' = fact /\ Alike(turn, turn')
  BY DEF thoughts, Same
<1>6. DraftOK'
  <2>1. text \in {"cards", "list"} => Read(turn', jobs)
    BY <1>5, HeldAlike
  <2>2. text = "cards" /\ fact.category # Unasked => PresentedIn(turn', jobs, rows, fact.category)
    BY <1>5, HeldAlike
  <2>3. text = "none" => ~turn'.hadApplied
    BY <1>5 DEF Alike
  <2>4. QED
    BY <1>1, <1>2, <1>5, <2>1, <2>2, <2>3 DEF DraftOK
<1>7. Foremost'
  BY <1>1, <1>2 DEF Foremost, Shows
<1>8. ~turn.shortcut
  BY DEF Inv, EarlyInv
<1>9. node \notin {"idle", "localize", "remember", "deliver"} \cup Fresh
  BY DEF Early
<1>10. QED
  BY <1>1, <1>4, <1>6, <1>7, <1>8, <1>9 DEF Drafts

(* A list is the first of some open rows. *)
LEMMA ListIs ==
  ASSUME Inv, node \in Early \ (Area \cup Fresh \cup {"idle"}), NEW rows, OpenRows(rows, board), rows # <<>>,
         List(rows)
  PROVE  Drafts
<1> DEFINE top == Top(rows, CardLimit)
<1>1. /\ TypeInv /\ BoardInv /\ node # "idle" /\ turn \in TurnType /\ TurnOK
  BY DEF Inv, TypeInv, TurnOK
<1>2. rows \in Seq(RowType) /\ Read(turn, rows)
  BY <1>1, OpenIsRead DEF OpenRows
<1>3. /\ top \in Seq(RowType) /\ Len(top) \in 1..CardLimit /\ Read(turn, top)
      /\ Head(rows).job \in JobsOf(top) /\ Head(top) = Head(rows)
  BY <1>1, <1>2, TopIsRead
<1>4. Say("list", top, top) /\ NoFault /\ UNCHANGED thoughts
  BY DEF List
<1>5. Same
  BY <1>1, <1>4, CountIs DEF Causes
<1> HIDE DEF top
<1>6. QED
  BY <1>1, <1>3, <1>4, <1>5, SayIs

(* Cards are the first of some open rows. *)
LEMMA CardsAre ==
  ASSUME Inv, node \in Early \ (Fresh \cup {"idle"}), NEW rows, OpenRows(rows, board), rows # <<>>,
         Say("cards", Cards(rows), rows), NoFault, UNCHANGED thoughts,
         fact.category # Unasked => PresentedIn(turn, Cards(rows), rows, fact.category)
  PROVE  Drafts
<1> DEFINE top == Top(rows, CardLimit)
<1>1. /\ TypeInv /\ BoardInv /\ node # "idle" /\ turn \in TurnType /\ TurnOK
  BY DEF Inv, TypeInv, TurnOK
<1>2. rows \in Seq(RowType) /\ Read(turn, rows)
  BY <1>1, OpenIsRead DEF OpenRows
<1>3. /\ top \in Seq(RowType) /\ Len(top) \in 1..CardLimit /\ Read(turn, top)
      /\ Head(rows).job \in JobsOf(top)
  BY <1>1, <1>2, TopIsRead
<1>4. Say("cards", top, rows) /\ (fact.category # Unasked => PresentedIn(turn, top, rows, fact.category))
  BY DEF Cards
<1>5. Same
  BY <1>1, CountIs DEF Causes
<1> HIDE DEF top
<1>6. QED
  BY <1>2, <1>3, <1>4, <1>5, SayIs

(* Of an area, only the limit can leave out a job that was open all along. *)
LEMMA AreaIsComplete ==
  ASSUME TypeInv, BoardInv, node # "idle", NEW c \in Labels, NEW limit \in Nat, limit >= CategoryLimit
  PROVE  CompleteIn(turn, Search(board, c, NoFacets, limit), c)
<1> DEFINE rows == Search(board, c, NoFacets, limit)
           S    == Fitting(board, c, NoFacets)
<1>1. RowsFrom(rows, board, S, limit)
  BY SearchIs DEF TypeInv, WorldOK
<1>2. ASSUME NEW j \in turn.always, Category[j] = c PROVE j \in S
  <2>1. j \in Open(board) /\ j \in Jobs
    BY DEF BoardInv, Open
  <2>2. c \in Like[c] \ {Null}
    <3>1. c # Null
      BY DEF Labels, Categories, Null
    <3>2. c \in Categories
      BY <1>2, <2>1, <3>1 DEF Categories
    <3>3. QED
      BY <3>1, <3>2, NamesAssumption
  <2>3. PlaceFits(j, NoFacets) /\ PayFits(board[j].pay, NoFacets)
    BY DEF NoFacets, PlaceFits, PayFits
  <2>4. Kind[j] \in EmploymentTypes(NoFacets.kind)
    BY <2>1, JobsAssumption DEF NoFacets, EmploymentTypes, Kinds, Unasked
  <2>5. QED
    BY <1>2, <2>1, <2>2, <2>3, <2>4 DEF Fitting
<1> HIDE DEF S, rows
<1>4. CompleteIn(turn, rows, c)
  BY <1>1, <1>2, LimitsAssumption DEF CompleteIn, RowsFrom
<1>5. QED
  BY <1>4 DEF rows

(* The cards of an area are of all of it, or say of how many they are.     *)
LEMMA AreaIsPresented ==
  ASSUME TypeInv, BoardInv, node # "idle", NEW c \in Labels,
         NEW rows, rows = Search(board, c, NoFacets, CategoryLimit)
  PROVE  PresentedIn(turn, Cards(rows), rows, c)
<1> DEFINE open == {j \in turn.always : Category[j] = c}
           top  == Top(rows, CardLimit)
<1>1. CategoryLimit \in Nat /\ CardLimit \in Nat
  BY LimitsAssumption, BoundsAssumption
<1>2. OpenRows(rows, board)
  BY <1>1, SearchIs DEF TypeInv, WorldOK
<1>3. rows \in Seq(RowType) /\ Cardinality(JobsOf(rows)) = Len(rows) /\ Len(rows) \in Nat
  BY <1>2, RowsAreJobs, LenProperties DEF OpenRows
<1>4. open \subseteq JobsOf(rows) \/ Len(rows) >= CategoryLimit
  BY <1>1, AreaIsComplete DEF CompleteIn
<1>5. CASE Len(rows) >= CategoryLimit
  BY <1>5 DEF PresentedIn
<1>6. CASE open \subseteq JobsOf(rows)
  <2>1. IsFiniteSet(JobsOf(rows))
    BY <1>3, RowsOfJobs, NewestFirst, FS_Subset
  <2>2. Cardinality(open) <= Len(rows)
    BY <1>3, <1>6, <2>1, FS_Subset
  <2>3. /\ top \in Seq(RowType) /\ Len(top) \in 0..Len(rows) /\ \A i \in 1..Len(top) : top[i] = rows[i]
        /\ Len(top) <= CardLimit /\ Len(top) \in {Len(rows), CardLimit}
    BY <1>1, <1>3, TopIs
  <2> HIDE DEF top
  <2>4. CASE Len(top) = Len(rows)
    <3>1. DOMAIN top = 1..Len(top) /\ DOMAIN rows = 1..Len(rows)
      BY <1>3, <2>3, LenProperties
    <3>2. JobsOf(top) = JobsOf(rows)
      BY <2>3, <2>4, <3>1 DEF JobsOf
    <3>3. QED
      BY <1>6, <2>2, <3>2 DEF PresentedIn, Cards, top
  <2>5. CASE Len(top) # Len(rows)
    <3>1. Len(top) = CardLimit /\ CardLimit < Len(rows)
      BY <1>1, <1>3, <2>3, <2>5
    <3>2. QED
      BY <2>2, <3>1 DEF PresentedIn, Cards, top
  <2>6. QED
    BY <2>4, <2>5
<1>7. QED
  BY <1>4, <1>5, <1>6

LEMMA ToEnglishSteps == ASSUME Inv, ToEnglish \/ ToEnglishFails PROVE Moves
<1>1. CASE ToEnglish
  <2>1. /\ node = "to_english" /\ node' = "load" /\ turn' = [turn EXCEPT !.english = TRUE]
        /\ UNCHANGED <<world, memory, thoughts, reply, history, count>>
    BY <1>1 DEF ToEnglish, Goto
  <2>2. TurnOK' /\ Alike(turn, turn') /\ Steady /\ turn'.shortcut = turn.shortcut
    BY <2>1 DEF Inv, TypeInv, TurnOK, TurnType, Alike, Steady
  <2>3. fact \in FactType /\ fact.category = Unasked /\ cache \in [Fixed \X Languages -> {"nothing", "translation"}]
    BY <2>1 DEF Inv, TypeInv, ThoughtOK, MemoryOK, EarlyInv, Early
  <2>4. QED
    BY <2>1, <2>2, <2>3 DEF Moves, Early, Fresh, memory, thoughts
<1>2. CASE ToEnglishFails
  <2>1. Same
    BY <1>2, CountIs DEF ToEnglishFails, Inv, TypeInv, Causes
  <2>2. Pass("to_english", "load") /\ UNCHANGED thoughts
    BY <1>2 DEF ToEnglishFails
  <2>3. QED
    BY <2>1, <2>2, PassOn DEF Early, Area, Fresh
<1>3. QED
  BY <1>1, <1>2

(* No applications: a sender who had some is not told so. *)
LEMMA StatusIsTrue ==
  ASSUME Inv, NEW text,
         LET step   == Step("get_application_status")
             result == [NoResult(step) EXCEPT !.apps = ApplicationStatus(applied, Seeker, Unasked)]
         IN text \in StatusReply(<<result>>)
  PROVE  text \in {"none", "status"} /\ (text = "none" => ~turn.hadApplied)
<1> DEFINE apps   == ApplicationStatus(applied, Seeker, Unasked)
           result == [NoResult(Step("get_application_status")) EXCEPT !.apps = apps]
<1>1. PICK r \in FirstOf(<<result>>, "get_application_status") : text = IF r.apps = {} THEN "none" ELSE "status"
  BY DEF StatusReply
<1>2. result.apps = apps
  BY DEF NoResult
<1> HIDE DEF result
<1>3. r = result
  <2>1. DOMAIN <<result>> = {1} /\ <<result>>[1] = result
    OBVIOUS
  <2>2. QED
    BY <2>1 DEF FirstOf, First, Of
<1>4. turn.hadApplied => apps # {}
  BY DEF Inv, BoardInv, ApplicationStatus
<1> HIDE DEF apps
<1>5. QED
  BY <1>1, <1>2, <1>3, <1>4

LEMMA MenuSteps == ASSUME Inv, Menu PROVE Shapes
<1>0. /\ TypeInv /\ TurnOK /\ EarlyInv /\ BoardInv /\ board \in BoardType /\ CardLimit \in Nat
  BY BoundsAssumption DEF Inv, TypeInv, WorldOK
<1>1. ASSUME NoFault PROVE Same
  BY <1>0, <1>1, CountIs DEF Causes
<1>2. node = "menu" => /\ node \in Early \ (Area \cup Fresh \cup {"idle"}) /\ node \in Early \ (Fresh \cup {"idle"})
                       /\ catalog = <<>> /\ fact.category = Unasked
  BY <1>0 DEF Early, EarlyInv, Area, Fresh
<1>3. <<>> \in Seq(RowType)
  OBVIOUS
<1>4. CASE MenuSearch
  <2>1. node = "menu" /\ Say("categories", <<>>, <<>>) /\ Same /\ UNCHANGED thoughts
    BY <1>1, <1>2, <1>4 DEF MenuSearch
  <2>2. Drafts
    BY <1>2, <1>3, <2>1, SayIs
  <2>3. QED
    BY <2>2 DEF Shapes
<1>5. CASE MenuRecommend
  <2>1. OpenRows(RecommendBySkills(board, SeekerSkills, CardLimit), board)
    BY <1>0, RecommendIs
  <2>2. Drafts
    BY <1>2, <1>5, <2>1, ListIs DEF MenuRecommend
  <2>3. QED
    BY <2>2 DEF Shapes
<1>6. CASE MenuRecommendHits
  <2>1. Same
    <3>1. NoFault \/ Fault("search")
      BY <1>6 DEF MenuRecommendHits
    <3>2. QED
      BY <1>0, <3>1, CountIs DEF Causes
  <2>2. /\ Pass("menu", "recommend") /\ UNCHANGED <<plan, steps, loops, results>>
        /\ \E hits \in Hits : fact' = [NoFact EXCEPT !.hits = hits]
    BY <1>6 DEF MenuRecommendHits
  <2>3. fact' \in FactType /\ fact'.category = Unasked
    BY <2>2, NoFactIs DEF FactType
  <2>4. Moves
    BY <2>1, <2>2, <2>3, PassMoves DEF Early, Area, Fresh
  <2>5. QED
    BY <2>4 DEF Shapes
<1>7. CASE MenuStatus
  <2>1. PICK text :
          /\ LET step   == Step("get_application_status")
                 result == [NoResult(step) EXCEPT !.apps = ApplicationStatus(applied, Seeker, Unasked)]
             IN text \in StatusReply(<<result>>)
          /\ Say(text, <<>>, catalog)
    BY <1>7 DEF MenuStatus
  <2>2. text \in {"none", "status"} /\ (text = "none" => ~turn.hadApplied)
    BY <2>1, StatusIsTrue
  <2>3. node = "menu" /\ Same /\ UNCHANGED thoughts
    BY <1>1, <1>7 DEF MenuStatus
  <2>4. Drafts
    BY <1>2, <1>3, <2>1, <2>2, <2>3, SayIs
  <2>5. QED
    BY <2>4 DEF Shapes
<1>8. CASE NoMenu \/ MenuFails
  <2>1. NoFault \/ Fault("menu")
    BY <1>8 DEF NoMenu, MenuFails
  <2>2. Same
    BY <1>0, <2>1, CountIs DEF Causes
  <2>3. Pass("menu", "browse") /\ UNCHANGED thoughts
    BY <1>8 DEF NoMenu, MenuFails
  <2>4. Moves
    BY <2>2, <2>3, PassOn DEF Early, Area, Fresh
  <2>5. QED
    BY <2>4 DEF Shapes
<1>9. QED
  BY <1>4, <1>5, <1>6, <1>7, <1>8 DEF Menu

LEMMA RecommendSteps == ASSUME Inv, Recommend PROVE Shapes
<1>0. /\ TypeInv /\ TurnOK /\ EarlyInv /\ board \in BoardType /\ CardLimit \in Nat /\ fact.hits \in Hits
  BY BoundsAssumption DEF Inv, TypeInv, WorldOK, ThoughtOK, FactType
<1>1. node \in {"recommend", "newest"} =>
        /\ node \in Early \ (Area \cup Fresh \cup {"idle"}) /\ node \in Early \ (Fresh \cup {"idle"})
        /\ fact.category = Unasked
  BY <1>0 DEF Early, EarlyInv, Area, Fresh
<1>2. <<>> \in Seq(RowType)
  OBVIOUS
<1>3. ASSUME node \in {"recommend", "newest"}, Say("nothing", <<>>, <<>>), NoFault \/ Fault("search"), UNCHANGED thoughts
      PROVE  Drafts
  <2>1. Same
    BY <1>0, <1>3, CountIs DEF Causes
  <2>2. QED
    BY <1>1, <1>2, <1>3, <2>1, SayIs
<1>4. CASE RecommendByRole
  <2>1. OpenRows(Recommended, board)
    BY <1>0, HydrateIs DEF Recommended
  <2>2. Drafts
    BY <1>1, <1>4, <2>1, ListIs DEF RecommendByRole
  <2>3. QED
    BY <2>2 DEF Shapes
<1>5. CASE RecommendNone
  <2>1. Same
    BY <1>0, <1>5, CountIs DEF RecommendNone, Causes
  <2>2. Moves
    BY <1>5, <2>1, PassOn DEF RecommendNone, Early, Area, Fresh
  <2>3. QED
    BY <2>2 DEF Shapes
<1>6. CASE RecommendNewest
  <2> DEFINE rows == Search(board, Unasked, NoFacets, CardLimit)
  <2>1. OpenRows(rows, board)
    BY <1>0, SearchIs
  <2>2. /\ node = "newest"
        /\ IF rows = <<>> THEN Say("nothing", <<>>, <<>>) /\ NoFault /\ UNCHANGED thoughts ELSE List(rows)
    BY <1>6 DEF RecommendNewest
  <2> HIDE DEF rows
  <2>3. Drafts
    BY <1>1, <1>3, <2>1, <2>2, ListIs
  <2>4. QED
    BY <2>3 DEF Shapes
<1>7. CASE RecommendFails
  <2>1. Drafts
    BY <1>3, <1>7 DEF RecommendFails
  <2>2. QED
    BY <2>1 DEF Shapes
<1>8. QED
  BY <1>4, <1>5, <1>6, <1>7 DEF Recommend

(* What a phrase names, in English, is an area or nothing. *)
LEMMA NamedIs == ASSUME TypeInv PROVE Named \in Labels \cup {Unasked}
<1>1. turn.msg.phrase \in Phrases \cup {Unasked}
  <2>1. turn.msg \in Messages \cup {NoMessage}
    BY DEF TypeInv, TurnOK, TurnType
  <2>2. \A m \in Messages : m.phrase \in Phrases \cup {Unasked}
    BY MessagesAssumption DEF Message
  <2>3. NoMessage.phrase = Unasked
    BY DEF NoMessage
  <2>4. QED
    BY <2>1, <2>2, <2>3
<1>2. Phrase \in Phrases \cup {Unasked}
  BY <1>1 DEF Phrase
<1>3. QED
  BY <1>2, MatchIs DEF Named

LEMMA AreaFact ==
  /\ \A c \in Labels : [NoFact EXCEPT !.category = c] \in FactType
                       /\ [NoFact EXCEPT !.category = c].category = c
  /\ Unasked \notin Labels
BY NoFactIs, NamesAssumption DEF FactType

LEMMA CategorySteps ==
  ASSUME Inv, NameCategory \/ BrowseCategory \/ BrowseEmpty \/ BrowseFails
  PROVE  Shapes
<1>0. /\ TypeInv /\ TurnOK /\ EarlyInv /\ BoardInv /\ board \in BoardType
  BY DEF Inv, TypeInv, WorldOK
<1>1. ASSUME NoFault \/ Fault("search") PROVE Same
  BY <1>0, <1>1, CountIs DEF Causes
<1>2. CASE NameCategory
  <2>1. /\ Pass("browse", "browse_category") /\ Named # Unasked /\ fact' = [NoFact EXCEPT !.category = Named]
        /\ NoFault /\ UNCHANGED <<plan, steps, loops, results>>
    BY <1>2 DEF NameCategory
  <2>2. fact' \in FactType /\ fact'.category \in Labels
    BY <1>0, <2>1, NamedIs, AreaFact
  <2>3. Moves
    BY <1>1, <2>1, <2>2, PassMoves DEF Early, Area, Fresh
  <2>4. QED
    BY <2>3 DEF Shapes
<1>3. CASE BrowseCategory
  <2> DEFINE rows == Search(board, fact.category, NoFacets, CategoryLimit)
  <2>1. /\ node \in Area /\ rows # <<>> /\ Say("cards", Cards(rows), rows)
        /\ NoFault /\ UNCHANGED thoughts
    BY <1>3 DEF BrowseCategory, Area
  <2>2. node \in Early \ (Fresh \cup {"idle"}) /\ fact.category \in Labels /\ node # "idle"
    BY <1>0, <2>1 DEF Early, EarlyInv, Area, Fresh
  <2>3. CategoryLimit \in Nat
    BY LimitsAssumption
  <2>4. OpenRows(rows, board)
    BY <1>0, <2>3, SearchIs
  <2>5. PresentedIn(turn, Cards(rows), rows, fact.category)
    BY <1>0, <2>2, AreaIsPresented
  <2> HIDE DEF rows
  <2>6. Drafts
    BY <2>1, <2>2, <2>4, <2>5, CardsAre
  <2>7. QED
    BY <2>6 DEF Shapes
<1>4. CASE BrowseEmpty \/ BrowseFails
  <2>1. Uncategorised /\ (NoFault \/ Fault("search"))
    BY <1>4 DEF BrowseEmpty, BrowseFails
  <2>2. PICK from \in Area, to \in {"planner", "browse_title"} : Pass(from, to)
    BY <2>1 DEF Uncategorised, Area
  <2>3. fact' = NoFact /\ UNCHANGED <<plan, steps, loops, results>>
    BY <2>1 DEF Uncategorised
  <2>4. /\ from \in Early \ {"idle"} /\ to \in (Early \ {"idle"}) \cup {"planner"} /\ to \notin Area
        /\ from \notin Fresh /\ to \notin Fresh
    BY DEF Early, Area, Fresh
  <2>5. Same
    BY <1>1, <2>1
  <2>6. Moves
    BY <2>2, <2>3, <2>4, <2>5, NoFactIs, PassMoves
  <2>7. QED
    BY <2>6 DEF Shapes
<1>5. QED
  BY <1>2, <1>3, <1>4

LEMMA TitleSteps ==
  ASSUME Inv, \/ BrowseOne \/ BrowseNone \/ BrowseOneFails \/ NameNoCategory
              \/ BrowseTitle \/ BrowseTitleNone \/ BrowseTitleFails
  PROVE  Shapes
<1>0. /\ TypeInv /\ TurnOK /\ EarlyInv /\ board \in BoardType /\ CardLimit \in Nat
  BY BoundsAssumption DEF Inv, TypeInv, WorldOK
<1>1. ASSUME NoFault \/ Fault("search") PROVE Same
  BY <1>0, <1>1, CountIs DEF Causes
<1>2. node \in {"browse", "browse_title"} => node \in Early \ (Fresh \cup {"idle"}) /\ fact.category = Unasked
  BY <1>0 DEF Early, EarlyInv, Fresh
<1>3. CASE BrowseOne
  <2>1. PICK j \in GetByRef(board, turn.msg.ref) : Say("cards", Cards(<<Row(board, j)>>), <<Row(board, j)>>)
    BY <1>3 DEF BrowseOne
  <2>2. j \in Open(board) /\ j \in Jobs
    BY DEF GetByRef, Open
  <2> DEFINE rows == <<Row(board, j)>>
  <2>3. Row(board, j) \in RowType /\ Row(board, j).job = j /\ Row(board, j).pay = board[j].pay
    BY <1>0, <2>2 DEF Row, RowType, BoardType
  <2>4. rows \in Seq(RowType) /\ Len(rows) = 1 /\ rows[1] = Row(board, j) /\ rows # <<>>
    BY <2>3
  <2>5. Once(rows) /\ \A i \in 1..Len(rows) : i = 1
    BY <2>4 DEF Once
  <2>6. OpenRows(rows, board)
    BY <2>2, <2>3, <2>4, <2>5 DEF OpenRows
  <2>7. node = "browse" /\ NoFault /\ UNCHANGED thoughts
    BY <1>3 DEF BrowseOne
  <2> HIDE DEF rows
  <2>8. Drafts
    BY <1>2, <2>1, <2>4, <2>6, <2>7, CardsAre DEF rows
  <2>9. QED
    BY <2>8 DEF Shapes
<1>4. CASE BrowseTitle
  <2>1. OpenRows(Titled, board)
    BY <1>0, TitleIs DEF Titled
  <2>2. Drafts
    BY <1>2, <1>4, <2>1, CardsAre DEF BrowseTitle
  <2>3. QED
    BY <2>2 DEF Shapes
<1>5. CASE BrowseNone \/ BrowseOneFails \/ NameNoCategory
  <2>1. PICK to \in {"planner", "browse_title"} :
          Pass("browse", to) /\ (NoFault \/ Fault("search")) /\ UNCHANGED thoughts
    BY <1>5 DEF BrowseNone, BrowseOneFails, NameNoCategory
  <2>2. /\ to \in (Early \ (Area \cup {"idle"})) \cup {"planner"} /\ "browse" \in Early \ (Area \cup {"idle"})
        /\ to \notin Fresh /\ "browse" \notin Fresh
    BY DEF Early, Area, Fresh
  <2>3. Moves
    BY <1>1, <2>1, <2>2, PassOn
  <2>4. QED
    BY <2>3 DEF Shapes
<1>6. CASE BrowseTitleNone \/ BrowseTitleFails
  <2>1. Pass("browse_title", AfterTitle) /\ (NoFault \/ Fault("search")) /\ UNCHANGED thoughts
    BY <1>6 DEF BrowseTitleNone, BrowseTitleFails
  <2>2. /\ AfterTitle \in (Early \ (Area \cup {"idle"})) \cup {"planner"}
        /\ "browse_title" \in Early \ (Area \cup {"idle"}) /\ AfterTitle \notin Fresh /\ "browse_title" \notin Fresh
    BY DEF AfterTitle, Early, Area, Fresh
  <2>3. Moves
    BY <1>1, <2>1, <2>2, PassOn
  <2>4. QED
    BY <2>3 DEF Shapes
<1>7. QED
  BY <1>3, <1>4, <1>5, <1>6

LEMMA ClassifySteps == ASSUME Inv, Classify PROVE Moves
<1>0. TypeInv /\ TurnOK /\ EarlyInv
  BY DEF Inv, TypeInv
<1>1. PICK done \in SUBSET Todo(cache, {"categories"}, turn.lang) :
        /\ cache' = Cached(cache, {"categories"}, turn.lang, done)
        /\ NoFault \/ Fault("translate")
  BY DEF Classify
<1>2. PICK name \in Labels \cup {Unasked} :
        LET category == IF name = Unasked THEN Unasked ELSE MatchCategory(board, name)
        IN /\ fact' = [NoFact EXCEPT !.category = category]
           /\ node' = IF category = Unasked THEN "planner" ELSE "browse_classified"
  BY DEF Classify
<1>3. node = "classify" /\ UNCHANGED <<world, pin, stored, others, history, reply, plan, steps, loops, results>>
  BY DEF Classify
<1>4. Same
  BY <1>0, <1>1, CountIs DEF Causes
<1>5. cache' \in [Fixed \X Languages -> {"nothing", "translation"}]
  BY <1>0, <1>1, CachedIs DEF TypeInv, MemoryOK
<1> DEFINE category == IF name = Unasked THEN Unasked ELSE MatchCategory(board, name)
<1>6. category \in Labels \cup {Unasked}
  BY NamesAssumption, MatchIs
<1>7. /\ fact' = [NoFact EXCEPT !.category = category]
      /\ node' = IF category = Unasked THEN "planner" ELSE "browse_classified"
  BY <1>2
<1> HIDE DEF category
<1>8. fact' \in FactType /\ (node' = "planner" \/ (node' = "browse_classified" /\ fact'.category \in Labels))
  <2>1. category \in Phrases \cup {Unasked}
    BY <1>6, NamesAssumption
  <2>2. fact' \in FactType /\ fact'.category = category
    BY <1>7, <2>1, NoFactIs DEF FactType
  <2>3. QED
    BY <1>6, <1>7, <2>2
<1>9. QED
  BY <1>3, <1>4, <1>5, <1>8 DEF Moves, Same, Early, Fresh

LEMMA BrowseSteps == ASSUME Inv, Browse PROVE Shapes
<1>1. Moves => Shapes
  BY DEF Shapes
<1>2. QED
  BY <1>1, CategorySteps, TitleSteps, ClassifySteps DEF Browse

-----------------------------------------------------------------------------
(* The agent *)

LEMMA MinOfTwo == ASSUME NEW a \in Int, NEW b \in Int PROVE Min({a, b}) \in Int /\ Min({a, b}) <= b
<1>1. \E x \in {a, b} : \A y \in {a, b} : x <= y
  OBVIOUS
<1>2. QED
  BY <1>1 DEF Min

LEMMA StepsAre ==
  \A c \in Steps : c.tool \in Tools /\ c.phrase \in Phrases \cup {Unasked} /\ c.limit \in Nat
<1>1. \A c \in Calls : c.tool \in Tools /\ c.phrase \in Phrases \cup {Unasked} /\ c.limit \in Nat
  BY CallsAssumption
<1>2. \A c \in Shortcuts \cup {Step("search_jobs")} :
        c.tool \in Tools /\ c.phrase \in Phrases \cup {Unasked} /\ c.limit \in Nat
  BY DEF Shortcuts, Step, Tools
<1>3. QED
  BY <1>1, <1>2 DEF Steps

LEMMA PlanIs ==
  ASSUME Inv, node = "planner", NEW p \in Seq(Steps), Len(p) \in 0..MaxSteps, Plan(p),
         TurnOK', Alike(turn, turn'), Steady, turn'.english = turn.english, turn'.shortcut = OnPinned,
         OnPinned => \A n \in 1..Len(p) : ForPin(p[n])
  PROVE  Plans
<1>1. loops \in {0, 1} \cup 0..MaxLoops /\ (loops = 0 \/ loops < MaxLoops) /\ MaxLoops \in Nat
  BY BoundsAssumption DEF Inv, TypeInv, PlanOK, StepsOK
<1>2. /\ plan' = p /\ steps' = Len(p) /\ loops' = loops + 1
      /\ node' = IF p = <<>> THEN "responder" ELSE "execute"
      /\ UNCHANGED <<world, memory, history, reply, fact, results>>
  BY DEF Plan
<1>3. loops' \in {0, 1} \cup 0..MaxLoops
  BY <1>1, <1>2
<1>4. PlanOK'
  BY <1>2, <1>3 DEF PlanOK
<1>5. QED
  BY <1>2, <1>4 DEF Plans

LEMMA PlanSteps == ASSUME Inv, PlanFollowup \/ PlanModel PROVE Plans
<1>0. /\ TurnOK /\ turn \in TurnType /\ count \in [turns: Nat, edits: Nat, faults: Nat, steps: Nat]
      /\ {MaxSteps, MaxEvents} \subseteq Nat /\ MaxSteps > 0
  BY BoundsAssumption DEF Inv, TypeInv, TurnOK
<1>1. CASE PlanFollowup
  <2> DEFINE p == IF turn.msg.apply THEN <<[Step("submit_application") EXCEPT !.ref = Slug[turn.pin.job]]>> ELSE <<>>
  <2>1. /\ node = "planner" /\ OnPinned /\ Plan(p) /\ turn' = [turn EXCEPT !.shortcut = TRUE] /\ count' = count
    BY <1>1 DEF PlanFollowup
  <2>2. /\ TurnOK' /\ Alike(turn, turn') /\ Steady /\ turn'.english = turn.english /\ turn'.shortcut = TRUE
    BY <1>0, <2>1 DEF TurnOK, TurnType, Alike, Steady
  <2>3. turn.pin.job \in Jobs
    BY <1>0, <2>1 DEF OnPinned, TurnType, PinType
  <2> DEFINE call == [Step("submit_application") EXCEPT !.ref = Slug[turn.pin.job]]
  <2>4. call \in Steps /\ ForPin(call)
    BY <2>3 DEF Steps, Shortcuts, ForPin, Step
  <2>5. p \in {<<call>>, <<>>}
    OBVIOUS
  <2> HIDE DEF call, p
  <2>6. p \in Seq(Steps) /\ Len(p) \in 0..MaxSteps /\ \A n \in 1..Len(p) : ForPin(p[n])
    <3>1. /\ <<call>> \in Seq(Steps) /\ Len(<<call>>) = 1 /\ <<call>>[1] = call
          /\ <<>> \in Seq(Steps) /\ Len(<<>>) = 0
      BY <2>4
    <3>2. 1 \in 0..MaxSteps /\ 0 \in 0..MaxSteps
      BY <1>0
    <3>3. CASE p = <<call>>
      <4>1. \A n \in 1..Len(p) : n = 1
        BY <3>1, <3>3
      <4>2. QED
        BY <2>4, <3>1, <3>2, <3>3, <4>1
    <3>4. CASE p = <<>>
      BY <3>1, <3>2, <3>4
    <3>5. QED
      BY <2>5, <3>3, <3>4
  <2>7. turn'.shortcut = OnPinned
    BY <2>1, <2>2 DEF OnPinned
  <2>8. QED
    BY <2>1, <2>2, <2>6, <2>7, PlanIs
<1>2. CASE PlanModel
  <2> DEFINE n == Min({Left, MaxSteps - count.steps})
             S == Calls \cup {Step("search_jobs")}
  <2>1. PICK p \in SeqOf(S, n) : Plan(p) /\ count' = [count EXCEPT !.steps = @ + Len(p)]
    BY <1>2 DEF PlanModel
  <2>2. node = "planner" /\ ~OnPinned /\ turn' = turn
    BY <1>2 DEF PlanModel
  <2>3. Left \in Int /\ MaxSteps - count.steps \in Int /\ MaxSteps - count.steps <= MaxSteps
    BY <1>0 DEF Left
  <2>4. n \in Int /\ n <= MaxSteps
    <3>1. n \in Int /\ n <= MaxSteps - count.steps
      BY <2>3, MinOfTwo
    <3> HIDE DEF n
    <3>2. QED
      BY <1>0, <2>3, <3>1
  <2> HIDE DEF n
  <2>5. PICK m \in 0..n : p \in [1..m -> S]
    BY DEF SeqOf
  <2>6. p \in Seq(S) /\ Len(p) = m /\ m \in 0..MaxSteps /\ m \in Nat
    BY <1>0, <2>4, <2>5
  <2>7. p \in Seq(Steps)
    <3>1. S \subseteq Steps
      BY DEF Steps
    <3> HIDE DEF S
    <3>2. QED
      BY <2>6, <3>1
  <2>8. TurnOK' /\ Alike(turn, turn') /\ Steady
    BY <1>0, <2>1, <2>2, <2>6 DEF TurnOK, Alike, Steady
  <2>9. turn'.shortcut = OnPinned
    <3>1. turn.shortcut = FALSE
      BY <1>0, <2>2 DEF Inv, ShortcutInv, Agent, TurnType
    <3>2. OnPinned = FALSE
      BY <2>2 DEF OnPinned
    <3>3. QED
      BY <2>2, <3>1, <3>2
  <2>10. QED
    BY <2>1, <2>2, <2>6, <2>7, <2>8, <2>9, PlanIs
<1>3. QED
  BY <1>1, <1>2

(* What a tool that finds nothing returns is sound. *)
LEMMA NoResultIs ==
  ASSUME NEW call \in Steps
  PROVE  /\ NoResult(call) \in ResultType /\ FailedResult(call) \in ResultType
         /\ NoResult(call).call = call /\ NoResult(call).failed = FALSE /\ NoResult(call).rows = <<>>
         /\ NoResult(call).counts = {} /\ NoResult(call).link = {} /\ NoResult(call).apps = {}
<1>1. <<>> \in Seq(RowType)
  OBVIOUS
<1>2. NoResult(call) \in ResultType
  BY <1>1 DEF NoResult, ResultType
<1>3. FailedResult(call) \in ResultType
  BY <1>2 DEF FailedResult, ResultType
<1>4. QED
  BY <1>2, <1>3 DEF NoResult

LEMMA NothingIsRead == ASSUME NEW t \in TurnType PROVE Read(t, <<>>)
<1>1. Len(<<>>) = 0 /\ ~\E i \in 1..0 : TRUE
  OBVIOUS
<1>2. QED
  BY <1>1 DEF Read, Once

(* A tool that reads once. *)
LEMMA AnswerIs ==
  ASSUME Inv, node # "idle", NEW call \in Steps, NEW result \in Answer(call)
  PROVE  result \in ResultType /\ result.call = call /\ Sound(turn, result)
<1>0. /\ TypeInv /\ BoardInv /\ turn \in TurnType /\ Read(turn, <<>>)
  BY NothingIsRead DEF Inv, TypeInv, TurnOK
<1> DEFINE none == NoResult(call)
<1>1. /\ none \in ResultType /\ none.call = call /\ none.failed = FALSE /\ none.rows = <<>>
      /\ none.counts = {} /\ none.link = {} /\ none.apps = {}
  BY NoResultIs
<1> HIDE DEF none
<1>2. CASE call.tool = "list_jobs_overview"
  <2>1. result = [none EXCEPT !.counts = Counts(board)]
    BY <1>2 DEF Answer, none
  <2>2. Counts(board) \in SUBSET Nat
    BY CountsAreNumbers
  <2>3. Counts(board) \subseteq turn.counts
    BY <1>0, CountsAreNumbers DEF BoardInv
  <2>4. /\ result \in ResultType /\ result.call = call /\ result.counts = Counts(board) /\ result.failed = FALSE
        /\ result.rows = <<>> /\ result.link = {}
    BY <1>1, <2>1, <2>2 DEF ResultType
  <2>5. QED
    BY <1>0, <1>2, <2>3, <2>4 DEF Sound
<1>3. CASE call.tool = "submit_application"
  <2>1. PICK link \in SubmitApplication(board, call.ref) :
          result = [none EXCEPT !.link = link, !.failed = (link = {})]
    BY <1>3 DEF Answer, none
  <2>2. link \in SUBSET Jobs /\ \A j \in link : j \in turn.live /\ Slug[j] = call.ref
    BY <1>0 DEF SubmitApplication, GetByRef, Open, BoardInv
  <2>3. /\ result \in ResultType /\ result.call = call /\ result.counts = {} /\ result.rows = <<>> /\ result.link = link
    BY <1>1, <2>1, <2>2 DEF ResultType
  <2>4. QED
    BY <1>0, <1>3, <2>2, <2>3 DEF Sound
<1>4. CASE call.tool = "get_application_status"
  <2> DEFINE apps == ApplicationStatus(applied, Seeker, call.ref)
  <2>1. result = [none EXCEPT !.apps = apps]
    BY <1>4 DEF Answer, none
  <2>2. apps \in SUBSET Applications
    BY <1>0 DEF ApplicationStatus, TypeInv, WorldOK
  <2>3. turn.hadApplied /\ call.ref = Unasked => apps # {}
    BY <1>0 DEF BoardInv, ApplicationStatus
  <2> HIDE DEF apps
  <2>4. /\ result \in ResultType /\ result.call = call /\ result.counts = {} /\ result.rows = <<>>
        /\ result.link = {} /\ result.apps = apps
    BY <1>1, <2>1, <2>2 DEF ResultType
  <2>5. QED
    BY <1>0, <1>4, <2>3, <2>4 DEF Sound
<1>5. CASE call.tool = "search_docs"
  <2>1. PICK n \in 0..DocLimit : result = [none EXCEPT !.counts = {n}]
    BY <1>5 DEF Answer, none
  <2>2. n \in Nat
    BY ResultsAssumption
  <2>3. /\ result \in ResultType /\ result.call = call /\ result.rows = <<>> /\ result.link = {}
    BY <1>1, <2>1, <2>2 DEF ResultType
  <2>4. QED
    BY <1>0, <1>5, <2>3 DEF Sound
<1>6. CASE call.tool = "other"
  <2>1. result = none
    BY <1>6 DEF Answer, none
  <2>2. QED
    BY <1>0, <1>1, <1>6, <2>1 DEF Sound
<1>7. CASE call.tool = "search_jobs"
  BY <1>7 DEF Answer
<1>8. QED
  BY <1>2, <1>3, <1>4, <1>5, <1>6, <1>7, StepsAre DEF Tools

(* The rows of a search are what was asked for. *)
LEMMA RowsAre ==
  ASSUME Inv, node = "search_rows"
  PROVE  LET rows == IF fact.category # Unasked
                     THEN Search(board, fact.category, Call.facets, Wider(Call.limit))
                     ELSE Hydrate(board, fact.hits, Call.facets, Call.limit)
         IN OpenRows(rows, board) /\ AnswersIn(turn, Call, rows)
<1> DEFINE f == Call.facets
<1>0. /\ TypeInv /\ BoardInv /\ PhraseInv /\ board \in BoardType /\ fact.hits \in Hits /\ node # "idle"
  BY DEF Inv, TypeInv, WorldOK, ThoughtOK, FactType
<1>1. Call \in Steps
  <2>1. plan \in Seq(Steps) /\ plan # <<>>
    BY <1>0 DEF TypeInv, PlanOK, StepsOK
  <2>2. QED
    BY <2>1, HeadTailProperties DEF Call
<1>2. Call.limit \in Nat /\ Call.phrase \in Phrases \cup {Unasked}
  BY <1>1, StepsAre
<1>3. CASE fact.category # Unasked
  <2> DEFINE limit == Wider(Call.limit)
             rows  == Search(board, fact.category, f, limit)
  <2>1. limit \in Nat /\ limit >= CategoryLimit
    BY <1>2, LimitsAssumption DEF Wider
  <2>2. RowsFrom(rows, board, Fitting(board, fact.category, f), limit) /\ OpenRows(rows, board)
    BY <1>0, <2>1, SearchIs
  <2>3. Call.phrase # Unasked /\ Call.phrase \in Phrases
    BY <1>0, <1>2, <1>3 DEF PhraseInv
  <2>4. ASSUME f = NoFacets, Names[Call.phrase] # <<>>,
               \E j \in turn.always : Category[j] = Head(Names[Call.phrase])
        PROVE  CompleteIn(turn, rows, Head(Names[Call.phrase]))
    <3>1. fact.category = Head(Names[Call.phrase])
      BY <1>0, <2>3, <2>4 DEF PhraseInv
    <3>2. Head(Names[Call.phrase]) \in Labels
      BY <2>3, <2>4, MatchIs
    <3> HIDE DEF limit
    <3>3. QED
      BY <1>0, <2>1, <2>4, <3>1, <3>2, AreaIsComplete
  <2> HIDE DEF limit, rows
  <2>5. \A i \in 1..Len(rows) : PlaceFits(rows[i].job, f) /\ PayFits(rows[i].pay, f) /\ KindFits(Call, rows[i].job)
    BY <2>2, <2>3 DEF RowsFrom, Fitting, KindFits
  <2>6. DOMAIN rows = 1..Len(rows)
    BY <2>2, LenProperties DEF OpenRows
  <2>7. AnswersIn(turn, Call, rows)
    BY <2>4, <2>5, <2>6 DEF AnswersIn
  <2>8. QED
    BY <1>3, <2>2, <2>7 DEF rows, limit
<1>4. CASE fact.category = Unasked
  <2> DEFINE rows == Hydrate(board, fact.hits, f, Call.limit)
  <2>1. OpenRows(rows, board) /\ \A i \in 1..Len(rows) : MatchesFacets(rows[i], f)
    BY <1>0, <1>2, HydrateIs
  <2>2. Call.phrase = Unasked
    BY <1>0, <1>4 DEF PhraseInv
  <2> HIDE DEF rows
  <2>3. \A i \in 1..Len(rows) : PlaceFits(rows[i].job, f) /\ PayFits(rows[i].pay, f) /\ KindFits(Call, rows[i].job)
    BY <2>1 DEF MatchesFacets, KindFits
  <2>4. DOMAIN rows = 1..Len(rows)
    BY <2>1, LenProperties DEF OpenRows
  <2>5. AnswersIn(turn, Call, rows)
    BY <2>2, <2>3, <2>4 DEF AnswersIn
  <2>6. QED
    BY <1>4, <2>1, <2>5 DEF rows
<1>5. QED
  BY <1>3, <1>4

LEMMA ExecutedIs ==
  ASSUME Inv, node \in {"execute", "search_rows"}, Same, NEW result \in ResultType, result.call = Call,
         Sound(turn, result), Executed(result)
  PROVE  Executes
BY DEF Executed, Executes

LEMMA ExecuteSteps == ASSUME Inv, Execute PROVE Shapes
<1>0. /\ TypeInv /\ TurnOK /\ turn \in TurnType /\ Read(turn, <<>>) /\ board \in BoardType
  BY NothingIsRead DEF Inv, TypeInv, TurnOK, WorldOK
<1>1. ASSUME NoFault \/ Fault("tool") PROVE Same
  BY <1>0, <1>1, CountIs DEF Causes
<1>2. ASSUME node \in {"execute", "search_rows"} PROVE Call \in Steps /\ node # "idle"
  <2>1. plan \in Seq(Steps) /\ plan # <<>>
    BY <1>0, <1>2 DEF TypeInv, PlanOK, StepsOK
  <2>2. QED
    BY <1>2, <2>1, HeadTailProperties DEF Call
<1>3. CASE Dispatch
  <2>1. PICK result \in Answer(Call) : node = "execute" /\ Executed(result) /\ NoFault
    BY <1>3 DEF Dispatch
  <2>2. result \in ResultType /\ result.call = Call /\ Sound(turn, result)
    BY <1>2, <2>1, AnswerIs
  <2>3. QED
    BY <1>1, <2>1, <2>2, ExecutedIs DEF Shapes
<1>4. CASE SearchFirst
  <2>1. /\ node = "execute" /\ node' = "search_rows" /\ Call.tool = "search_jobs"
        /\ UNCHANGED <<world, memory, history, reply, plan, steps, loops, results, turn, count>>
        /\ IF Call.phrase # Unasked
           THEN fact' = [NoFact EXCEPT !.category = ResolveCategory(board, Call.phrase)]
           ELSE \E hits \in Hits : fact' = [NoFact EXCEPT !.hits = hits]
    BY <1>4 DEF SearchFirst, Pass, Goto, NoFault
  <2>2. Call.phrase \in Phrases \cup {Unasked} /\ Call' = Call
    BY <1>2, <2>1, StepsAre DEF Call
  <2>3. CASE Call.phrase # Unasked
    <3> DEFINE c == ResolveCategory(board, Call.phrase)
               m == MatchCategory(board, Call.phrase)
    <3>1. /\ m \in Labels \cup {Unasked}
          /\ Names[Call.phrase] # <<>> /\ (\E j \in Open(board) : Category[j] = Head(Names[Call.phrase]))
               => m = Head(Names[Call.phrase])
      BY <2>2, <2>3, MatchIs
    <3>2. Names[Call.phrase] # <<>> => Head(Names[Call.phrase]) \in Labels
      BY <2>2, <2>3, MatchIs
    <3>3. c = IF m = Unasked THEN Call.phrase ELSE m
      BY DEF ResolveCategory
    <3>4. Unasked \notin Labels /\ Labels \subseteq Phrases
      BY NamesAssumption
    <3>5. fact' = [NoFact EXCEPT !.category = c]
      BY <2>1, <2>3
    <3> HIDE DEF c, m
    <3>6. c \in Phrases /\ c # Unasked
      BY <2>2, <2>3, <3>1, <3>3, <3>4
    <3>7. fact' \in FactType /\ fact'.category = c
      BY <3>5, <3>6, NoFactIs DEF FactType
    <3>8. turn.always \subseteq Open(board)
      BY <2>1 DEF Inv, BoardInv
    <3>9. Names[Call.phrase] # <<>> /\ (\E j \in turn.always : Category[j] = Head(Names[Call.phrase]))
            => c = Head(Names[Call.phrase])
      BY <3>1, <3>2, <3>3, <3>4, <3>8
    <3>10. PhraseInv'
      BY <2>1, <2>2, <2>3, <3>6, <3>7, <3>9 DEF PhraseInv
    <3>11. QED
      BY <2>1, <3>7, <3>10 DEF Seeks, Shapes
  <2>4. CASE Call.phrase = Unasked
    <3>1. fact' \in FactType /\ fact'.category = Unasked
      BY <2>1, <2>4, NoFactIs DEF FactType
    <3>2. PhraseInv'
      BY <2>1, <2>2, <2>4, <3>1 DEF PhraseInv
    <3>3. QED
      BY <2>1, <3>1, <3>2 DEF Seeks, Shapes
  <2>5. QED
    BY <2>3, <2>4
<1>5. CASE SearchRows
  <2> DEFINE rows   == IF fact.category # Unasked
                       THEN Search(board, fact.category, Call.facets, Wider(Call.limit))
                       ELSE Hydrate(board, fact.hits, Call.facets, Call.limit)
             none   == NoResult(Call)
             result == [none EXCEPT !.rows = rows]
  <2>1. node = "search_rows" /\ Executed(result) /\ NoFault
    BY <1>5 DEF SearchRows
  <2>2. OpenRows(rows, board) /\ AnswersIn(turn, Call, rows)
    BY <2>1, RowsAre
  <2> HIDE DEF rows
  <2>3. Read(turn, rows) /\ rows \in Seq(RowType)
    BY <1>0, <2>1, <2>2, OpenIsRead DEF OpenRows, Inv
  <2>4. /\ none \in ResultType /\ none.call = Call /\ none.failed = FALSE
        /\ none.counts = {} /\ none.link = {}
    BY <1>2, <2>1, NoResultIs
  <2> HIDE DEF none
  <2>5. /\ result \in ResultType /\ result.call = Call /\ result.failed = FALSE
        /\ result.counts = {} /\ result.link = {} /\ result.rows = rows
    BY <2>3, <2>4 DEF ResultType
  <2>6. Call.tool = "search_jobs"
    BY <1>0, <2>1 DEF TypeInv, StepsOK
  <2> HIDE DEF result
  <2>7. Sound(turn, result)
    BY <2>2, <2>3, <2>5, <2>6 DEF Sound
  <2>8. QED
    BY <1>1, <2>1, <2>5, <2>7, ExecutedIs DEF Shapes
<1>6. CASE DispatchFails
  <2> DEFINE result == FailedResult(Call)
  <2>1. node \in {"execute", "search_rows"} /\ Executed(result) /\ Fault("tool")
    BY <1>6 DEF DispatchFails
  <2>2. /\ result \in ResultType /\ result.call = Call /\ result.failed = TRUE /\ result.rows = <<>>
        /\ result.counts = {} /\ result.link = {}
    BY <1>2, <2>1, NoResultIs DEF FailedResult, ResultType
  <2> HIDE DEF result
  <2>3. Sound(turn, result)
    BY <1>0, <2>2 DEF Sound
  <2>4. QED
    BY <1>1, <2>1, <2>2, <2>3, ExecutedIs DEF Shapes
<1>7. QED
  BY <1>3, <1>4, <1>5, <1>6 DEF Execute

LEMMA ReflectSteps == ASSUME Inv, Reflect \/ RespondRewrite PROVE Considers
<1>1. CASE Reflect
  BY <1>1 DEF Reflect, Pass, Goto, NoFault, Considers
<1>2. CASE RespondRewrite
  BY <1>2 DEF RespondRewrite, Pass, Goto, NoFault, Considers
<1>3. QED
  BY <1>1, <1>2

-----------------------------------------------------------------------------
(* The responder *)

LEMMA ResultsAre ==
  ASSUME Inv
  PROVE  /\ \A n \in 1..Len(results) : results[n] \in ResultType /\ Sound(turn, results[n])
         /\ DOMAIN results = 1..Len(results) /\ Len(results) \in Nat
<1>1. results \in Seq(ResultType) /\ ResultsInv
  BY DEF Inv, TypeInv, ThoughtOK
<1>2. \A n \in 1..Len(results) : results[n] \in ResultType
  BY <1>1, ElementOfSeq
<1>3. QED
  BY <1>1, <1>2, LenProperties DEF ResultsInv

LEMMA FirstOfAre ==
  ASSUME Inv, NEW tool, NEW r \in FirstOf(results, tool)
  PROVE  r \in ResultType /\ Sound(turn, r) /\ r.call.tool = tool /\ \E n \in 1..Len(results) : r = results[n]
<1>1. PICK n \in First(Of(results, tool)) : r = results[n]
  BY DEF FirstOf
<1>2. n \in DOMAIN results /\ results[n].call.tool = tool
  BY <1>1 DEF First, Of
<1>3. QED
  BY <1>1, <1>2, ResultsAre

LEMMA ListedAre ==
  ASSUME Inv
  PROVE  /\ \A r \in Listed(results) : \E n \in Of(results, "search_jobs") : r = results[n] /\ ~r.failed
         /\ \A r, x \in Listed(results) : r = x
<1> DEFINE T == {m \in Of(results, "search_jobs") : ~results[m].failed}
<1>1. Listed(results) = {results[n] : n \in First(T)}
  BY DEF Listed
<1>2. T \in SUBSET Nat
  BY ResultsAre DEF Of
<1> HIDE DEF T
<1>3. First(T) \subseteq T /\ \A m, n \in First(T) : m = n
  BY <1>2, FirstIs
<1>4. \A r, x \in Listed(results) : r = x
  BY <1>1, <1>3
<1>5. \A r \in Listed(results) : \E n \in T : r = results[n]
  BY <1>1, <1>3
<1>6. QED
  BY <1>4, <1>5 DEF T

(* A claim that the results support held during the turn. *)
LEMMA SupportedIsHeld ==
  ASSUME Inv, NEW c \in Claims, Supported(c)
  PROVE  c.seen => HeldIn(turn, results, c)
<1> SUFFICES ASSUME c.seen PROVE HeldIn(turn, results, c)
  OBVIOUS
<1>1. CASE c.what = "salary"
  <2>1. c.of \in Salaries(results) \cup turn.msg.typed
    BY <1>1 DEF Supported, Valid
  <2>2. Salaries(results) \subseteq turn.pays
    <3>1. ASSUME NEW n \in Of(results, "search_jobs"), NEW i \in DOMAIN results[n].rows
          PROVE  results[n].rows[i].pay \in turn.pays
      <4>1. n \in 1..Len(results)
        BY ResultsAre DEF Of
      <4>2. results[n].rows \in Seq(RowType) /\ Read(turn, results[n].rows)
        BY <4>1, ResultsAre DEF ResultType, Sound
      <4>3. i \in 1..Len(results[n].rows)
        BY <4>2, LenProperties
      <4>4. QED
        BY <4>2, <4>3 DEF Read
    <3>2. QED
      BY <3>1 DEF Salaries
  <2>3. QED
    BY <1>1, <2>1, <2>2 DEF HeldIn
<1>2. CASE c.what = "count"
  <2>1. c.of \in AllowedCounts(results) \cup turn.msg.typed
    BY <1>2 DEF Supported, Valid
  <2>2. ASSUME NEW n \in 1..Len(results), NEW k \in results[n].counts
        PROVE  k \in turn.counts \/ Of(results, "search_docs") # {}
    <3>1. Sound(turn, results[n])
      BY ResultsAre
    <3>2. CASE results[n].call.tool = "search_docs"
      BY <3>2, ResultsAre DEF Of
    <3>3. CASE results[n].call.tool # "search_docs"
      BY <3>1, <3>3 DEF Sound
    <3>4. QED
      BY <3>2, <3>3
  <2>3. ASSUME NEW n \in Of(results, "search_jobs")
        PROVE  LET jobs == JobsOf(results[n].rows)
               IN jobs \subseteq turn.live /\ Len(results[n].rows) = Cardinality(jobs)
    <3>1. n \in 1..Len(results)
      BY ResultsAre DEF Of
    <3>2. results[n].rows \in Seq(RowType) /\ Read(turn, results[n].rows)
      BY <3>1, ResultsAre DEF ResultType, Sound
    <3>3. Cardinality(JobsOf(results[n].rows)) = Len(results[n].rows)
      BY <3>2, RowsAreJobs DEF Read
    <3>4. JobsOf(results[n].rows) \subseteq turn.live
      BY <3>2, LenProperties DEF Read, JobsOf
    <3>5. QED
      BY <3>3, <3>4
  <2>4. ASSUME NEW k \in AllowedCounts(results)
        PROVE  \/ k \in turn.counts \/ Of(results, "search_docs") # {}
               \/ \E n \in Of(results, "search_jobs") :
                    LET jobs == JobsOf(results[n].rows) IN jobs \subseteq turn.live /\ k = Cardinality(jobs)
    <3> DEFINE found == {m \in Of(results, "search_jobs") : ~results[m].failed}
    <3>1. \/ \E n \in DOMAIN results : k \in results[n].counts
          \/ \E n \in Of(results, "search_jobs") : k = Len(results[n].rows)
      <4>1. /\ k \in (UNION {results[n].counts : n \in DOMAIN results}) \cup {Len(results[n].rows) : n \in found}
            /\ found \in SUBSET Of(results, "search_jobs")
        BY DEF AllowedCounts
      <4> HIDE DEF found
      <4>2. CASE k \in UNION {results[n].counts : n \in DOMAIN results}
        BY <4>2
      <4>3. CASE k \in {Len(results[n].rows) : n \in found}
        <5>1. PICK n \in found : k = Len(results[n].rows)
          BY <4>3
        <5>2. n \in Of(results, "search_jobs")
          BY <4>1
        <5>3. QED
          BY <5>1, <5>2
      <4>4. QED
        BY <4>1, <4>2, <4>3
    <3>2. DOMAIN results = 1..Len(results)
      BY ResultsAre
    <3>3. QED
      BY <2>2, <2>3, <3>1, <3>2
  <2>5. QED
    BY <1>2, <2>1, <2>4 DEF HeldIn
<1>3. CASE c.what = "none"
  BY <1>3 DEF HeldIn
<1>4. c.what \in {"none", "salary", "count"}
  BY ClaimsAssumption DEF NoClaim, Claim
<1>5. QED
  BY <1>1, <1>2, <1>3, <1>4

(* A reply of the agent. *)
LEMMA ReplyIs ==
  ASSUME Inv, node \in {"responder", "rewrite"}, node' = "persist", Same,
         UNCHANGED <<world, memory, history, catalog, left, thoughts>>,
         NEW text \in Wordings \ {"cards", "list"}, NEW jobs \in Seq(RowType), NEW claim \in Claims,
         draft' = [text |-> text, shown |-> jobs, claim |-> claim],
         text = "listing" => /\ Read(turn, jobs) /\ \A r \in Listed(results) : AnswersIn(turn, r.call, jobs)
                             /\ catalog # <<>> => \/ \E m, n \in Finds(results) : m # n
                                                  \/ Head(catalog).job \in JobsOf(jobs),
         text = "answer" /\ claim.seen => HeldIn(turn, results, claim),
         text = "none" /\ turn.hadApplied =>
           \E r \in FirstOf(results, "get_application_status") : r.failed \/ r.call.ref # Unasked,
         text = "link" => \A j \in JobsOf(jobs) : j \in turn.live /\ (turn.shortcut => Slug[j] = Slug[turn.pin.job])
  PROVE  Drafts
<1>1. draft' \in DraftType /\ draft'.text = text /\ draft'.shown = jobs /\ draft'.claim = claim
  BY DEF DraftType
<1>2. ReplyOK'
  BY <1>1 DEF ReplyOK, Inv, TypeInv
<1>3. /\ Alike(turn, turn') /\ fact' = fact /\ results' = results /\ catalog' = catalog
      /\ turn'.shortcut = turn.shortcut
  BY DEF Same, thoughts, memory
<1>4. DraftOK'
  <2>1. text = "listing" => /\ Read(turn', jobs) /\ \A r \in Listed(results) : AnswersIn(turn', r.call, jobs)
    BY <1>3, HeldAlike
  <2>2. text = "answer" /\ claim.seen => HeldIn(turn', results, claim)
    BY <1>3, HeldAlike
  <2>3. turn'.hadApplied = turn.hadApplied /\ turn'.live = turn.live /\ turn'.pin = turn.pin
    BY <1>3 DEF Alike
  <2>4. QED
    BY <1>1, <1>3, <2>1, <2>2, <2>3 DEF DraftOK
<1>5. Foremost'
  <2>1. catalog # <<>> => results # <<>>
    <3>1. LastFound(catalog, results)
      BY DEF Inv, CatalogInv, Agent
    <3>2. results = <<>> => Finds(results) = {}
      BY DEF Finds, Of
    <3>3. QED
      BY <3>1, <3>2 DEF LastFound
  <2>2. QED
    BY <1>1, <1>3, <2>1 DEF Foremost, Loose, Shows
<1>6. turn.shortcut => catalog' = <<>>
  BY <1>3 DEF Inv, ShortcutInv
<1>7. node \notin {"idle", "localize", "remember", "deliver"} \cup Fresh
  BY DEF Fresh
<1>8. QED
  BY <1>2, <1>4, <1>5, <1>6, <1>7 DEF Drafts

LEMMA RespondSteps == ASSUME Inv, Respond PROVE Shapes
<1>0. TypeInv /\ TurnOK /\ ShortcutInv /\ CatalogInv
  BY DEF Inv, TypeInv
<1>1. ASSUME NoFault \/ Fault("model") PROVE Same
  BY <1>0, <1>1, CountIs DEF Causes
<1>2. <<>> \in Seq(RowType) /\ NoClaim \in Claims /\ JobsOf(<<>>) = {}
  BY ClaimsAssumption DEF JobsOf
<1>3. CASE RespondStatus
  <2>1. PICK text \in StatusReply(results) : Say(text, <<>>, catalog)
    BY <1>3 DEF RespondStatus
  <2>2. PICK r \in FirstOf(results, "get_application_status") : text = IF r.apps = {} THEN "none" ELSE "status"
    BY <2>1 DEF StatusReply
  <2>3. Sound(turn, r) /\ r.call.tool = "get_application_status"
    BY <2>2, FirstOfAre
  <2>4. text = "none" /\ turn.hadApplied =>
          \E x \in FirstOf(results, "get_application_status") : x.failed \/ x.call.ref # Unasked
    BY <2>2, <2>3 DEF Sound
  <2>5. node = "responder" /\ Same /\ UNCHANGED thoughts
    BY <1>1, <1>3 DEF RespondStatus
  <2>6. text \in {"none", "status"} /\ text \in Wordings \ {"cards", "list"}
    BY <2>2 DEF Wordings
  <2>7. /\ draft' = [text |-> text, shown |-> <<>>, claim |-> NoClaim] /\ node' = "persist"
        /\ UNCHANGED <<world, memory, history, catalog, left>>
    BY <2>1 DEF Say
  <2>8. Drafts
    BY <1>2, <2>4, <2>5, <2>6, <2>7, ReplyIs
  <2>9. QED
    BY <2>8 DEF Shapes
<1>4. CASE RespondLink
  <2>1. PICK j \in LinkReply(results) : Say("link", <<[job |-> j, pay |-> None]>>, catalog)
    BY <1>4 DEF RespondLink
  <2>2. PICK r \in FirstOf(results, "submit_application") : j \in r.link
    BY <2>1 DEF LinkReply
  <2>3. PICK n \in 1..Len(results) : r = results[n] /\ r \in ResultType /\ Sound(turn, r)
    BY <2>2, FirstOfAre
  <2>4. j \in Jobs /\ j \in turn.live /\ Slug[j] = r.call.ref
    BY <2>2, <2>3 DEF ResultType, Sound
  <2>5. turn.shortcut => Slug[j] = Slug[turn.pin.job]
    BY <1>0, <2>3, <2>4 DEF ShortcutInv, ForPin
  <2> DEFINE row  == [job |-> j, pay |-> None]
             jobs == <<row>>
  <2>6. jobs \in Seq(RowType) /\ JobsOf(jobs) = {j}
    <3>1. row \in RowType /\ row.job = j
      BY <2>4 DEF RowType
    <3> HIDE DEF row
    <3>2. jobs \in Seq(RowType) /\ DOMAIN jobs = {1} /\ jobs[1] = row
      BY <3>1
    <3>3. QED
      BY <3>1, <3>2 DEF JobsOf
  <2>7. node = "responder" /\ Same /\ UNCHANGED thoughts
    BY <1>1, <1>4 DEF RespondLink
  <2>8. /\ draft' = [text |-> "link", shown |-> jobs, claim |-> NoClaim] /\ node' = "persist"
        /\ UNCHANGED <<world, memory, history, catalog, left>>
    BY <2>1 DEF Say
  <2>9. "link" \in Wordings \ {"cards", "list"}
    BY DEF Wordings
  <2> HIDE DEF jobs
  <2>10. Drafts
    BY <1>2, <2>4, <2>5, <2>6, <2>7, <2>8, <2>9, ReplyIs
  <2>11. QED
    BY <2>10 DEF Shapes
<1>5. CASE RespondListing
  <2>1. PICK rows \in ListingReply(results) : Say("listing", rows, catalog)
    BY <1>5 DEF RespondListing
  <2>2. PICK x \in Listed(results) : rows = x.rows /\ Len(x.rows) > ListAbove
    BY <2>1 DEF ListingReply
  <2>3. PICK k \in Of(results, "search_jobs") : x = results[k] /\ ~x.failed
    BY <2>2, ListedAre
  <2>4. k \in 1..Len(results) /\ x.call.tool = "search_jobs" /\ x \in ResultType /\ Sound(turn, x)
    BY <2>3, ResultsAre DEF Of
  <2>5. rows \in Seq(RowType) /\ Read(turn, rows) /\ AnswersIn(turn, x.call, rows)
    BY <2>2, <2>3, <2>4 DEF ResultType, Sound
  <2>6. rows # <<>> /\ Len(rows) \in Nat \ {0}
    <3>1. Len(rows) \in Nat /\ Len(rows) # 0
      BY <2>2, <2>5, LenProperties, ResultsAssumption
    <3>2. QED
      BY <2>5, <3>1, EmptySeq
  <2>7. Head(rows).job \in JobsOf(rows)
    <3>1. Head(rows) = rows[1] /\ DOMAIN rows = 1..Len(rows) /\ 1 \in 1..Len(rows)
      BY <2>5, <2>6, LenProperties, HeadTailProperties
    <3>2. QED
      BY <3>1 DEF JobsOf
  <2>8. k \in Finds(results)
    BY <2>2, <2>3, <2>6 DEF Finds
  <2>9. (\E m, n \in Finds(results) : m # n) \/ catalog = rows
    <3>1. node \in Agent
      BY <1>5 DEF RespondListing, Agent
    <3>2. LastFound(catalog, results)
      BY <1>0, <3>1 DEF CatalogInv
    <3>3. ASSUME \A m, n \in Finds(results) : m = n PROVE catalog = rows
      <4>1. \A m \in Finds(results) : m <= k
        BY <2>4, <2>8, <3>3
      <4>2. QED
        BY <2>2, <2>3, <2>8, <3>2, <4>1 DEF LastFound
    <3>4. QED
      BY <3>3
  <2>10. \A r \in Listed(results) : AnswersIn(turn, r.call, rows)
    BY <2>2, <2>5, ListedAre
  <2>11. node = "responder" /\ Same /\ UNCHANGED thoughts
    BY <1>1, <1>5 DEF RespondListing
  <2>12. /\ draft' = [text |-> "listing", shown |-> rows, claim |-> NoClaim] /\ node' = "persist"
         /\ UNCHANGED <<world, memory, history, catalog, left>>
    BY <2>1 DEF Say
  <2>13. "listing" \in Wordings \ {"cards", "list"}
    BY DEF Wordings
  <2>14. Drafts
    BY <1>2, <2>5, <2>7, <2>9, <2>10, <2>11, <2>12, <2>13, ReplyIs
  <2>15. QED
    BY <2>14 DEF Shapes
<1>6. ASSUME node \in {"responder", "rewrite"}, NEW text \in {"answer", "busy", "safe"}, NEW c \in Claims,
             text = "answer" => Supported(c), Write(text, c), NoFault \/ Fault("model")
      PROVE  Shapes
  <2>1. /\ draft' = [text |-> text, shown |-> <<>>, claim |-> c] /\ node' = "persist"
        /\ UNCHANGED <<world, memory, history, catalog, left, thoughts>>
    BY <1>6 DEF Write
  <2>2. text = "answer" /\ c.seen => HeldIn(turn, results, c)
    BY <1>6, SupportedIsHeld
  <2>3. text \in Wordings \ {"cards", "list"} /\ text \notin {"listing", "none", "link"}
    BY <1>6 DEF Wordings
  <2>4. Drafts
    BY <1>1, <1>2, <1>6, <2>1, <2>2, <2>3, ReplyIs
  <2>5. QED
    BY <2>4 DEF Shapes
<1>7. CASE RespondDraft
  BY <1>6, <1>7 DEF RespondDraft, Drafting
<1>8. CASE RespondBusy
  BY <1>2, <1>6, <1>8 DEF RespondBusy, Drafting
<1>9. CASE Rewrite
  BY <1>2, <1>6, <1>9 DEF Rewrite
<1>10. CASE RewriteFails
  BY <1>2, <1>6, <1>10 DEF RewriteFails
<1>11. CASE RespondRewrite
  BY <1>11, ReflectSteps DEF Shapes
<1>12. QED
  BY <1>3, <1>4, <1>5, <1>7, <1>8, <1>9, <1>10, <1>11 DEF Respond

-----------------------------------------------------------------------------
(* The end of a turn *)

LEMMA FaultCounts ==
  ASSUME TypeInv, Mishap \/ UNCHANGED count
  PROVE  count' \in [turns: Nat, edits: Nat, faults: Nat, steps: Nat]
BY DEF TypeInv, TurnOK, Mishap

(* A reply that is sent shows what it owes. *)
LEMMA DeliverSteps == ASSUME Inv, Deliver PROVE Resets
<1>0. /\ TypeInv /\ HistoryOK /\ ReplyOK /\ PinOK(pin) /\ node = "deliver"
  BY DEF Inv, TypeInv, PinInv, Deliver, Goto
<1>1. PICK sent \in SUBSET Shows :
        /\ shown' = shown \cup sent
        /\ \/ sent = Shows /\ owed' = owed \ Own /\ UNCHANGED count
           \/ sent # Shows /\ UNCHANGED owed /\ Mishap
  BY DEF Deliver
<1>2. node' = "idle" /\ Reset /\ UNCHANGED <<world, memory, pushed, speaks>>
  BY DEF Deliver, Goto
<1>3. count' \in [turns: Nat, edits: Nat, faults: Nat, steps: Nat]
  BY <1>0, <1>1, FaultCounts
<1>4. HistoryOK'
  BY <1>0, <1>1, <1>2, ShownIs DEF HistoryOK
<1>5. Own \subseteq Shows
  <2>1. Foremost
    BY <1>0 DEF Inv, DraftInv, Answered
  <2>2. QED
    BY <1>0, <2>1, PinnedIs DEF Foremost, Own, Pinning
<1>6. shown \cup owed \subseteq shown' \cup owed'
  BY <1>1, <1>5
<1>7. PinOK(pin)'
  BY <1>0, <1>2, <1>6 DEF PinOK, memory
<1>8. QED
  BY <1>2, <1>3, <1>4, <1>7 DEF Resets

LEMMA DieSteps == ASSUME Inv, Die PROVE Resets
<1>0. TypeInv /\ HistoryOK /\ PinOK(pin)
  BY DEF Inv, TypeInv, PinInv
<1>1. /\ node' = "idle" /\ Reset /\ Mishap /\ UNCHANGED <<world, memory, history>>
  BY DEF Die
<1>2. count' \in [turns: Nat, edits: Nat, faults: Nat, steps: Nat]
  BY <1>0, <1>1, FaultCounts
<1>3. HistoryOK' /\ PinOK(pin)'
  BY <1>0, <1>1 DEF HistoryOK, PinOK, memory, history
<1>4. QED
  BY <1>1, <1>2, <1>3 DEF Resets, history

-----------------------------------------------------------------------------
(* Beside the turn: the memory, and other turns *)

(* What is shown or owed stays one of the two. *)
LEMMA AsideIs ==
  ASSUME Inv, UNCHANGED <<world, node, thoughts, reply>>,
         TurnOK', Alike(turn, turn'), turn'.english = turn.english, turn'.shortcut = turn.shortcut,
         MemoryOK', HistoryOK', CrossInv', pin' = pin \/ PinOK(pin)',
         \A j \in shown \cup owed : j # NoJob => j \in shown' \cup owed',
         ~pushed'.excused => pushed'.left = {} /\ pushed'.lang = pushed'.expected
  PROVE  Aside
<1>1. PinOK(pin) /\ PinOK(turn.pin)
  BY DEF Inv, PinInv
<1>2. PinOK(pin)'
  BY <1>1 DEF PinOK
<1>3. PinOK(turn.pin)'
  BY <1>1 DEF PinOK, Alike
<1>4. QED
  BY <1>2, <1>3 DEF Aside

LEMMA TurnStays ==
  ASSUME TypeInv, turn' = turn, Mishap \/ UNCHANGED count
  PROVE  TurnOK' /\ Alike(turn, turn') /\ turn'.english = turn.english /\ turn'.shortcut = turn.shortcut
<1>1. count' \in [turns: Nat, edits: Nat, faults: Nat, steps: Nat]
  BY FaultCounts
<1>2. QED
  BY <1>1 DEF TypeInv, TurnOK, Alike

LEMMA PushedIs ==
  ASSUME Inv PROVE ~pushed.excused => pushed.left = {} /\ pushed.lang = pushed.expected
BY DEF Inv, LanguageInv

LEMMA CrossSame ==
  ASSUME CrossInv, UNCHANGED <<node, turn, stored, others, speaks>>
  PROVE  CrossInv'
<1>1. InFlight' = InFlight /\ Quiet' = Quiet /\ NoneCrosses' = NoneCrosses
  BY DEF InFlight, Quiet, NoneCrosses, Crossing
<1>2. TurnCrossOK'
  BY <1>1 DEF CrossInv, TurnCrossOK, Expected
<1>3. ASSUME NEW r \in Rivals PROVE RivalOK(r)'
  BY <1>1 DEF CrossInv, RivalOK, Crossing
<1>4. QED
  BY <1>1, <1>2, <1>3 DEF CrossInv

LEMMA UnpinSteps == ASSUME Inv, (\E k \in DOMAIN cache : Evict(k)) \/ Unpin PROVE Aside
<1>0. TypeInv /\ MemoryOK /\ HistoryOK /\ CrossInv
  BY DEF Inv, TypeInv
<1>1. /\ UNCHANGED <<world, stored, others, node, turn, thoughts, reply, history, count>>
      /\ \/ pin' = pin /\ \E k \in DOMAIN cache : cache' = [cache EXCEPT ![k] = "nothing"]
         \/ pin' = NoPin /\ cache' = cache
  BY DEF Evict, Unpin
<1>2. cache' \in [Fixed \X Languages -> {"nothing", "translation"}] /\ pin' \in PinType
  BY <1>0, <1>1, NoRivalIs DEF MemoryOK
<1>3. MemoryOK' /\ HistoryOK'
  BY <1>0, <1>1, <1>2 DEF MemoryOK, HistoryOK, history
<1>4. CrossInv'
  BY <1>0, <1>1, CrossSame DEF history
<1>5. pin' = pin \/ PinOK(pin)'
  BY <1>1 DEF PinOK, NoPin
<1>6. QED
  BY <1>0, <1>1, <1>3, <1>4, <1>5, TurnStays, PushedIs, AsideIs DEF history

(* A notice that is not excused is in the language that is stored. *)
LEMMA PushSteps == ASSUME Inv, Push PROVE Aside
<1> DEFINE texts == {"notice", "buttons"}
<1>0. TypeInv /\ MemoryOK /\ HistoryOK /\ CrossInv
  BY DEF Inv, TypeInv
<1>1. PICK found \in BOOLEAN :
        LET lang == IF found THEN stored ELSE "en"
            todo == Todo(cache, texts, lang)
        IN \E done \in IF lang = "en" THEN {todo} ELSE SUBSET todo :
             /\ pushed' = [lang |-> lang, expected |-> speaks.lang,
                           excused |-> ~found \/ done # todo \/ ~speaks.kept,
                           left |-> IF lang = "en" THEN {} ELSE LeftInEnglish(cache, texts, lang, done)]
             /\ cache' = IF lang = "en" THEN cache ELSE Cached(cache, texts, lang, done)
             /\ IF found /\ done = todo THEN UNCHANGED count ELSE Mishap
  BY DEF Push
<1>2. UNCHANGED <<world, pin, stored, others, node, turn, thoughts, reply, shown, speaks, owed>>
  BY DEF Push
<1> DEFINE lang == IF found THEN stored ELSE "en"
           todo == Todo(cache, texts, lang)
<1>3. PICK done \in IF lang = "en" THEN {todo} ELSE SUBSET todo :
        /\ pushed' = [lang |-> lang, expected |-> speaks.lang,
                      excused |-> ~found \/ done # todo \/ ~speaks.kept,
                      left |-> IF lang = "en" THEN {} ELSE LeftInEnglish(cache, texts, lang, done)]
        /\ cache' = IF lang = "en" THEN cache ELSE Cached(cache, texts, lang, done)
        /\ IF found /\ done = todo THEN UNCHANGED count ELSE Mishap
  BY <1>1
<1>4. lang \in Languages /\ (found => lang = stored)
  BY <1>0 DEF MemoryOK, Languages
<1>5. cache \in [Fixed \X Languages -> {"nothing", "translation"}]
  BY <1>0 DEF MemoryOK
<1>6. LeftInEnglish(cache, texts, lang, todo) = {}
  <2>1. \A x \in texts \ Glossary : InCache(cache, x, lang) => cache[<<x, lang>>] # "original"
    BY <1>4, <1>5 DEF InCache
  <2>2. \A x \in texts \ Glossary : ~InCache(cache, x, lang) => x \in todo
    BY DEF Todo
  <2> HIDE DEF todo, lang, texts
  <2>3. QED
    BY <2>1, <2>2 DEF LeftInEnglish
<1> HIDE DEF lang, todo, texts
<1>7. MemoryOK' /\ HistoryOK'
  <2>1. cache' \in [Fixed \X Languages -> {"nothing", "translation"}]
    BY <1>3, <1>5, CachedIs
  <2>2. QED
    BY <1>0, <1>2, <2>1 DEF MemoryOK, HistoryOK
<1>8. ~pushed'.excused => pushed'.left = {} /\ pushed'.lang = pushed'.expected
  <2>1. speaks.kept => stored = speaks.lang
    BY <1>0 DEF CrossInv
  <2>2. QED
    BY <1>3, <1>4, <1>6, <2>1
<1>9. CrossInv'
  BY <1>0, <1>2, CrossSame
<1>10. Mishap \/ UNCHANGED count
  BY <1>3
<1>11. QED
  BY <1>0, <1>2, <1>7, <1>8, <1>9, <1>10, TurnStays, AsideIs

(* Another turn begins: it is alone only if no other may store a language. *)
LEMMA RivalBeginsCross ==
  ASSUME Inv, NEW r \in Rivals, NEW says \in Languages \cup {Unsaid}, RivalBegins(r, says)
  PROVE  CrossInv'
<1> DEFINE new == [NoRival EXCEPT !.at = "begun", !.says = says, !.spoke = speaks, !.alone = Quiet]
<1>0. TypeInv /\ MemoryOK /\ CrossInv /\ turn \in TurnType
  BY DEF Inv, TypeInv, TurnOK
<1>1. /\ others[r].at = "gone" /\ others' = [Crossed EXCEPT ![r] = new] /\ stored' = stored /\ node' = node
      /\ turn' = IF InFlight
                 THEN [turn EXCEPT !.alone = FALSE, !.spoke.kept = @ /\ node \notin {"to_english", "load"}]
                 ELSE turn
  BY DEF RivalBegins
<1>2. speaks' = [lang |-> Language(says, speaks.lang), kept |-> FALSE]
  BY <1>0, ArrivalIs DEF RivalBegins
<1>3. new.at = "begun" /\ new.says = says /\ new.spoke = speaks /\ new.alone = Quiet
  BY DEF NoRival
<1> HIDE DEF new
<1>4. /\ others'[r] = new
      /\ \A q \in Rivals \ {r} : others'[q] = Crossed[q] /\ ~others'[q].alone /\ (Crossing(q)' <=> Crossing(q))
  BY <1>0, <1>1, CrossedIs DEF Crossing
<1>5. InFlight' = InFlight
  BY <1>1 DEF InFlight
<1>6. TurnCrossOK'
  <2>1. CASE InFlight
    <3>1. /\ turn'.alone = FALSE /\ turn'.msg = turn.msg /\ turn'.lang = turn.lang /\ turn'.found = turn.found
          /\ turn'.spoke.lang = turn.spoke.lang
          /\ turn'.spoke.kept = (turn.spoke.kept /\ node \notin {"to_english", "load"})
      BY <1>0, <1>1, <2>1 DEF TurnType, SpokeType
    <3>2. node \notin Fresh \cup {"idle"} =>
            /\ turn.lang = Language(Says(turn.msg), turn.found)
            /\ turn.spoke.kept => turn.found = turn.spoke.lang
      BY <1>0 DEF CrossInv, TurnCrossOK
    <3>3. QED
      BY <1>1, <1>5, <2>1, <3>1, <3>2 DEF TurnCrossOK, Fresh
  <2>2. CASE ~InFlight
    <3>1. node \notin Fresh /\ node' = node /\ turn' = turn /\ ~InFlight'
      BY <1>1, <1>5, <2>2 DEF InFlight, Fresh
    <3>2. QED
      BY <1>0, <3>1 DEF CrossInv, TurnCrossOK
  <2>3. QED
    BY <2>1, <2>2
<1>7. ASSUME NEW q \in Rivals PROVE RivalOK(q)'
  <2>1. CASE q # r
    BY <1>4, <2>1 DEF RivalOK
  <2>2. CASE q = r
    <3>1. ASSUME Quiet PROVE RivalOK(r)'
      <4>1. ~InFlight' /\ \A p \in Rivals : Crossing(p)' => p = r
        BY <1>4, <1>5, <3>1 DEF Quiet
      <4>2. speaks'.lang = Language(others'[r].says, others'[r].spoke.lang)
        BY <1>2, <1>3, <1>4
      <4>3. others'[r].spoke.kept => stored' = others'[r].spoke.lang
        BY <1>0, <1>1, <1>3, <1>4 DEF CrossInv
      <4>4. others'[r].at = "begun"
        BY <1>3, <1>4
      <4>5. QED
        BY <4>1, <4>2, <4>3, <4>4 DEF RivalOK
    <3>2. ASSUME ~Quiet PROVE RivalOK(r)'
      BY <1>3, <1>4, <3>2 DEF RivalOK
    <3>3. QED
      BY <2>2, <3>1, <3>2
  <2>3. QED
    BY <2>1, <2>2
<1>8. QED
  BY <1>2, <1>6, <1>7 DEF CrossInv

(* Another turn goes on, and may still store a language. *)
LEMMA RivalGoesCross ==
  ASSUME MemoryOK, CrossInv, UNCHANGED <<node, turn, stored, speaks>>, NEW r \in Rivals, NEW o \in RivalType,
         others' = [others EXCEPT ![r] = o], Crossing(r), o.at \in {"loaded", "pinned"},
         o.says = others[r].says, o.spoke = others[r].spoke, o.alone = others[r].alone,
         o.found = IF others[r].at = "begun" THEN stored ELSE others[r].found
  PROVE  CrossInv'
<1>1. others'[r] = o /\ \A q \in Rivals \ {r} : others'[q] = others[q]
  BY DEF MemoryOK
<1>2. \A q \in Rivals : Crossing(q)' <=> Crossing(q)
  BY <1>1 DEF Crossing
<1>3. InFlight' = InFlight /\ NoneCrosses' = NoneCrosses /\ (Quiet' <=> Quiet)
  BY <1>2 DEF InFlight, NoneCrosses, Quiet
<1>4. TurnCrossOK'
  BY <1>3 DEF CrossInv, TurnCrossOK, Expected
<1>5. ASSUME NEW q \in Rivals, q # r PROVE RivalOK(q)'
  BY <1>1, <1>2, <1>3, <1>5 DEF CrossInv, RivalOK
<1>6. RivalOK(r)'
  <2>1. SUFFICES ASSUME o.alone PROVE RivalOK(r)'
    BY <1>1 DEF RivalOK
  <2>2. /\ ~InFlight /\ \A q \in Rivals : Crossing(q) => q = r
        /\ speaks.lang = Language(others[r].says, others[r].spoke.lang)
        /\ others[r].at = "begun" /\ others[r].spoke.kept => stored = others[r].spoke.lang
        /\ others[r].at # "begun" =>
             /\ stored = others[r].found
             /\ others[r].spoke.kept => others[r].found = others[r].spoke.lang
    BY <2>1 DEF CrossInv, RivalOK
  <2>3. stored = o.found /\ (o.spoke.kept => o.found = o.spoke.lang) /\ o.at # "begun"
    BY <2>2
  <2>4. ~InFlight' /\ \A q \in Rivals : Crossing(q)' => q = r
    BY <1>2, <1>3, <2>2
  <2>5. speaks'.lang = Language(others'[r].says, others'[r].spoke.lang)
    BY <1>1, <2>2
  <2>6. QED
    BY <1>1, <2>3, <2>4, <2>5 DEF RivalOK
<1>7. QED
  BY <1>3, <1>4, <1>5, <1>6 DEF CrossInv

(* Another turn ends. *)
LEMMA RivalLeavesCross ==
  ASSUME MemoryOK, CrossInv, UNCHANGED <<node, turn, stored, speaks>>, NEW r \in Rivals,
         others' = [others EXCEPT ![r] = NoRival]
  PROVE  CrossInv'
<1>1. others'[r] = NoRival /\ \A q \in Rivals \ {r} : others'[q] = others[q]
  BY DEF MemoryOK
<1>2. ~Crossing(r)' /\ \A q \in Rivals \ {r} : Crossing(q)' <=> Crossing(q)
  BY <1>1 DEF Crossing, NoRival
<1>3. InFlight' = InFlight /\ (NoneCrosses => NoneCrosses') /\ (Quiet => Quiet')
  BY <1>2 DEF InFlight, NoneCrosses, Quiet
<1>4. TurnCrossOK'
  BY <1>3 DEF CrossInv, TurnCrossOK, Expected
<1>5. ASSUME NEW q \in Rivals, q # r PROVE RivalOK(q)'
  BY <1>1, <1>2, <1>3, <1>5 DEF CrossInv, RivalOK
<1>6. RivalOK(r)'
  BY <1>2 DEF RivalOK
<1>7. QED
  BY <1>3, <1>4, <1>5, <1>6 DEF CrossInv

(* Another turn stores its language: sure only if no turn was beside it.   *)
LEMMA RivalStoresCross ==
  ASSUME Inv, NEW r \in Rivals, RivalStores(r)
  PROVE  CrossInv'
<1> DEFINE o    == others[r]
           lang == Language(o.says, o.found)
<1>0. MemoryOK /\ CrossInv /\ speaks \in SpokeType
  BY DEF Inv, TypeInv, HistoryOK
<1>1. /\ others[r].at = "pinned" /\ others' = [others EXCEPT ![r] = [o EXCEPT !.at = "stored", !.alone = FALSE]]
      /\ \/ /\ stored' = IF lang # o.found THEN lang ELSE stored
            /\ speaks' = [speaks EXCEPT !.kept = Kept(o.says, o.spoke, o.alone)]
         \/ UNCHANGED <<stored, speaks>>
      /\ UNCHANGED <<node, turn>>
  BY DEF RivalStores, Advance
<1>2. others[r] \in RivalType
  BY <1>0 DEF MemoryOK
<1>3. others'[r].at = "stored" /\ \A q \in Rivals \ {r} : others'[q] = others[q]
  BY <1>0, <1>1, <1>2 DEF MemoryOK, RivalType
<1>4. Crossing(r) /\ ~Crossing(r)' /\ \A q \in Rivals \ {r} : Crossing(q)' <=> Crossing(q)
  BY <1>1, <1>3 DEF Crossing
<1>5. ~speaks.kept /\ ~NoneCrosses
  BY <1>0, <1>4 DEF CrossInv, Quiet, NoneCrosses
<1>6. InFlight' = InFlight
  BY <1>1 DEF InFlight
<1>7. TurnCrossOK'
  BY <1>0, <1>1, <1>5, <1>6 DEF CrossInv, TurnCrossOK
<1>8. ASSUME NEW q \in Rivals PROVE RivalOK(q)'
  BY <1>0, <1>3, <1>4 DEF CrossInv, RivalOK
<1>9. speaks'.kept => Quiet' /\ stored' = speaks'.lang
  <2>1. CASE UNCHANGED <<stored, speaks>>
    BY <1>5, <2>1
  <2>2. CASE /\ stored' = IF lang # o.found THEN lang ELSE stored
             /\ speaks' = [speaks EXCEPT !.kept = Kept(o.says, o.spoke, o.alone)]
    <3>1. speaks'.lang = speaks.lang /\ speaks'.kept = Kept(o.says, o.spoke, o.alone)
      BY <1>0, <2>2 DEF SpokeType
    <3>2. SUFFICES ASSUME o.alone, o.says # Unsaid \/ o.spoke.kept PROVE Quiet' /\ stored' = speaks'.lang
      BY <3>1 DEF Kept
    <3>3. /\ ~InFlight /\ \A q \in Rivals : Crossing(q) => q = r
          /\ speaks.lang = Language(o.says, o.spoke.lang) /\ stored = o.found
          /\ o.spoke.kept => o.found = o.spoke.lang
      BY <1>0, <1>1, <1>4, <3>2 DEF CrossInv, RivalOK
    <3>4. speaks.lang = lang
      BY <3>2, <3>3 DEF Language
    <3>5. Quiet'
      BY <1>4, <1>6, <3>3 DEF Quiet
    <3>6. QED
      BY <2>2, <3>1, <3>3, <3>4, <3>5
  <2>3. QED
    BY <1>1, <2>1, <2>2
<1>10. QED
  BY <1>7, <1>8, <1>9 DEF CrossInv

LEMMA RivalBeginsAside == ASSUME Inv, NEW r \in Rivals, NEW m \in Messages, RivalBegins(r, Says(m)) PROVE Aside
<1> DEFINE says == Says(m)
           new  == [NoRival EXCEPT !.at = "begun", !.says = says, !.spoke = speaks, !.alone = Quiet]
<1>0. TypeInv /\ MemoryOK /\ HistoryOK /\ turn \in TurnType /\ speaks \in SpokeType
  BY DEF Inv, TypeInv, TurnOK, HistoryOK
<1>1. says \in Languages \cup {Unsaid}
  BY SaysIs
<1>2. /\ speaks' \in SpokeType /\ pushed'.excused
      /\ count' \in [turns: Nat, edits: Nat, faults: Nat, steps: Nat]
  BY <1>0, <1>1, ArrivalIs DEF RivalBegins
<1>3. /\ others' = [Crossed EXCEPT ![r] = new]
      /\ turn' = IF InFlight
                 THEN [turn EXCEPT !.alone = FALSE, !.spoke.kept = @ /\ node \notin {"to_english", "load"}]
                 ELSE turn
      /\ UNCHANGED <<world, pin, stored, cache, node, thoughts, reply, shown, owed>>
  BY DEF RivalBegins
<1>4. new \in RivalType
  <2>1. NoRival \in RivalType /\ Quiet \in BOOLEAN
    BY NoRivalIs DEF Quiet
  <2>2. new.at = "begun" /\ new.says = says /\ new.spoke = speaks /\ new.alone = Quiet
    BY DEF NoRival
  <2>3. QED
    BY <1>0, <1>1, <2>1 DEF RivalType
<1> HIDE DEF new, says
<1>5. MemoryOK' /\ HistoryOK'
  <2>1. others' \in [Rivals -> RivalType]
    BY <1>0, <1>3, <1>4, CrossedIs
  <2>2. QED
    BY <1>0, <1>2, <1>3, <2>1 DEF MemoryOK, HistoryOK
<1>6. TurnOK' /\ Alike(turn, turn') /\ turn'.english = turn.english /\ turn'.shortcut = turn.shortcut
  <2>1. CASE InFlight
    <3>1. (turn.spoke.kept /\ node \notin {"to_english", "load"}) \in BOOLEAN
      OBVIOUS
    <3>2. turn' = [turn EXCEPT !.alone = FALSE, !.spoke.kept = @ /\ node \notin {"to_english", "load"}]
      BY <1>3, <2>1
    <3>3. turn' \in TurnType
      BY <1>0, <3>1, <3>2 DEF TurnType, SpokeType
    <3>4. Alike(turn, turn') /\ turn'.english = turn.english /\ turn'.shortcut = turn.shortcut
      BY <1>0, <3>2 DEF TurnType, Alike
    <3>5. QED
      BY <1>2, <3>3, <3>4 DEF TurnOK
  <2>2. CASE ~InFlight
    <3>1. turn' = turn
      BY <1>3, <2>2
    <3>2. QED
      BY <1>0, <1>2, <3>1 DEF TurnOK, Alike
  <2>3. QED
    BY <2>1, <2>2
<1>7. CrossInv'
  BY <1>1, RivalBeginsCross DEF says
<1>8. QED
  BY <1>2, <1>3, <1>5, <1>6, <1>7, AsideIs

(* It loads, or pins a job or none: a tight pin is owed.                   *)
LEMMA RivalGoesAside ==
  ASSUME Inv, NEW r \in Rivals,
         RivalLoads(r) \/ RivalPinsNone(r) \/ (\E j \in Jobs, loose \in BOOLEAN : RivalPins(r, j, loose))
  PROVE  Aside
<1>0. TypeInv /\ MemoryOK /\ HistoryOK /\ CrossInv /\ others[r] \in RivalType /\ stored \in Languages
  BY DEF Inv, TypeInv, MemoryOK
<1>1. UNCHANGED <<world, stored, cache, node, turn, thoughts, reply, pushed, shown, speaks, count>>
  BY DEF RivalLoads, RivalPinsNone, RivalPins, history
<1>2. ASSUME NEW o \in RivalType, others' = [others EXCEPT ![r] = o], Crossing(r), o.at \in {"loaded", "pinned"},
             o.says = others[r].says, o.spoke = others[r].spoke, o.alone = others[r].alone,
             o.found = IF others[r].at = "begun" THEN stored ELSE others[r].found,
             pin' \in PinType, pin' = pin \/ PinOK(pin)', owed' \in SUBSET Jobs, owed \subseteq owed'
      PROVE  Aside
  <2>1. CrossInv'
    BY <1>0, <1>1, <1>2, RivalGoesCross
  <2>2. MemoryOK' /\ HistoryOK'
    BY <1>0, <1>1, <1>2 DEF MemoryOK, HistoryOK
  <2>3. TurnOK' /\ Alike(turn, turn') /\ turn'.english = turn.english /\ turn'.shortcut = turn.shortcut
    BY <1>0, <1>1, TurnStays
  <2>4. ~pushed'.excused => pushed'.left = {} /\ pushed'.lang = pushed'.expected
    BY <1>1, PushedIs
  <2>5. \A j \in shown \cup owed : j # NoJob => j \in shown' \cup owed'
    BY <1>1, <1>2
  <2>6. QED
    BY <1>1, <1>2, <2>1, <2>2, <2>3, <2>4, <2>5, AsideIs
<1>3. CASE RivalLoads(r)
  <2> DEFINE o == [others[r] EXCEPT !.at = "loaded", !.found = stored]
  <2>1. others[r].at = "begun" /\ others' = [others EXCEPT ![r] = o] /\ UNCHANGED <<pin, owed>>
    BY <1>3 DEF RivalLoads, Advance, history
  <2>2. /\ o \in RivalType /\ o.at = "loaded" /\ o.says = others[r].says /\ o.spoke = others[r].spoke
        /\ o.alone = others[r].alone /\ o.found = stored
    BY <1>0 DEF RivalType
  <2> HIDE DEF o
  <2>3. Crossing(r) /\ pin \in PinType /\ owed \in SUBSET Jobs
    BY <1>0, <2>1 DEF Crossing, MemoryOK, HistoryOK
  <2>4. QED
    BY <1>2, <2>1, <2>2, <2>3
<1>4. CASE RivalPinsNone(r)
  <2> DEFINE o == [others[r] EXCEPT !.at = "pinned"]
  <2>1. others[r].at = "loaded" /\ others' = [others EXCEPT ![r] = o] /\ UNCHANGED <<pin, owed>>
    BY <1>4 DEF RivalPinsNone, Advance, history
  <2>2. /\ o \in RivalType /\ o.at = "pinned" /\ o.says = others[r].says /\ o.spoke = others[r].spoke
        /\ o.alone = others[r].alone /\ o.found = others[r].found
    BY <1>0 DEF RivalType
  <2> HIDE DEF o
  <2>3. Crossing(r) /\ pin \in PinType /\ owed \in SUBSET Jobs
    BY <1>0, <2>1 DEF Crossing, MemoryOK, HistoryOK
  <2>4. QED
    BY <1>2, <2>1, <2>2, <2>3
<1>5. ASSUME NEW j \in Jobs, NEW loose \in BOOLEAN, RivalPins(r, j, loose) PROVE Aside
  <2> DEFINE o == [others[r] EXCEPT !.at = "pinned", !.job = IF loose THEN NoJob ELSE j]
  <2>1. /\ others[r].at = "loaded" /\ others' = [others EXCEPT ![r] = o]
        /\ pin' = [job |-> j, loose |-> loose] /\ owed' = IF loose THEN owed ELSE owed \cup {j}
    BY <1>5 DEF RivalPins, Advance
  <2>2. /\ o \in RivalType /\ o.at = "pinned" /\ o.says = others[r].says /\ o.spoke = others[r].spoke
        /\ o.alone = others[r].alone /\ o.found = others[r].found
    BY <1>0 DEF RivalType
  <2> HIDE DEF o
  <2>3. Crossing(r) /\ pin' \in PinType /\ owed' \in SUBSET Jobs /\ owed \subseteq owed'
    BY <1>0, <2>1 DEF Crossing, PinType, HistoryOK
  <2>4. PinOK(pin)'
    BY <2>1 DEF PinOK
  <2>5. QED
    BY <1>2, <2>1, <2>2, <2>3, <2>4
<1>6. QED
  BY <1>3, <1>4, <1>5

(* It translates, stores its language, sends its reply or loses it.        *)
LEMMA RivalEndsAside ==
  ASSUME Inv, NEW r \in Rivals,
         \/ \E x \in Fixed \ Glossary : RivalTranslates(r, x)
         \/ RivalStores(r) \/ RivalSends(r) \/ RivalDies(r)
  PROVE  Aside
<1>0. /\ TypeInv /\ MemoryOK /\ HistoryOK /\ CrossInv /\ others[r] \in RivalType
      /\ cache \in [Fixed \X Languages -> {"nothing", "translation"}]
  BY DEF Inv, TypeInv, MemoryOK
<1>1. UNCHANGED <<world, pin, node, turn, thoughts, reply, pushed>>
  BY DEF RivalTranslates, RivalStores, RivalSends, RivalDies, history
<1>2. ASSUME CrossInv', MemoryOK', HistoryOK', Mishap \/ UNCHANGED count,
             \A j \in shown \cup owed : j # NoJob => j \in shown' \cup owed'
      PROVE  Aside
  <2>1. TurnOK' /\ Alike(turn, turn') /\ turn'.english = turn.english /\ turn'.shortcut = turn.shortcut
    BY <1>0, <1>1, <1>2, TurnStays
  <2>2. ~pushed'.excused => pushed'.left = {} /\ pushed'.lang = pushed'.expected
    BY <1>1, PushedIs
  <2>3. QED
    BY <1>1, <1>2, <2>1, <2>2, AsideIs
<1>3. ASSUME NEW x \in Fixed \ Glossary, RivalTranslates(r, x) PROVE Aside
  <2> DEFINE lang == Language(others[r].says, others[r].found)
  <2>1. cache' = Cached(cache, {x}, lang, {x}) /\ UNCHANGED <<stored, others, shown, speaks, owed, count>>
    BY <1>3 DEF RivalTranslates, history
  <2>2. cache' \in [Fixed \X Languages -> {"nothing", "translation"}]
    BY <1>0, <2>1, CachedIs
  <2>3. MemoryOK' /\ HistoryOK'
    BY <1>0, <1>1, <2>1, <2>2 DEF MemoryOK, HistoryOK
  <2>4. CrossInv'
    BY <1>0, <1>1, <2>1, CrossSame
  <2>5. QED
    BY <1>2, <2>1, <2>3, <2>4
<1>4. CASE RivalStores(r)
  <2> DEFINE lang == Language(others[r].says, others[r].found)
             o    == [others[r] EXCEPT !.at = "stored", !.alone = FALSE]
  <2>1. /\ others' = [others EXCEPT ![r] = o]
        /\ \/ /\ stored' = IF lang # others[r].found THEN lang ELSE stored
              /\ speaks' = [speaks EXCEPT !.kept = Kept(others[r].says, others[r].spoke, others[r].alone)]
              /\ UNCHANGED count
           \/ UNCHANGED <<stored, speaks>> /\ Mishap
        /\ UNCHANGED <<cache, shown, owed>>
    BY <1>4 DEF RivalStores, Advance
  <2>2. o \in RivalType
    BY <1>0 DEF RivalType
  <2>3. lang \in Languages
    BY <1>0 DEF RivalType, Language
  <2>4. stored \in Languages /\ speaks \in SpokeType
    BY <1>0 DEF MemoryOK, HistoryOK
  <2>5. stored' \in Languages
    BY <2>1, <2>3, <2>4
  <2>6. Kept(others[r].says, others[r].spoke, others[r].alone) \in BOOLEAN
    BY <1>0 DEF Kept, RivalType
  <2>7. speaks' \in SpokeType
    BY <2>1, <2>4, <2>6 DEF SpokeType
  <2> HIDE DEF o, lang
  <2>8. MemoryOK' /\ HistoryOK'
    BY <1>0, <1>1, <2>1, <2>2, <2>5, <2>7 DEF MemoryOK, HistoryOK
  <2>9. CrossInv'
    BY <1>4, RivalStoresCross
  <2>10. Mishap \/ UNCHANGED count
    BY <2>1
  <2>11. QED
    BY <1>2, <2>1, <2>8, <2>9, <2>10
<1>5. CASE RivalSends(r) \/ RivalDies(r)
  <2>1. /\ others' = [others EXCEPT ![r] = NoRival]
        /\ UNCHANGED <<stored, cache, speaks>> /\ (Mishap \/ UNCHANGED count)
        /\ \/ UNCHANGED <<shown, owed>>
           \/ shown' = shown \cup ({others[r].job} \ {NoJob}) /\ owed' = owed \ {others[r].job}
    BY <1>5 DEF RivalSends, RivalDies, Advance, history
  <2>2. others[r].job \in Jobs \cup {NoJob}
    BY <1>0 DEF RivalType
  <2>3. MemoryOK' /\ HistoryOK'
    BY <1>0, <1>1, <2>1, <2>2, NoRivalIs DEF MemoryOK, HistoryOK
  <2>4. CrossInv'
    BY <1>0, <1>1, <2>1, RivalLeavesCross
  <2>5. \A j \in shown \cup owed : j # NoJob => j \in shown' \cup owed'
    BY <2>1
  <2>6. QED
    BY <1>2, <2>1, <2>3, <2>4, <2>5
<1>6. QED
  BY <1>3, <1>4, <1>5

-----------------------------------------------------------------------------
(* Every step has one of the shapes, so the invariant holds of every state *)

LEMMA RivalsAside == ASSUME Inv, NEW r \in Rivals, RivalSteps(r) PROVE Aside
<1>1. CASE \E m \in Messages : RivalBegins(r, Says(m))
  BY <1>1, RivalBeginsAside
<1>2. CASE RivalLoads(r) \/ RivalPinsNone(r) \/ (\E j \in Jobs, loose \in BOOLEAN : RivalPins(r, j, loose))
  BY <1>2, RivalGoesAside
<1>3. CASE \/ \E x \in Fixed \ Glossary : RivalTranslates(r, x)
           \/ RivalStores(r) \/ RivalSends(r) \/ RivalDies(r)
  BY <1>3, RivalEndsAside
<1>4. QED
  BY <1>1, <1>2, <1>3 DEF RivalSteps

LEMMA NextShapes == ASSUME Inv, Next PROVE Shapes
<1>1. CASE ToEnglish \/ ToEnglishFails
  BY <1>1, ToEnglishSteps DEF Shapes
<1>2. CASE PlanFollowup \/ PlanModel
  BY <1>2, PlanSteps DEF Shapes
<1>3. CASE Reflect
  BY <1>3, ReflectSteps DEF Shapes
<1>4. CASE LoadContext \/ Persist \/ Localize \/ Remember
  BY <1>4 DEF Shapes, Ends
<1>5. CASE Deliver \/ Die
  BY <1>5, DeliverSteps, DieSteps DEF Shapes, Ends
<1>6. CASE Turn
  BY <1>1, <1>2, <1>3, <1>4, <1>5, <1>6, MenuSteps, RecommendSteps, BrowseSteps, ExecuteSteps, RespondSteps
     DEF Turn
<1>7. CASE (\E k \in DOMAIN cache : Evict(k)) \/ Unpin \/ Push \/ (\E r \in Rivals : RivalSteps(r))
  BY <1>7, UnpinSteps, PushSteps, RivalsAside DEF Shapes, Around
<1>8. CASE \/ \E m \in Messages : Begin(m)
           \/ \E j \in Jobs, status \in Statuses : Edit(j, [board[j] EXCEPT !.status = status])
           \/ \E j \in Jobs, pay \in Pays : Edit(j, [board[j] EXCEPT !.pay = pay])
           \/ \E a \in Applications : ApplyElsewhere(a)
  BY <1>8 DEF Shapes, Around
<1>9. QED
  BY <1>6, <1>7, <1>8 DEF Next

LEMMA StutterIsAside == ASSUME Inv, UNCHANGED vars PROVE Aside
<1>0. TypeInv /\ MemoryOK /\ HistoryOK /\ CrossInv
  BY DEF Inv, TypeInv
<1>1. /\ UNCHANGED <<world, node, thoughts, reply>> /\ UNCHANGED <<turn, count>>
      /\ UNCHANGED <<pin, stored, cache, others, pushed, shown, speaks, owed>>
  BY DEF vars, memory, history
<1>2. MemoryOK' /\ HistoryOK'
  BY <1>0, <1>1 DEF MemoryOK, HistoryOK
<1>3. CrossInv'
  BY <1>0, <1>1, CrossSame
<1>4. TurnOK' /\ Alike(turn, turn') /\ turn'.english = turn.english /\ turn'.shortcut = turn.shortcut
  BY <1>0, <1>1, TurnStays
<1>5. QED
  BY <1>1, <1>2, <1>3, <1>4, PushedIs, AsideIs

(* The inductive invariant. *)
THEOREM Invariance == Spec => []Inv
<1>1. Inv /\ [Next]_vars => Inv'
  BY NextShapes, StutterIsAside, InvShapes, InvAside
<1>2. QED
  BY InitInv, <1>1, PTL DEF Spec

(* Every state of a search turn is one of the types, within the limits of  *)
(* the messages that WhatsApp takes and of the planner's loop, whatever    *)
(* other turns of the sender are under way.                                *)
THEOREM TypeCorrect == Spec => []TypeOK
<1>1. Inv => TypeOK
  <2> SUFFICES ASSUME Inv PROVE TypeOK
    OBVIOUS
  <2>1. TypeInv /\ LanguageInv
    BY DEF Inv
  <2>2. board \in [Jobs -> [status: Statuses, pay: Pays \cup {None}]] /\ applied \subseteq Applications
    BY <2>1 DEF TypeInv, WorldOK, BoardType
  <2>3. /\ pin.job \in Jobs \cup {NoJob} /\ stored \in Languages
        /\ cache \in [Fixed \X Languages -> CacheValues]
        /\ \A r \in Rivals : others[r].found \in Languages /\ others[r].job \in Jobs \cup {NoJob}
    <3>1. MemoryOK
      BY <2>1 DEF TypeInv
    <3>2. \A r \in Rivals : others[r] \in RivalType
      BY <3>1 DEF MemoryOK
    <3>3. QED
      BY <3>1, <3>2 DEF MemoryOK, PinType, RivalType, CacheValues
  <2>4. loops \in {0, 1} \cup 0..MaxLoops /\ Len(plan) <= steps /\ steps <= MaxSteps
    BY <2>1, BoundsAssumption DEF TypeInv, PlanOK
  <2>5. ToSet(catalog) \subseteq [job: Jobs, pay: Pays \cup {None}]
    <3>1. catalog \in Seq(RowType)
      BY <2>1 DEF TypeInv, ReplyOK
    <3>2. \A i \in DOMAIN catalog : catalog[i] \in RowType
      BY <3>1, ElementOfSeq, LenProperties
    <3>3. QED
      BY <3>2 DEF ToSet, RowType
  <2>6. draft.claim \in Claims /\ (draft.text \in {"cards", "list"} => Len(draft.shown) \in 1..CardLimit)
    BY <2>1 DEF TypeInv, ReplyOK, DraftType
  <2>7. shown \subseteq Jobs /\ owed \subseteq Jobs /\ left \subseteq Texts
    BY <2>1 DEF TypeInv, HistoryOK, LanguageInv
  <2>8. QED
    BY <2>2, <2>3, <2>4, <2>5, <2>6, <2>7 DEF TypeOK
<1>2. QED
  BY <1>1, Invariance, PTL

(* What a card, a list or a listing shows was open during the turn, and is *)
(* what was asked for; the cards of a category are of all its jobs that    *)
(* were open all along, or their header counts at least as many: though    *)
(* index, category and rows are read at different moments.                 *)
THEOREM ListingsAreSound == Spec => []ListingSound
<1>1. Inv => ListingSound
  <2> SUFFICES ASSUME Inv, Replies({"cards", "list", "listing"}) PROVE
        /\ JobsOf(draft.shown) \subseteq turn.live
        /\ \A i \in DOMAIN draft.shown : draft.shown[i].pay \in turn.pays
        /\ draft.text = "cards" /\ fact.category # Unasked => Presented(fact.category)
        /\ draft.text = "listing" => \A r \in Listed(results) : Answers(r.call, draft.shown)
    BY DEF ListingSound
  <2>1. DraftOK
    BY DEF Inv, DraftInv, Replies, Answered
  <2>2. Read(turn, draft.shown)
    BY <2>1 DEF DraftOK, Replies
  <2>3. DOMAIN draft.shown = 1..Len(draft.shown)
    <3>1. draft.shown \in Seq(RowType)
      BY DEF Inv, TypeInv, ReplyOK, DraftType
    <3>2. QED
      BY <3>1, LenProperties
  <2>4. JobsOf(draft.shown) \subseteq turn.live /\ \A i \in DOMAIN draft.shown : draft.shown[i].pay \in turn.pays
    BY <2>2, <2>3 DEF Read, JobsOf
  <2>5. draft.text = "cards" /\ fact.category # Unasked => Presented(fact.category)
    BY <2>1 DEF DraftOK, PresentedIn, Presented
  <2>6. \A call, rows : AnswersIn(turn, call, rows) <=> Answers(call, rows)
    BY DEF AnswersIn, Answers, CompleteIn, Complete
  <2>7. draft.text = "listing" => \A r \in Listed(results) : Answers(r.call, draft.shown)
    BY <2>1, <2>6 DEF DraftOK
  <2>8. QED
    BY <2>4, <2>5, <2>7
<1>2. QED
  BY <1>1, Invariance, PTL

(* No reply states a salary or a count, in a form that the validator sees, *)
(* that the board did not have during the turn, or denies the applications *)
(* of a sender who has some.                                               *)
THEOREM RepliesAreTruthful == Spec => []ReplyTruthful
<1>1. Inv => ReplyTruthful
  <2> SUFFICES ASSUME Inv PROVE ReplyTruthful
    OBVIOUS
  <2>1. node = "deliver" => DraftOK
    BY DEF Inv, DraftInv, Answered
  <2>2. HeldIn(turn, results, draft.claim) => Held(draft.claim)
    BY DEF HeldIn, Held
  <2>3. QED
    BY <2>1, <2>2 DEF ReplyTruthful, Replies, DraftOK
<1>2. QED
  BY <1>1, Invariance, PTL

(* A link that answers a "yes" is for a job that is open and that a reply  *)
(* has shown, however turns overlap, unless that reply was lost or is      *)
(* still on its way, or the turn that pinned it may tell of another job.   *)
THEOREM LinksAreOfShown == Spec => []AppliesToShown
<1>1. Inv => AppliesToShown
  <2> SUFFICES ASSUME Inv, Replies({"link"}), turn.shortcut, NEW j \in JobsOf(draft.shown)
               PROVE  /\ j \in turn.live
                      /\ Slug[j] \in {Slug[k] : k \in shown} \/ turn.pin.loose \/ turn.pin.job \in owed
    BY DEF AppliesToShown
  <2>1. DraftOK /\ draft.text = "link"
    BY DEF Inv, DraftInv, Replies, Answered
  <2>2. j \in turn.live /\ Slug[j] = Slug[turn.pin.job]
    BY <2>1 DEF DraftOK
  <2>3. turn.pin.job # NoJob
    BY DEF Inv, ShortcutInv
  <2>4. turn.pin.loose \/ turn.pin.job \in shown \cup owed
    BY <2>3 DEF Inv, PinInv, PinOK
  <2>5. QED
    BY <2>2, <2>4
<1>2. QED
  BY <1>1, Invariance, PTL

(* A reply is in the language that the sender used last, and so is what is *)
(* sent out of band, unless storing it failed or was overtaken by another  *)
(* turn; what stays English does because the model failed in this very     *)
(* turn.                                                                   *)
THEOREM LanguageIsFollowed == Spec => []SpeaksTheirLanguage
<1>1. Inv => SpeaksTheirLanguage
  <2> SUFFICES ASSUME Inv PROVE SpeaksTheirLanguage
    OBVIOUS
  <2>1. CrossInv /\ LanguageInv
    BY DEF Inv
  <2>2. ASSUME node = "deliver", turn.spoke.kept PROVE turn.lang = Expected
    <3>1. node \notin Fresh \cup {"idle"}
      BY <2>2 DEF Fresh
    <3>2. turn.lang = Language(Says(turn.msg), turn.found) /\ turn.found = turn.spoke.lang
      BY <2>1, <2>2, <3>1 DEF CrossInv, TurnCrossOK
    <3>3. QED
      BY <3>2 DEF Expected
  <2>3. QED
    BY <2>1, <2>2 DEF LanguageInv, SpeaksTheirLanguage
<1>2. QED
  BY <1>1, Invariance, PTL
=============================================================================
