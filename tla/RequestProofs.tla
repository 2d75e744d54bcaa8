---------------------------- MODULE RequestProofs ----------------------------
(* What a request can rely on, for every value of the constants: the answer *)
(* of a search (Search), the results of a pipeline (Pipeline), the chain of *)
(* the gateway it passes through (Gateway) and the filter that is read from *)
(* its text (FilterParser).                                                 *)
EXTENDS Search, Pipeline, Gateway, FilterParser, SequenceTheorems, FiniteSetTheorems,
        WellFoundedInduction, TLAPS

-----------------------------------------------------------------------------
(* Places in an order.                                                     *)

Below(x, S, R) == {y \in S : <<y, x>> \in R}

StrictOrder(S, R) ==
    /\ \A x \in S : <<x, x>> \notin R
    /\ \A x, y, z \in S : <<x, y>> \in R /\ <<y, z>> \in R => <<x, z>> \in R
    /\ \A x, y \in S : x = y \/ <<x, y>> \in R \/ <<y, x>> \in R

\* In a strict order of a finite set every place is taken, by one member.
LEMMA PlacesTaken ==
    ASSUME NEW S, IsFiniteSet(S), NEW R, StrictOrder(S, R)
    PROVE  /\ Cardinality(S) \in Nat
           /\ \A x \in S : Cardinality(Below(x, S, R)) \in 0..(Cardinality(S) - 1)
           /\ \A x, y \in S : <<x, y>> \in R <=>
                  Cardinality(Below(x, S, R)) < Cardinality(Below(y, S, R))
           /\ \A k \in 1..Cardinality(S) : \E x \in S : Cardinality(Below(x, S, R)) = k - 1
<1> DEFINE P(x) == Cardinality(Below(x, S, R))
<1>1. Cardinality(S) \in Nat
  BY FS_CardinalityType
<1>2. ASSUME NEW x \in S PROVE IsFiniteSet(Below(x, S, R)) /\ P(x) \in Nat
  <2>1. Below(x, S, R) \in SUBSET S
    BY DEF Below
  <2>2. IsFiniteSet(Below(x, S, R))
    BY <2>1, FS_Subset
  <2> QED
    BY <2>2, FS_CardinalityType
<1>3. ASSUME NEW x \in S, NEW T, IsFiniteSet(T), Below(x, S, R) \subseteq T, x \in T
      PROVE  P(x) < Cardinality(T)
  <2>1. Below(x, S, R) \in SUBSET T /\ Below(x, S, R) # T
    BY <1>3 DEF Below, StrictOrder
  <2>2. P(x) <= Cardinality(T) /\ P(x) # Cardinality(T)
    BY <1>3, <2>1, FS_Subset
  <2>3. P(x) \in Nat /\ Cardinality(T) \in Nat
    BY <1>2, <1>3, FS_CardinalityType
  <2> QED
    BY <2>2, <2>3
<1>4. \A x \in S : P(x) \in 0..(Cardinality(S) - 1)
  <2> TAKE x \in S
  <2>1. P(x) < Cardinality(S)
    BY <1>3 DEF Below
  <2> QED
    BY <1>1, <1>2, <2>1
<1>5. ASSUME NEW x \in S, NEW y \in S, <<x, y>> \in R PROVE P(x) < P(y)
  <2>1. Below(x, S, R) \subseteq Below(y, S, R) /\ x \in Below(y, S, R)
    BY <1>5 DEF Below, StrictOrder
  <2> QED
    BY <1>2, <1>3, <2>1
<1>6. \A x, y \in S : <<x, y>> \in R <=> P(x) < P(y)
  <2> TAKE x, y \in S
  <2>1. P(x) \in Nat /\ P(y) \in Nat
    BY <1>2
  <2>2. CASE <<x, y>> \in R
    BY <1>5, <2>2
  <2>3. CASE <<y, x>> \in R
    <3>1. P(y) < P(x)
      BY <1>5, <2>3
    <3>2. <<x, y>> \notin R
      BY <2>3 DEF StrictOrder
    <3> QED
      BY <2>1, <3>1, <3>2
  <2>4. CASE x = y
    <3>1. <<x, y>> \notin R
      BY <2>4 DEF StrictOrder
    <3> QED
      BY <2>1, <2>4, <3>1
  <2> QED
    BY <2>2, <2>3, <2>4 DEF StrictOrder
<1>7. \A k \in 1..Cardinality(S) : \E x \in S : P(x) = k - 1
  <2> DEFINE f == [x \in S |-> P(x)]
             T == 0..(Cardinality(S) - 1)
  <2>1. f \in [S -> T] /\ DOMAIN f = S /\ \A x \in S : f[x] = P(x)
    BY <1>4
  <2>2. \A x, y \in S : f[x] = f[y] => x = y
    <3> TAKE x, y \in S
    <3>1. P(x) \in Nat /\ P(y) \in Nat
      BY <1>2
    <3>2. <<x, y>> \in R => P(x) < P(y)
      BY <1>6
    <3>3. <<y, x>> \in R => P(y) < P(x)
      BY <1>6
    <3>4. x = y \/ <<x, y>> \in R \/ <<y, x>> \in R
      BY DEF StrictOrder
    <3> QED
      BY <2>1, <3>1, <3>2, <3>3, <3>4
  <2>3. IsFiniteSet(T) /\ Cardinality(T) = Cardinality(S)
    BY <1>1, FS_Interval
  <2> HIDE DEF f, T
  <2>4. f \in Injection(S, T)
    BY <2>1, <2>2 DEF Injection, IsInjective
  <2>5. f \in Surjection(S, T)
    BY <2>3, <2>4, FS_Injection
  <2>6. \A t \in T : \E x \in S : f[x] = t
    BY <2>5 DEF Surjection
  <2> TAKE k \in 1..Cardinality(S)
  <2>7. k - 1 \in T
    BY <1>1 DEF T
  <2> QED
    BY <2>1, <2>6, <2>7
<1> QED
  BY <1>1, <1>4, <1>6, <1>7

\* The image of a finite set, and its size when nothing falls together.
LEMMA ImageCount ==
    ASSUME NEW S, IsFiniteSet(S), NEW f, f = [x \in S |-> f[x]],
           NEW T, T = {f[x] : x \in S}
    PROVE  /\ IsFiniteSet(T) /\ Cardinality(T) \in Nat
           /\ (\A x, y \in S : f[x] = f[y] => x = y) => Cardinality(T) = Cardinality(S)
<1>1. f \in Surjection(S, T) /\ DOMAIN f = S
  BY DEF Surjection
<1>2. /\ IsFiniteSet(T)
      /\ Cardinality(T) = Cardinality(S) <=> f \in Injection(S, T)
  BY <1>1, FS_Surjection
<1>3. ASSUME \A x, y \in S : f[x] = f[y] => x = y
      PROVE  f \in Injection(S, T)
  BY <1>1, <1>3 DEF Injection, IsInjective, Surjection
<1> QED
  BY <1>2, <1>3, FS_CardinalityType

LEMMA LesserOne ==
    ASSUME NEW a \in Nat, NEW b \in Nat
    PROVE  Min({a, b}) = IF a <= b THEN a ELSE b
<1>1. PICK m : m = IF a <= b THEN a ELSE b
  OBVIOUS
<1>2. m \in {a, b} /\ \A y \in {a, b} : m <= y
  BY <1>1
<1>3. \A x \in {a, b} : (\A y \in {a, b} : x <= y) => x = m
  BY <1>1, <1>2
<1> QED
  BY <1>1, <1>2, <1>3 DEF Min

-----------------------------------------------------------------------------
(* Ranked lists.                                                           *)

Candidates == [doc : SearchDocs, version : Nat, score : Int]

Precedes(S) == {p \in S \X S : Before(p[1], p[2])}

LEMMA CandidatesOrdered ==
    ASSUME NEW S, S \subseteq Candidates
    PROVE  StrictOrder(S, Precedes(S))
<1>1. \A x \in S : x.doc \in Int /\ x.version \in Int /\ x.score \in Int
  <2>1. SearchDocs \subseteq Int
    BY SearchAssumption DEF SearchAssumption
  <2>2. \A x \in S : x.doc \in SearchDocs /\ x.version \in Nat /\ x.score \in Int
    BY DEF Candidates
  <2> TAKE x \in S
  <2>3. x.doc \in SearchDocs /\ x.version \in Nat /\ x.score \in Int
    BY <2>2
  <2>4. x.doc \in Int
    BY ONLY <2>1, <2>3
  <2>5. x.version \in Int
    BY ONLY <2>3
  <2> QED
    BY ONLY <2>3, <2>4, <2>5
<1>2. \A x, y \in S : <<x, y>> \in Precedes(S) <=> Before(x, y)
  BY DEF Precedes
<1>3. \A x \in S : ~ Before(x, x)
  BY <1>1 DEF Before
<1>4. ASSUME NEW x \in S, NEW y \in S, NEW z \in S, Before(x, y), Before(y, z)
      PROVE  Before(x, z)
  BY <1>1, <1>4 DEF Before
<1>5. ASSUME NEW x \in S, NEW y \in S PROVE x = y \/ Before(x, y) \/ Before(y, x)
  <2>1. CASE x.doc = y.doc /\ x.version = y.version /\ x.score = y.score
    BY <2>1 DEF Candidates
  <2>2. CASE ~ (x.doc = y.doc /\ x.version = y.version /\ x.score = y.score)
    BY <1>1, <2>2 DEF Before
  <2> QED
    BY <2>1, <2>2
<1> QED
  BY <1>2, <1>3, <1>4, <1>5 DEF StrictOrder

InOrder(r) == \A i, j \in DOMAIN r : i < j => Before(r[i], r[j])

LEMMA RankedIs ==
    ASSUME NEW S, IsFiniteSet(S), S \subseteq Candidates, NEW n \in Nat,
           NEW r, r = Ranked(S, n)
    PROVE  /\ r \in Seq(S) /\ Cardinality(S) \in Nat
           /\ Len(r) = IF n <= Cardinality(S) THEN n ELSE Cardinality(S)
           /\ InOrder(r)
           /\ \A i, j \in DOMAIN r : r[i] = r[j] => i = j
<1>1. /\ Cardinality(S) \in Nat
      /\ \A x, y \in S : <<x, y>> \in Precedes(S) <=>
             Cardinality(Below(x, S, Precedes(S))) < Cardinality(Below(y, S, Precedes(S)))
      /\ \A k \in 1..Cardinality(S) : \E x \in S :
             Cardinality(Below(x, S, Precedes(S))) = k - 1
  BY CandidatesOrdered, PlacesTaken
<1>2. \A x \in S : Ahead(x, S) = Cardinality(Below(x, S, Precedes(S)))
  <2> TAKE x \in S
  <2>1. Below(x, S, Precedes(S)) = {b \in S : Before(b, x)}
    BY DEF Below, Precedes
  <2> QED
    BY <2>1 DEF Ahead
<1>3. \A x, y \in S : Before(x, y) <=> Ahead(x, S) < Ahead(y, S)
  BY <1>1, <1>2 DEF Precedes
<1>4. PICK m : m = Min({n, Cardinality(S)})
  OBVIOUS
<1>5. m = (IF n <= Cardinality(S) THEN n ELSE Cardinality(S)) /\ m \in Nat
  BY <1>1, <1>4, LesserOne
<1>6. r = [k \in 1..m |-> CHOOSE c \in S : Ahead(c, S) = k - 1]
  BY <1>4 DEF Ranked
<1>7. ASSUME NEW k \in 1..m PROVE r[k] \in S /\ Ahead(r[k], S) = k - 1
  <2>1. \E c \in S : Ahead(c, S) = k - 1
    BY <1>1, <1>2, <1>5
  <2> QED
    BY <1>6, <2>1
<1>8. r \in Seq(S) /\ Len(r) = m /\ DOMAIN r = 1..m
  <2>1. DOMAIN r = 1..m
    BY <1>6
  <2>2. r \in [1..m -> S]
    BY ONLY <1>6, <1>7, <2>1
  <2> QED
    BY ONLY <1>5, <2>1, <2>2, LenProperties, SeqDef
<1>9. InOrder(r)
  <2> SUFFICES ASSUME NEW i \in 1..m, NEW j \in 1..m, i < j
               PROVE  Before(r[i], r[j])
    BY <1>8 DEF InOrder
  <2>1. i - 1 < j - 1
    BY <1>5
  <2> QED
    BY <1>3, <1>7, <2>1
<1>10. ASSUME NEW i \in 1..m, NEW j \in 1..m, r[i] = r[j] PROVE i = j
  <2>1. i - 1 = j - 1
    BY <1>7, <1>10
  <2> QED
    BY <1>5, <2>1
<1> QED
  BY <1>1, <1>5, <1>8, <1>9, <1>10

-----------------------------------------------------------------------------
(* What is retrieved.                                                      *)

SearchTypes ==
    /\ versions \in [SearchDocs -> Seq(SearchTexts)]
    /\ IsFiniteSet(stored)
    /\ \A e \in stored : e.doc \in SearchDocs /\ e.version \in DOMAIN versions[e.doc]
    /\ clustered \in BOOLEAN
    /\ second \in Nat

\* A version that has been indexed.
Exists(c) == c \in Candidates /\ c.version \in DOMAIN versions[c.doc]

OnePerDoc(S) == \A c, d \in S : c.doc = d.doc => c = d

\* The same of a list.
Listed(r) ==
    /\ r \in Seq(Candidates) /\ InOrder(r)
    /\ \A i \in DOMAIN r : Exists(r[i])

OneEach(r) == \A i, j \in DOMAIN r : r[i].doc = r[j].doc => i = j

LEMMA TextTyped ==
    ASSUME SearchTypes, NEW d \in SearchDocs
    PROVE  /\ \A v \in DOMAIN versions[d] :
                  /\ v \in Nat \ {0}
                  /\ versions[d][v].neural \in Int /\ versions[d][v].keyword \in Int
                  /\ versions[d][v].cred \in Nat
           /\ d \in Indexed =>
                  /\ 1 \in DOMAIN versions[d] /\ Len(versions[d]) \in DOMAIN versions[d]
                  /\ Last(versions[d]) = versions[d][Len(versions[d])]
<1>1. PICK s \in Seq(SearchTexts) : s = versions[d]
  BY DEF SearchTypes
<1>2. Len(s) \in Nat /\ DOMAIN s = 1..Len(s) /\ \A v \in 1..Len(s) : s[v] \in SearchTexts
  BY ONLY <1>1, LenProperties
<1>3. \A x \in SearchTexts : x.neural \in Int /\ x.keyword \in Int /\ x.cred \in Nat
  BY SearchAssumption DEF SearchAssumption
<1>4. \A v \in DOMAIN s :
          /\ v \in Nat \ {0} /\ s[v].neural \in Int /\ s[v].keyword \in Int
          /\ s[v].cred \in Nat
  BY ONLY <1>2, <1>3
<1>5. s # <<>> => 1 \in DOMAIN s /\ Len(s) \in DOMAIN s
  BY ONLY <1>1, <1>2, EmptySeq
<1>6. Last(s) = s[Len(s)]
  BY DEF Last
<1> QED
  BY <1>1, <1>4, <1>5, <1>6 DEF Indexed

\* One candidate for each of some documents.
LEMMA PerDocument ==
    ASSUME SearchTypes, NEW D \in SUBSET SearchDocs,
           NEW f, f = [d \in D |-> f[d]], \A d \in D : Exists(f[d]) /\ f[d].doc = d,
           NEW S, S = {f[d] : d \in D}
    PROVE  /\ IsFiniteSet(S) /\ \A c \in S : Exists(c) /\ c.doc \in D
           /\ OnePerDoc(S) /\ Cardinality(S) = Cardinality(D)
<1>1. IsFiniteSet(SearchDocs)
  BY SearchAssumption DEF SearchAssumption
<1>2. IsFiniteSet(D)
  BY <1>1, FS_Subset
<1>3. \A x, y \in D : f[x] = f[y] => x = y
  OBVIOUS
<1>4. IsFiniteSet(S) /\ Cardinality(S) = Cardinality(D)
  BY <1>2, <1>3, ImageCount
<1>5. \A c \in S : \E d \in D : c = f[d]
  OBVIOUS
<1>6. OnePerDoc(S)
  BY <1>5 DEF OnePerDoc
<1> QED
  BY <1>4, <1>5, <1>6

LEMMA RankedListed ==
    ASSUME NEW S, IsFiniteSet(S), \A c \in S : Exists(c), NEW n \in Nat,
           NEW r, r = Ranked(S, n)
    PROVE  /\ Listed(r) /\ \A i \in DOMAIN r : r[i] \in S
           /\ Cardinality(S) \in Nat
           /\ Len(r) = IF n <= Cardinality(S) THEN n ELSE Cardinality(S)
           /\ OnePerDoc(S) => OneEach(r)
<1>1. S \subseteq Candidates
  BY DEF Exists
<1>2. /\ r \in Seq(S) /\ Cardinality(S) \in Nat /\ InOrder(r)
      /\ Len(r) = IF n <= Cardinality(S) THEN n ELSE Cardinality(S)
      /\ \A i, j \in DOMAIN r : r[i] = r[j] => i = j
  BY <1>1, RankedIs
<1>3. \A i \in DOMAIN r : r[i] \in S
  BY <1>2
<1>4. r \in Seq(Candidates)
  BY <1>1, <1>2, SeqMonotonic
<1>5. OnePerDoc(S) => OneEach(r)
  BY <1>2, <1>3 DEF OnePerDoc, OneEach
<1> QED
  BY <1>2, <1>3, <1>4, <1>5 DEF Listed

LEMMA NeuralIs ==
    ASSUME SearchTypes, NEW n \in Nat, NEW except, NEW r, r = Neural(n, except)
    PROVE  /\ Listed(r) /\ OneEach(r)
           /\ \A i \in DOMAIN r : r[i].doc \in Indexed \ except
           /\ Cardinality(Indexed \ except) \in Nat
           /\ Len(r) = IF n <= Cardinality(Indexed \ except) THEN n
                       ELSE Cardinality(Indexed \ except)
<1> DEFINE D == Indexed \ except
           f == [d \in D |-> Candidate(d, 1, versions[d][1].neural)]
           S == {f[d] : d \in D}
<1>1. D \in SUBSET SearchDocs
  BY DEF Indexed
<1>2. ASSUME NEW d \in D PROVE Exists(f[d]) /\ f[d].doc = d
  <2>1. 1 \in DOMAIN versions[d] /\ versions[d][1].neural \in Int
    BY <1>1, TextTyped
  <2> QED
    BY <1>1, <2>1 DEF Exists, Candidate, Candidates
<1>3. r = Ranked(S, n)
  BY DEF Neural
<1>4. f = [d \in D |-> f[d]]
  OBVIOUS
<1> HIDE DEF f
<1>5. /\ IsFiniteSet(S) /\ \A c \in S : Exists(c) /\ c.doc \in D
      /\ OnePerDoc(S) /\ Cardinality(S) = Cardinality(D)
  BY <1>1, <1>2, <1>4, PerDocument
<1> HIDE DEF S, D
<1>6. /\ Listed(r) /\ \A i \in DOMAIN r : r[i] \in S
      /\ Cardinality(S) \in Nat
      /\ Len(r) = IF n <= Cardinality(S) THEN n ELSE Cardinality(S)
      /\ OneEach(r)
  BY <1>3, <1>5, RankedListed
<1> QED
  BY <1>5, <1>6 DEF D

LEMMA KeywordIs ==
    ASSUME SearchTypes, NEW n \in Nat, NEW r, r = Keyword(n)
    PROVE  /\ Listed(r) /\ OneEach(r) /\ \A i \in DOMAIN r : r[i].doc \in Indexed
<1> DEFINE f == [d \in Indexed |->
                    Candidate(d, Len(versions[d]), Last(versions[d]).keyword)]
           S == {f[d] : d \in Indexed}
           T == {c \in S : c.score > 0}
<1>1. Indexed \in SUBSET SearchDocs
  BY DEF Indexed
<1>2. ASSUME NEW d \in Indexed PROVE Exists(f[d]) /\ f[d].doc = d
  <2>1. /\ Len(versions[d]) \in DOMAIN versions[d] /\ Len(versions[d]) \in Nat
        /\ Last(versions[d]).keyword \in Int
    BY <1>1, TextTyped
  <2> QED
    BY <1>1, <2>1 DEF Exists, Candidate, Candidates
<1>3. r = Ranked(T, n)
  BY DEF Keyword
<1>4. f = [d \in Indexed |-> f[d]]
  OBVIOUS
<1> HIDE DEF f
<1>5. IsFiniteSet(S) /\ (\A c \in S : Exists(c) /\ c.doc \in Indexed) /\ OnePerDoc(S)
  BY <1>1, <1>2, <1>4, PerDocument
<1> HIDE DEF S
<1>6. T \in SUBSET S
  OBVIOUS
<1>7. IsFiniteSet(T)
  BY <1>5, <1>6, FS_Subset
<1>8. (\A c \in T : Exists(c) /\ c.doc \in Indexed) /\ OnePerDoc(T)
  BY <1>5, <1>6 DEF OnePerDoc
<1> HIDE DEF T
<1>9. Listed(r) /\ OneEach(r) /\ \A i \in DOMAIN r : r[i] \in T
  BY <1>3, <1>7, <1>8, RankedListed
<1> QED
  BY <1>8, <1>9

LEMMA RrfTyped == \A i \in Nat : Rrf(i) \in Int
<1> TAKE i \in Nat
<1>1. 60 + i \in Nat \ {0} /\ 61 * 62 * 63 * 64 \in Int
  OBVIOUS
<1> QED
  BY <1>1 DEF Rrf

LEMMA PlaceIs ==
    ASSUME NEW r, NEW d \in DocsIn(r)
    PROVE  PlaceIn(d, r) \in DOMAIN r /\ r[PlaceIn(d, r)].doc = d
<1>1. \E i \in DOMAIN r : r[i].doc = d
  BY DEF DocsIn
<1> QED
  BY <1>1 DEF PlaceIn

LEMMA RankTyped ==
    ASSUME NEW r \in Seq(Candidates), NEW d
    PROVE  RankOf(d, r) \in Int
<1>1. CASE d \in DocsIn(r)
  <2>1. PlaceIn(d, r) \in Nat
    BY <1>1, PlaceIs
  <2> QED
    BY <1>1, <2>1, RrfTyped DEF RankOf
<1>2. CASE d \notin DocsIn(r)
  BY <1>2 DEF RankOf
<1> QED
  BY <1>1, <1>2

LEMMA FusedIs ==
    ASSUME SearchTypes, NEW p, NEW q, Listed(p), Listed(q),
           \A i \in DOMAIN p : p[i].doc \in Indexed,
           \A i \in DOMAIN q : q[i].doc \in Indexed,
           NEW S, S = Fused(p, q)
    PROVE  /\ IsFiniteSet(S) /\ OnePerDoc(S)
           /\ \A c \in S : Exists(c) /\ c.doc \in Indexed
           /\ Cardinality(S) = Cardinality(DocsIn(p) \cup DocsIn(q))
<1> DEFINE D == DocsIn(p) \cup DocsIn(q)
           from(d) == IF d \in DocsIn(p) THEN p ELSE q
           f == [d \in D |-> Candidate(d, VersionIn(d, from(d)), RankOf(d, p) + RankOf(d, q))]
<1>1. D \subseteq Indexed /\ Indexed \subseteq SearchDocs
  BY DEF DocsIn, Indexed
<1>2. ASSUME NEW d \in D PROVE Exists(f[d]) /\ f[d].doc = d
  <2>1. PICK s : s = from(d)
    OBVIOUS
  <2>2. Listed(s) /\ d \in DocsIn(s)
    BY <2>1
  <2>3. PICK i \in DOMAIN s : i = PlaceIn(d, s) /\ s[i].doc = d
    BY <2>2, PlaceIs
  <2>4. Exists(s[i]) /\ VersionIn(d, s) = s[i].version
    BY <2>2, <2>3 DEF Listed, VersionIn
  <2>5. s[i].version \in Nat /\ s[i].version \in DOMAIN versions[d]
    BY <2>3, <2>4 DEF Exists, Candidates
  <2>6. PICK k \in Int : k = RankOf(d, p) + RankOf(d, q)
    <3>1. RankOf(d, p) \in Int /\ RankOf(d, q) \in Int
      BY RankTyped DEF Listed
    <3> QED
      BY <3>1
  <2>7. f[d] = Candidate(d, s[i].version, k)
    BY <2>1, <2>4, <2>6
  <2> HIDE DEF f
  <2> QED
    BY <1>1, <2>5, <2>7 DEF Exists, Candidate, Candidates
<1>3. S = {f[d] : d \in D}
  BY DEF Fused
<1>4. f = [d \in D |-> f[d]]
  OBVIOUS
<1>5. D \in SUBSET SearchDocs
  BY <1>1
<1> HIDE DEF f, D
<1>6. /\ IsFiniteSet(S) /\ \A c \in S : Exists(c) /\ c.doc \in D
      /\ OnePerDoc(S) /\ Cardinality(S) = Cardinality(D)
  BY <1>2, <1>3, <1>4, <1>5, PerDocument
<1> QED
  BY <1>1, <1>6 DEF D

\* The entries of OpenSearch that a search may see.
InStore(c, t) ==
    \E e \in stored : e.doc = c.doc /\ e.version = c.version /\ (t # NoTenant => e.tenant = t)

LEMMA VisibleIs ==
    ASSUME SearchTypes, NEW t, NEW e \in Visible(t)
    PROVE  /\ e.doc \in SearchDocs /\ e.version \in DOMAIN versions[e.doc]
           /\ e \in stored /\ (t # NoTenant => e.tenant = t)
  BY DEF SearchTypes, Visible

\* One candidate for each entry.
LEMMA PerEntry ==
    ASSUME SearchTypes, NEW t, NEW f, f = [e \in Visible(t) |-> f[e]],
           \A e \in Visible(t) :
               f[e] \in Candidates /\ f[e].doc = e.doc /\ f[e].version = e.version,
           NEW S, S = {f[e] : e \in Visible(t)}
    PROVE  IsFiniteSet(S) /\ \A c \in S : Exists(c) /\ InStore(c, t)
<1>1. Visible(t) \in SUBSET stored
  BY DEF Visible
<1>2. IsFiniteSet(Visible(t))
  BY <1>1, FS_Subset DEF SearchTypes
<1>3. IsFiniteSet(S)
  BY <1>2, ImageCount
<1>4. ASSUME NEW e \in Visible(t) PROVE Exists(f[e]) /\ InStore(f[e], t)
  BY VisibleIs DEF Exists, InStore
<1> QED
  BY <1>3, <1>4

LEMMA VectorHitsAre ==
    ASSUME SearchTypes, NEW t, NEW n \in Nat, NEW r, r = VectorHits(t, n)
    PROVE  Listed(r) /\ \A i \in DOMAIN r : InStore(r[i], t)
<1> DEFINE f == [e \in Visible(t) |->
                    Candidate(e.doc, e.version, versions[e.doc][e.version].neural)]
           S == {f[e] : e \in Visible(t)}
<1>1. r = Ranked(S, n)
  BY DEF VectorHits
<1>2. ASSUME NEW e \in Visible(t)
      PROVE  f[e] \in Candidates /\ f[e].doc = e.doc /\ f[e].version = e.version
  <2>1. e.doc \in SearchDocs /\ e.version \in DOMAIN versions[e.doc]
    BY VisibleIs
  <2>2. e.version \in Nat /\ versions[e.doc][e.version].neural \in Int
    BY <2>1, TextTyped
  <2> QED
    BY <2>1, <2>2 DEF Candidate, Candidates
<1>3. f = [e \in Visible(t) |-> f[e]]
  OBVIOUS
<1> HIDE DEF f
<1>4. IsFiniteSet(S) /\ \A c \in S : Exists(c) /\ InStore(c, t)
  BY <1>2, <1>3, PerEntry
<1> HIDE DEF S
<1>5. Listed(r) /\ \A i \in DOMAIN r : r[i] \in S
  BY <1>1, <1>4, RankedListed
<1> QED
  BY <1>4, <1>5

LEMMA KeywordHitsAre ==
    ASSUME SearchTypes, NEW t, NEW n \in Nat, NEW r, r = KeywordHits(t, n)
    PROVE  Listed(r) /\ \A i \in DOMAIN r : InStore(r[i], t)
<1> DEFINE f == [e \in Visible(t) |->
                    Candidate(e.doc, e.version, versions[e.doc][e.version].keyword)]
           S == {f[e] : e \in Visible(t)}
           T == {c \in S : c.score > 0}
<1>1. r = Ranked(T, n)
  BY DEF KeywordHits
<1>2. ASSUME NEW e \in Visible(t)
      PROVE  f[e] \in Candidates /\ f[e].doc = e.doc /\ f[e].version = e.version
  <2>1. e.doc \in SearchDocs /\ e.version \in DOMAIN versions[e.doc]
    BY VisibleIs
  <2>2. e.version \in Nat /\ versions[e.doc][e.version].keyword \in Int
    BY <2>1, TextTyped
  <2> QED
    BY <2>1, <2>2 DEF Candidate, Candidates
<1>3. f = [e \in Visible(t) |-> f[e]]
  OBVIOUS
<1> HIDE DEF f
<1>4. IsFiniteSet(S) /\ \A c \in S : Exists(c) /\ InStore(c, t)
  BY <1>2, <1>3, PerEntry
<1>5. T \in SUBSET S
  OBVIOUS
<1> HIDE DEF S
<1>6. IsFiniteSet(T) /\ \A c \in T : Exists(c) /\ InStore(c, t)
  BY <1>4, <1>5, FS_Subset
<1> HIDE DEF T
<1>7. Listed(r) /\ \A i \in DOMAIN r : r[i] \in T
  BY <1>1, <1>6, RankedListed
<1> QED
  BY <1>6, <1>7

LEMMA RankInTyped ==
    ASSUME NEW r \in Seq(Candidates), NEW c
    PROVE  RankIn(c, r) \in Int
<1>1. CASE Hits(c, r) = {}
  BY <1>1 DEF RankIn
<1>2. CASE Hits(c, r) # {}
  <2>1. PICK i : i = CHOOSE k \in Hits(c, r) : TRUE
    OBVIOUS
  <2>2. i \in Hits(c, r)
    BY <1>2, <2>1
  <2>3. i \in Nat
    BY <2>2 DEF Hits
  <2> QED
    BY <1>2, <2>1, <2>3, RrfTyped DEF RankIn
<1> QED
  BY <1>1, <1>2

LEMMA FusedHitsAre ==
    ASSUME SearchTypes, NEW t, NEW p, NEW q, Listed(p), Listed(q),
           \A i \in DOMAIN p : InStore(p[i], t),
           \A i \in DOMAIN q : InStore(q[i], t),
           NEW n \in Nat, NEW r, r = Ranked(FusedHits(p, q), n)
    PROVE  Listed(r) /\ \A i \in DOMAIN r : InStore(r[i], t)
<1> DEFINE C == ToSet(p) \cup ToSet(q)
           f == [c \in C |-> Candidate(c.doc, c.version, RankIn(c, p) + RankIn(c, q))]
           S == {f[c] : c \in C}
<1>1. /\ p \in Seq(Candidates) /\ q \in Seq(Candidates)
  BY DEF Listed
<1>2. IsFiniteSet(C)
  <2>1. ASSUME NEW s \in Seq(Candidates) PROVE IsFiniteSet(ToSet(s))
    <3>1. DOMAIN s = 1..Len(s) /\ Len(s) \in Nat /\ s = [i \in 1..Len(s) |-> s[i]]
      OBVIOUS
    <3>2. ToSet(s) = {s[i] : i \in 1..Len(s)}
      BY <3>1 DEF ToSet
    <3>3. IsFiniteSet(1..Len(s))
      BY <3>1, FS_Interval
    <3> QED
      BY <3>1, <3>2, <3>3, ImageCount
  <2> QED
    BY <1>1, <2>1, FS_Union
<1>3. ASSUME NEW c \in C PROVE Exists(c) /\ InStore(c, t)
  BY DEF ToSet, Listed
<1>4. ASSUME NEW c \in C PROVE Exists(f[c]) /\ InStore(f[c], t)
  <2>1. PICK k \in Int : k = RankIn(c, p) + RankIn(c, q)
    <3>1. RankIn(c, p) \in Int /\ RankIn(c, q) \in Int
      BY <1>1, RankInTyped
    <3> QED
      BY <3>1
  <2>2. f[c] = Candidate(c.doc, c.version, k)
    BY <2>1
  <2> HIDE DEF f
  <2>3. f[c] \in Candidates /\ f[c].doc = c.doc /\ f[c].version = c.version
    BY <1>3, <2>2 DEF Candidate, Candidates, Exists
  <2> QED
    BY <1>3, <2>3 DEF Exists, InStore
<1>5. f = [c \in C |-> f[c]]
  OBVIOUS
<1>6. FusedHits(p, q) = S
  BY DEF FusedHits
<1> HIDE DEF f, C
<1>7. IsFiniteSet(S)
  BY <1>2, <1>5, ImageCount
<1>8. \A c \in S : Exists(c) /\ InStore(c, t)
  BY <1>4
<1> HIDE DEF S
<1>9. Listed(r) /\ \A i \in DOMAIN r : r[i] \in S
  BY <1>6, <1>7, <1>8, RankedListed
<1> QED
  BY <1>8, <1>9

\* What a list is worth that came from memory or from OpenSearch.
Retrieved(r, t) ==
    /\ Listed(r)
    /\ ~clustered => OneEach(r)
    /\ clustered => \A i \in DOMAIN r : InStore(r[i], t)

LEMMA CountDocs ==
    ASSUME NEW r \in Seq(Candidates), OneEach(r)
    PROVE  Cardinality(DocsIn(r)) = Len(r) /\ Cardinality(ToSet(r)) = Len(r)
<1>1. Len(r) \in Nat /\ DOMAIN r = 1..Len(r) /\ r = [i \in 1..Len(r) |-> r[i]]
  OBVIOUS
<1>2. IsFiniteSet(1..Len(r)) /\ Cardinality(1..Len(r)) = Len(r)
  <2>1. PICK n \in Nat : n = Len(r)
    BY <1>1
  <2>2. IsFiniteSet(1..n) /\ Cardinality(1..n) = IF 1 > n THEN 0 ELSE n - 1 + 1
    BY FS_Interval
  <2>3. Cardinality(1..n) = n
    BY ONLY <2>2, n \in Nat
  <2> QED
    BY ONLY <2>1, <2>2, <2>3
<1>3. Cardinality(ToSet(r)) = Len(r)
  <2>1. \A i, j \in 1..Len(r) : r[i] = r[j] => i = j
    BY <1>1 DEF OneEach
  <2>2. ToSet(r) = {r[i] : i \in 1..Len(r)}
    BY <1>1 DEF ToSet
  <2> QED
    BY <1>1, <1>2, <2>1, <2>2, ImageCount
<1>4. Cardinality(DocsIn(r)) = Len(r)
  <2> DEFINE f == [i \in 1..Len(r) |-> r[i].doc]
  <2>1. f = [i \in 1..Len(r) |-> f[i]] /\ \A i \in 1..Len(r) : f[i] = r[i].doc
    OBVIOUS
  <2>2. \A i, j \in 1..Len(r) : f[i] = f[j] => i = j
    BY <1>1, <2>1 DEF OneEach
  <2>3. DocsIn(r) = {f[i] : i \in 1..Len(r)}
    BY <1>1, <2>1 DEF DocsIn
  <2> HIDE DEF f
  <2> QED
    BY <1>2, <2>1, <2>2, <2>3, ImageCount
<1> QED
  BY <1>3, <1>4

LEMMA NoHits == Listed(<<>>) /\ DOMAIN (<<>>) = {}
<1>1. <<>> \in Seq(Candidates) /\ DOMAIN (<<>>) = {}
  BY EmptySeq
<1> QED
  BY <1>1 DEF Listed, InOrder

\* However much of the memory is ranked: as much as was asked for, or all.
LEMMA MemoryRetrieved ==
    ASSUME SearchTypes, NEW mode \in Modes, NEW n \in Nat, NEW r, r = Retrieve(mode, n)
    PROVE  /\ Listed(r) /\ OneEach(r)
           /\ Cardinality(Indexed) \in Nat
           /\ mode # "keyword" =>
                  \/ Len(r) = Cardinality(Indexed)
                  \/ Len(r) = 2 * n /\ 2 * n <= Cardinality(Indexed)
<1>1. 2 * n \in Nat
  OBVIOUS
<1>2. /\ Listed(Neural(2 * n, {})) /\ OneEach(Neural(2 * n, {}))
      /\ \A i \in DOMAIN Neural(2 * n, {}) : Neural(2 * n, {})[i].doc \in Indexed
      /\ Cardinality(Indexed) \in Nat
      /\ Len(Neural(2 * n, {})) = IF 2 * n <= Cardinality(Indexed) THEN 2 * n
                                  ELSE Cardinality(Indexed)
  <2>1. Indexed \ {} = Indexed
    OBVIOUS
  <2> QED
    BY <1>1, <2>1, NeuralIs
<1>3. CASE mode = "neural"
  <2>1. r = Neural(2 * n, {})
    BY <1>3 DEF Retrieve
  <2> QED
    BY <1>2, <2>1
<1>4. CASE mode = "keyword"
  <2>1. r = Keyword(2 * n)
    BY <1>4 DEF Retrieve
  <2>2. Listed(r) /\ OneEach(r)
    BY <1>1, <2>1, KeywordIs
  <2> QED
    BY <1>2, <1>4, <2>2
<1>5. CASE mode = "hybrid"
  <2>1. PICK p : p = Neural(2 * n, {})
    OBVIOUS
  <2>2. PICK q : q = Keyword(2 * n)
    OBVIOUS
  <2>3. PICK S : S = Fused(p, q)
    OBVIOUS
  <2>4. r = Ranked(S, 2 * n)
    BY <1>5, <2>1, <2>2, <2>3 DEF Retrieve, Hybrid
  <2>5. /\ Listed(p) /\ OneEach(p) /\ \A i \in DOMAIN p : p[i].doc \in Indexed
        /\ Listed(q) /\ \A i \in DOMAIN q : q[i].doc \in Indexed
    BY <1>1, <1>2, <2>1, <2>2, KeywordIs
  <2>6. /\ IsFiniteSet(S) /\ OnePerDoc(S) /\ \A c \in S : Exists(c) /\ c.doc \in Indexed
        /\ Cardinality(S) = Cardinality(DocsIn(p) \cup DocsIn(q))
    BY <2>3, <2>5, FusedIs
  <2>7. /\ Listed(r) /\ OneEach(r) /\ Cardinality(S) \in Nat
        /\ Len(r) = IF 2 * n <= Cardinality(S) THEN 2 * n ELSE Cardinality(S)
    BY <1>1, <2>4, <2>6, RankedListed
  <2>8. IsFiniteSet(Indexed)
    <3>1. IsFiniteSet(SearchDocs)
      BY SearchAssumption DEF SearchAssumption
    <3>2. Indexed \in SUBSET SearchDocs
      BY DEF Indexed
    <3> QED
      BY <3>1, <3>2, FS_Subset
  <2>9. /\ DocsIn(p) \cup DocsIn(q) \in SUBSET Indexed
        /\ DocsIn(p) \in SUBSET (DocsIn(p) \cup DocsIn(q))
    BY <2>5 DEF DocsIn
  <2>10. Cardinality(S) <= Cardinality(Indexed) /\ IsFiniteSet(DocsIn(p) \cup DocsIn(q))
    BY <2>6, <2>8, <2>9, FS_Subset
  <2>11. Cardinality(DocsIn(p)) <= Cardinality(S)
    BY <2>6, <2>9, <2>10, FS_Subset
  <2>12. Cardinality(DocsIn(p)) = Len(p)
    BY <2>5, CountDocs DEF Listed
  <2>13. Len(p) = IF 2 * n <= Cardinality(Indexed) THEN 2 * n ELSE Cardinality(Indexed)
    BY <1>2, <2>1
  <2> QED
    BY <1>1, <1>2, <2>7, <2>10, <2>11, <2>12, <2>13
<1> QED
  BY <1>3, <1>4, <1>5 DEF Modes

LEMMA ClusterRetrieved ==
    ASSUME SearchTypes, NEW t, NEW mode \in Modes, NEW n \in Nat, NEW up,
           NEW r, r = RetrieveHits(t, mode, n, up)
    PROVE  Listed(r) /\ \A i \in DOMAIN r : InStore(r[i], t)
<1> DEFINE v(k) == IF "vector" \in up THEN VectorHits(t, k) ELSE <<>>
           w(k) == IF "keyword" \in up THEN KeywordHits(t, k) ELSE <<>>
<1>1. ASSUME NEW k \in Nat
      PROVE  /\ Listed(v(k)) /\ \A i \in DOMAIN v(k) : InStore(v(k)[i], t)
             /\ Listed(w(k)) /\ \A i \in DOMAIN w(k) : InStore(w(k)[i], t)
  <2>1. Listed(v(k)) /\ \A i \in DOMAIN v(k) : InStore(v(k)[i], t)
    <3>1. CASE "vector" \in up
      BY <3>1, VectorHitsAre
    <3>2. CASE "vector" \notin up
      BY <3>2, NoHits
    <3> QED
      BY <3>1, <3>2
  <2>2. Listed(w(k)) /\ \A i \in DOMAIN w(k) : InStore(w(k)[i], t)
    <3>1. CASE "keyword" \in up
      BY <3>1, KeywordHitsAre
    <3>2. CASE "keyword" \notin up
      BY <3>2, NoHits
    <3> QED
      BY <3>1, <3>2
  <2> QED
    BY <2>1, <2>2
<1>2. 2 * n \in Nat /\ 4 * n \in Nat
  OBVIOUS
<1>3. /\ mode = "neural" => r = v(2 * n)
      /\ mode = "keyword" => r = w(2 * n)
      /\ mode = "hybrid" => r = Ranked(FusedHits(v(4 * n), w(4 * n)), 2 * n)
  BY DEF RetrieveHits
<1> HIDE DEF v, w
<1>4. CASE mode \in {"neural", "keyword"}
  BY <1>1, <1>2, <1>3, <1>4
<1>5. CASE mode = "hybrid"
  <2>1. PICK p : p = v(4 * n)
    OBVIOUS
  <2>2. PICK q : q = w(4 * n)
    OBVIOUS
  <2>3. /\ Listed(p) /\ Listed(q)
        /\ \A i \in DOMAIN p : InStore(p[i], t)
        /\ \A i \in DOMAIN q : InStore(q[i], t)
    BY <1>1, <1>2, <2>1, <2>2
  <2>4. r = Ranked(FusedHits(p, q), 2 * n)
    BY <1>3, <1>5, <2>1, <2>2
  <2> QED
    BY <1>2, <2>3, <2>4, FusedHitsAre
<1> QED
  BY <1>4, <1>5 DEF Modes

LEMMA RetrievalsAre ==
    ASSUME SearchTypes, NEW t, NEW mode \in Modes, NEW n \in Nat,
           NEW r \in Retrievals(t, mode, n)
    PROVE  /\ Retrieved(r, t)
           /\ ~clustered /\ mode # "keyword" =>
                  \/ Len(r) = Cardinality(Indexed)
                  \/ Len(r) = 2 * n /\ 2 * n <= Cardinality(Indexed)
<1>1. CASE clustered
  <2>1. PICK up \in SUBSET {"vector", "keyword"} : r = RetrieveHits(t, mode, n, up)
    BY <1>1 DEF Retrievals
  <2>2. Listed(r) /\ \A i \in DOMAIN r : InStore(r[i], t)
    BY <2>1, ClusterRetrieved
  <2> QED
    BY <1>1, <2>2 DEF Retrieved
<1>2. CASE ~clustered
  <2>1. r = Retrieve(mode, n)
    BY <1>2 DEF Retrievals
  <2> QED
    BY <1>2, <2>1, MemoryRetrieved DEF Retrieved
<1> QED
  BY <1>1, <1>2

\* Filtering, ordering and cutting a list.
LEMMA FinishIs ==
    ASSUME SearchTypes, NEW list, Listed(list), NEW min, NEW n \in Nat,
           NEW r, r = Finish(list, min, n)
    PROVE  /\ Listed(r) /\ Len(r) <= n /\ Len(r) \in Nat
           /\ \A i \in DOMAIN r : \E j \in DOMAIN list : r[i] = list[j]
           /\ OneEach(list) => OneEach(r)
           /\ min = 0 /\ OneEach(list) => Len(r) = IF n <= Len(list) THEN n ELSE Len(list)
<1>1. list \in Seq(Candidates) /\ \A i \in DOMAIN list : Exists(list[i])
  BY DEF Listed
<1>2. DOMAIN list = 1..Len(list) /\ Len(list) \in Nat /\ list = [i \in 1..Len(list) |-> list[i]]
  BY <1>1
<1>3. ToSet(list) = {list[i] : i \in 1..Len(list)}
  BY <1>2 DEF ToSet
<1>4. IsFiniteSet(ToSet(list))
  <2>1. IsFiniteSet(1..Len(list))
    BY <1>2, FS_Interval
  <2> QED
    BY <1>2, <1>3, <2>1, ImageCount
<1>5. PICK S : S = Credible(list, min)
  OBVIOUS
<1>6. S \in SUBSET ToSet(list)
  BY <1>5 DEF Credible
<1>7. IsFiniteSet(S) /\ \A c \in S : Exists(c)
  BY <1>1, <1>2, <1>3, <1>4, <1>6, FS_Subset
<1>8. r = Ranked(S, n)
  BY <1>5 DEF Finish
<1>9. /\ Listed(r) /\ \A i \in DOMAIN r : r[i] \in S
      /\ Cardinality(S) \in Nat
      /\ Len(r) = IF n <= Cardinality(S) THEN n ELSE Cardinality(S)
      /\ OnePerDoc(S) => OneEach(r)
  BY <1>7, <1>8, RankedListed
<1>10. \A c \in S : \E j \in DOMAIN list : c = list[j]
  BY <1>2, <1>3, <1>6
<1>11. OneEach(list) => OnePerDoc(S)
  BY <1>10 DEF OneEach, OnePerDoc
<1>12. ASSUME min = 0, OneEach(list) PROVE Cardinality(S) = Len(list)
  <2>1. \A c \in ToSet(list) : TextOf(c).cred \in Nat
    <3> TAKE c \in ToSet(list)
    <3>1. c.doc \in SearchDocs /\ c.version \in DOMAIN versions[c.doc]
      BY <1>1, <1>2, <1>3 DEF Exists, Candidates
    <3> QED
      BY <3>1, TextTyped DEF TextOf
  <2>2. S = ToSet(list)
    BY <1>5, <1>12, <2>1 DEF Credible
  <2> QED
    BY <1>1, <1>12, <2>2, CountDocs
<1> QED
  BY <1>9, <1>10, <1>11, <1>12

-----------------------------------------------------------------------------
(* The invariant: what the cache holds is worth an answer.                 *)

WarmSound(e) ==
    /\ e.by = e.key.tenant
    /\ Retrieved(e.results, e.key.tenant)
    /\ Len(e.results) <= e.key.n

SearchInv ==
    /\ SearchTypes
    /\ \A e \in warm : WarmSound(e)
    /\ ResultsSound

LEMMA SearchInvInit == SearchInit => SearchInv
<1> SUFFICES ASSUME SearchInit PROVE SearchInv
  OBVIOUS
<1>1. <<>> \in Seq(SearchTexts)
  BY EmptySeq
<1>2. SearchTypes
  BY <1>1, FS_EmptySet DEF SearchInit, SearchTypes
<1>3. (\A e \in warm : WarmSound(e)) /\ ResultsSound
  BY DEF SearchInit, ResultsSound, NoAnswer
<1> QED
  BY <1>2, <1>3 DEF SearchInv

\* More versions, and more entries, take nothing away.
LEMMA Retained ==
    ASSUME \A d \in SearchDocs : DOMAIN versions[d] \subseteq DOMAIN versions'[d],
           stored \subseteq stored', clustered' = clustered,
           NEW r, NEW t, Retrieved(r, t)
    PROVE  Retrieved(r, t)'
<1>1. ASSUME NEW c, Exists(c) PROVE Exists(c)'
  <2>1. c \in Candidates /\ c.doc \in SearchDocs /\ c.version \in DOMAIN versions[c.doc]
    BY <1>1 DEF Exists, Candidates
  <2> QED
    BY <2>1 DEF Exists
<1>2. ASSUME NEW c, InStore(c, t) PROVE InStore(c, t)'
  BY <1>2 DEF InStore
<1>3. Listed(r)'
  BY <1>1 DEF Listed, Retrieved
<1>4. clustered' => \A i \in DOMAIN r : InStore(r[i], t)'
  BY <1>2 DEF Retrieved
<1> QED
  BY <1>3, <1>4 DEF Retrieved, OneEach

LEMMA WarmRetained ==
    ASSUME \A d \in SearchDocs : DOMAIN versions[d] \subseteq DOMAIN versions'[d],
           stored \subseteq stored', clustered' = clustered,
           NEW e, WarmSound(e)
    PROVE  WarmSound(e)'
<1>1. PICK r : r = e.results
  OBVIOUS
<1>2. PICK t : t = e.key.tenant
  OBVIOUS
<1>3. Retrieved(r, t)
  BY <1>1, <1>2 DEF WarmSound
<1>4. Retrieved(r, t)'
  BY <1>3, Retained
<1> QED
  BY <1>1, <1>2, <1>4 DEF WarmSound

\* An answer whose list is sound.
LEMMA AnswerSound ==
    ASSUME SearchTypes, UNCHANGED <<versions, clustered, stored, second>>,
           NEW a, response' = a, a.kind \in {"search", "similar"},
           NEW r, r = a.results, Listed(r), Len(r) <= a.n,
           a.kind = "search" => Retrieved(r, a.tenant),
           a.kind = "similar" => OneEach(r) /\ a.of \notin DocsIn(r),
           a.by = a.tenant, second - a.at <= SearchTtl,
           ~clustered /\ ~a.hit /\ a.min = 0 /\ a.kind = "search" /\ a.mode # "keyword" =>
               Len(r) = Min({a.n, Cardinality(Indexed)})
    PROVE  ResultsSound'
<1>1. /\ \A i, j \in DOMAIN r : i < j => Before(r[i], r[j])
      /\ \A i \in DOMAIN r : r[i].version \in DOMAIN versions[r[i].doc]
  BY DEF Listed, InOrder, Exists
<1>2. ~ (clustered /\ a.kind = "search") => Cardinality(DocsIn(r)) = Len(r)
  BY CountDocs DEF Listed, Retrieved
<1>3. clustered /\ a.kind = "search" /\ a.tenant # NoTenant =>
          \A i \in DOMAIN r : \E e \in stored :
              e.doc = r[i].doc /\ e.version = r[i].version /\ e.tenant = a.tenant
  BY DEF Retrieved, InStore
<1>4. Indexed' = Indexed
  BY DEF Indexed
<1> QED
  BY <1>1, <1>2, <1>3, <1>4 DEF ResultsSound

LEMMA WantedIs == \A n \in Wanted : n \in Nat
<1>1. Wanted \subseteq Nat \ {0}
  BY SearchAssumption DEF SearchAssumption
<1> QED
  BY <1>1

LEMMA SameTypes ==
    ASSUME SearchInv, UNCHANGED <<versions, clustered, stored, second>>
    PROVE  SearchTypes' /\ \A e \in warm : WarmSound(e)'
<1>1. SearchTypes'
  BY DEF SearchInv, SearchTypes
<1>2. ASSUME NEW e \in warm PROVE WarmSound(e)'
  BY WarmRetained DEF SearchInv
<1> QED
  BY <1>1, <1>2

LEMMA SearchHitKeeps ==
    ASSUME SearchInv, NEW t \in Requesters, NEW mode \in Modes, NEW n \in Wanted,
           NEW min \in Thresholds, SearchHit(t, mode, n, min)
    PROVE  SearchInv'
<1>1. PICK e \in warm :
          /\ e.key = Key(t, mode, n) /\ Fresh(e)
          /\ response' = Response(t, mode, n, min, TRUE, e)
          /\ UNCHANGED <<versions, warm, clustered, stored, indexVersion, second>>
  BY DEF SearchHit
<1>2. PICK a : a = Response(t, mode, n, min, TRUE, e)
  OBVIOUS
<1>3. /\ a.kind = "search" /\ a.tenant = t /\ a.n = n /\ a.hit = TRUE
      /\ a.at = e.at /\ a.by = e.by /\ a.results = e.results
  BY <1>2 DEF Response
<1>4. /\ e.by = t /\ Retrieved(e.results, t) /\ Len(e.results) <= n
  BY <1>1 DEF SearchInv, WarmSound, Key
<1>5. second - e.at <= SearchTtl
  BY <1>1 DEF Fresh
<1>6. ResultsSound'
  BY <1>1, <1>2, <1>3, <1>4, <1>5, AnswerSound DEF SearchInv, Retrieved
<1> QED
  BY <1>1, <1>6, SameTypes DEF SearchInv

LEMMA SearchMissKeeps ==
    ASSUME SearchInv, NEW t \in Requesters, NEW mode \in Modes, NEW n \in Wanted,
           NEW min \in Thresholds, SearchMiss(t, mode, n, min)
    PROVE  SearchInv'
<1>0. PICK list \in Retrievals(t, mode, n) :
          LET x == [key |-> Key(t, mode, n), at |-> second, by |-> t,
                    results |-> Finish(list, min, n)]
          IN  warm' = Put(x) /\ response' = Response(t, mode, n, min, FALSE, x)
  BY DEF SearchMiss
<1>1. PICK e : /\ e = [key |-> Key(t, mode, n), at |-> second, by |-> t,
                       results |-> Finish(list, min, n)]
               /\ warm' = Put(e)
               /\ response' = Response(t, mode, n, min, FALSE, e)
  BY <1>0
<1>2. UNCHANGED <<versions, clustered, stored, indexVersion, second>>
  BY DEF SearchMiss
<1>3. n \in Nat /\ SearchTypes
  BY WantedIs DEF SearchInv
<1>4. PICK r : r = Finish(list, min, n)
  OBVIOUS
<1>5. /\ Retrieved(list, t)
      /\ ~clustered /\ mode # "keyword" =>
             \/ Len(list) = Cardinality(Indexed)
             \/ Len(list) = 2 * n /\ 2 * n <= Cardinality(Indexed)
  BY <1>3, RetrievalsAre
<1>6. /\ Listed(r) /\ Len(r) <= n /\ Len(r) \in Nat
      /\ \A i \in DOMAIN r : \E j \in DOMAIN list : r[i] = list[j]
      /\ OneEach(list) => OneEach(r)
      /\ min = 0 /\ OneEach(list) => Len(r) = IF n <= Len(list) THEN n ELSE Len(list)
  BY <1>3, <1>4, <1>5, FinishIs DEF Retrieved
<1>7. Retrieved(r, t)
  BY <1>5, <1>6 DEF Retrieved
<1>8. ~clustered /\ min = 0 /\ mode # "keyword" => Len(r) = Min({n, Cardinality(Indexed)})
  <2> SUFFICES ASSUME ~clustered, min = 0, mode # "keyword"
               PROVE  Len(r) = Min({n, Cardinality(Indexed)})
    OBVIOUS
  <2>1. Cardinality(Indexed) \in Nat
    <3>1. IsFiniteSet(SearchDocs) /\ Indexed \in SUBSET SearchDocs
      BY SearchAssumption DEF SearchAssumption, Indexed
    <3> QED
      BY <3>1, FS_Subset, FS_CardinalityType
  <2>2. Len(r) = IF n <= Len(list) THEN n ELSE Len(list)
    BY <1>5, <1>6 DEF Retrieved
  <2>3. Len(r) = IF n <= Cardinality(Indexed) THEN n ELSE Cardinality(Indexed)
    BY <1>3, <1>5, <2>1, <2>2
  <2> QED
    BY <1>3, <2>1, <2>3, LesserOne
<1>9. PICK a : a = Response(t, mode, n, min, FALSE, e)
  OBVIOUS
<1>10. /\ a.kind = "search" /\ a.tenant = t /\ a.n = n /\ a.mode = mode /\ a.min = min
       /\ a.at = second /\ a.by = t /\ a.results = r /\ response' = a
  BY <1>1, <1>4, <1>9 DEF Response
<1>11. second - second <= SearchTtl
  <2>1. SearchTtl \in Nat
    BY SearchAssumption DEF SearchAssumption
  <2>2. second \in Nat
    BY <1>3 DEF SearchTypes
  <2> QED
    BY <2>1, <2>2
<1>12. ResultsSound'
  BY <1>2, <1>3, <1>6, <1>7, <1>8, <1>10, <1>11, AnswerSound
<1>13. SearchTypes' /\ \A f \in warm : WarmSound(f)'
  BY <1>2, SameTypes
<1>14. WarmSound(e)'
  <2>1. WarmSound(e)
    BY <1>1, <1>4, <1>6, <1>7 DEF WarmSound, Key
  <2> QED
    BY <1>2, <2>1, WarmRetained
<1>15. \A f \in warm' : f \in warm \/ f = e
  BY <1>1 DEF Put
<1> QED
  BY <1>12, <1>13, <1>14, <1>15 DEF SearchInv

LEMMA FindSimilarKeeps ==
    ASSUME SearchInv, NEW t \in SearchTenants, NEW d \in SearchDocs, NEW n \in Wanted,
           FindSimilar(t, d, n)
    PROVE  SearchInv'
<1>1. n \in Nat /\ 2 * n \in Nat /\ SearchTypes
  BY WantedIs DEF SearchInv
<1>2. PICK list : list = Neural(2 * n, {d})
  OBVIOUS
<1>3. PICK r : r = Finish(list, 0, n)
  OBVIOUS
<1>4. PICK a : a = [kind |-> "similar", tenant |-> t, mode |-> "neural", n |-> n,
                    min |-> 0, hit |-> FALSE, at |-> second, by |-> t, of |-> d,
                    index |-> indexVersion[t], results |-> r]
  OBVIOUS
<1>5. /\ response' = a
      /\ UNCHANGED <<versions, warm, clustered, stored, indexVersion, second>>
  BY <1>2, <1>3, <1>4 DEF FindSimilar
<1>6. Listed(list) /\ OneEach(list) /\ \A i \in DOMAIN list : list[i].doc \in Indexed \ {d}
  <2>1. PICK m \in Nat : m = 2 * n
    BY <1>1
  <2>2. list = Neural(m, {d})
    BY <1>2, <2>1
  <2> QED
    BY ONLY <1>1, <2>2, m \in Nat, NeuralIs
<1>7. /\ Listed(r) /\ Len(r) <= n
      /\ \A i \in DOMAIN r : \E j \in DOMAIN list : r[i] = list[j]
      /\ OneEach(r)
  BY <1>1, <1>3, <1>6, FinishIs
<1>8. d \notin DocsIn(r)
  BY <1>6, <1>7 DEF DocsIn
<1>9. second - second <= SearchTtl
  <2>1. SearchTtl \in Nat
    BY SearchAssumption DEF SearchAssumption
  <2>2. second \in Nat
    BY <1>1 DEF SearchTypes
  <2> QED
    BY <2>1, <2>2
<1>10. /\ a.kind = "similar" /\ a.tenant = t /\ a.n = n /\ a.at = second /\ a.by = t
       /\ a.of = d /\ a.results = r
  BY <1>4
<1>11. ResultsSound'
  BY <1>1, <1>5, <1>7, <1>8, <1>9, <1>10, AnswerSound
<1> QED
  BY <1>5, <1>11, SameTypes DEF SearchInv

LEMMA ReindexKeeps ==
    ASSUME SearchInv, NEW d \in SearchDocs, NEW x \in SearchTexts, Reindex(d, x)
    PROVE  SearchInv'
<1>1. SearchTypes /\ \A e \in warm : WarmSound(e)
  BY DEF SearchInv
<1>2. PICK s \in Seq(SearchTexts) : s = versions[d]
  BY <1>1 DEF SearchTypes
<1>3. PICK u : u = Append(s, x)
  OBVIOUS
<1>4. /\ u \in Seq(SearchTexts) /\ Len(u) = Len(s) + 1 /\ Len(s) \in Nat
      /\ DOMAIN s \subseteq DOMAIN u /\ Len(u) \in DOMAIN u
  BY ONLY <1>3, AppendProperties, LenProperties, s \in Seq(SearchTexts), x \in SearchTexts
<1>5. /\ versions' = [versions EXCEPT ![d] = u]
      /\ clustered' = clustered /\ second' = second /\ warm' = warm /\ response' = NoAnswer
  BY <1>2, <1>3 DEF Reindex
<1>6. /\ versions' \in [SearchDocs -> Seq(SearchTexts)] /\ versions'[d] = u
      /\ \A k \in SearchDocs : k # d => versions'[k] = versions[k]
  BY <1>1, <1>4, <1>5 DEF SearchTypes
<1>7. \A k \in SearchDocs : DOMAIN versions[k] \subseteq DOMAIN versions'[k]
  <2> TAKE k \in SearchDocs
  <2>1. CASE k = d
    BY <1>2, <1>4, <1>6, <2>1
  <2>2. CASE k # d
    BY <1>6, <2>2
  <2> QED
    BY <2>1, <2>2
<1>8. PICK e : e = [doc |-> d, version |-> Len(u), tenant |-> NoTenant]
  OBVIOUS
<1>9. stored' = stored \/ stored' = stored \cup {e}
  BY <1>6, <1>8 DEF Reindex
<1>10. IsFiniteSet(stored')
  BY <1>1, <1>9, FS_AddElement DEF SearchTypes
<1>11. ASSUME NEW k \in stored'
       PROVE  k.doc \in SearchDocs /\ k.version \in DOMAIN versions'[k.doc]
  <2>1. CASE k \in stored
    BY <1>1, <1>7, <2>1 DEF SearchTypes
  <2>2. CASE k = e
    BY <1>4, <1>6, <1>8, <2>2
  <2> QED
    BY <1>9, <2>1, <2>2
<1>12. SearchTypes'
  BY <1>1, <1>5, <1>6, <1>10, <1>11 DEF SearchTypes
<1>13. ASSUME NEW f \in warm' PROVE WarmSound(f)'
  BY <1>1, <1>5, <1>7, <1>9, WarmRetained
<1>14. ResultsSound'
  BY <1>5 DEF ResultsSound, NoAnswer
<1> QED
  BY <1>12, <1>13, <1>14 DEF SearchInv

\* The steps that answer nothing and index nothing.
LEMMA NoAnswerKeeps ==
    ASSUME SearchInv, UNCHANGED <<versions, clustered, stored>>, warm' \subseteq warm,
           response' = NoAnswer, second' \in Nat
    PROVE  SearchInv'
<1>1. SearchTypes'
  BY DEF SearchInv, SearchTypes
<1>2. ASSUME NEW e \in warm' PROVE WarmSound(e)'
  BY WarmRetained DEF SearchInv
<1>3. ResultsSound'
  BY DEF ResultsSound, NoAnswer
<1> QED
  BY <1>1, <1>2, <1>3 DEF SearchInv

LEMMA SearchInvStep == SearchInv /\ [SearchNext]_searchVars => SearchInv'
<1> SUFFICES ASSUME SearchInv, [SearchNext]_searchVars PROVE SearchInv'
  OBVIOUS
<1>1. second \in Nat /\ second + 1 \in Nat
  BY DEF SearchInv, SearchTypes
<1>2. ASSUME NEW t \in Requesters, NEW mode \in Modes, NEW n \in Wanted,
             NEW min \in Thresholds,
             SearchHit(t, mode, n, min) \/ SearchMiss(t, mode, n, min)
      PROVE  SearchInv'
  BY <1>2, SearchHitKeeps, SearchMissKeeps
<1>3. ASSUME NEW t \in SearchTenants, NEW d \in SearchDocs, NEW n \in Wanted,
             FindSimilar(t, d, n)
      PROVE  SearchInv'
  BY <1>3, FindSimilarKeeps
<1>4. ASSUME NEW d \in SearchDocs, NEW x \in SearchTexts, Reindex(d, x)
      PROVE  SearchInv'
  BY <1>4, ReindexKeeps
<1>5. ASSUME NEW t \in SearchTenants, InvalidateTenant(t) PROVE SearchInv'
  <2>1. /\ UNCHANGED <<versions, clustered, stored>> /\ warm' \subseteq warm
        /\ response' = NoAnswer /\ second' = second
    BY <1>5 DEF InvalidateTenant
  <2> QED
    BY <1>1, <2>1, NoAnswerKeeps
<1>6. ASSUME NEW t \in SearchTenants, IncrementIndexVersion(t) PROVE SearchInv'
  <2>1. /\ UNCHANGED <<versions, clustered, stored>> /\ warm' \subseteq warm
        /\ response' = NoAnswer /\ second' = second
    BY <1>6 DEF IncrementIndexVersion
  <2> QED
    BY <1>1, <2>1, NoAnswerKeeps
<1>7. CASE SecondPasses
  <2>1. /\ UNCHANGED <<versions, clustered, stored>> /\ warm' \subseteq warm
        /\ response' = NoAnswer /\ second' = second + 1
    BY <1>7 DEF SecondPasses
  <2> QED
    BY <1>1, <2>1, NoAnswerKeeps
<1>8. CASE UNCHANGED searchVars
  <2>1. UNCHANGED <<versions, warm, clustered, stored, indexVersion, response, second>>
    BY <1>8 DEF searchVars
  <2>2. ResultsSound'
    BY <2>1 DEF SearchInv, ResultsSound, Indexed
  <2> QED
    BY <2>1, <2>2, SameTypes DEF SearchInv
<1> QED
  BY <1>2, <1>3, <1>4, <1>5, <1>6, <1>7, <1>8 DEF SearchNext

\* What is cached is worth an answer, however old the documents it was worked
\* out from (SearchHit, SearchMiss, Reindex).
THEOREM SearchInvCorrect == SearchSpec => []SearchInv
  BY SearchInvInit, SearchInvStep, PTL DEF SearchSpec

\* R3, R10: what every answer of a search can rely on, whether it comes from
\* the cache, from memory or from OpenSearch (RetrieverService.search).
THEOREM ResultsSoundCorrect == SearchSpec => []ResultsSound
<1>1. SearchInv => ResultsSound
  BY DEF SearchInv
<1> QED
  BY <1>1, SearchInvCorrect, PTL

-----------------------------------------------------------------------------
(* Induction over the naturals, for a property given as a set.             *)

LEMMA LeastNumber ==
    ASSUME NEW T \in SUBSET Nat, T # {}
    PROVE  \E n \in T : \A m \in T : n <= m
<1> DEFINE Less == {p \in Nat \X Nat : p[1] < p[2]}
<1>1. IsWellFoundedOn(Less, Nat)
  BY NatLessThanWellFounded DEF OpToRel
<1> HIDE DEF Less
<1>2. PICK n \in T : \A m \in T : ~ (<<m, n>> \in Less)
  BY <1>1, WFMin
<1>3. \A m \in T : ~ (m < n)
  BY <1>2 DEF Less
<1> QED
  BY <1>3

LEMMA NumberInduction ==
    ASSUME NEW T, 0 \in T, \A n \in Nat : n \in T => n + 1 \in T
    PROVE  Nat \subseteq T
<1> DEFINE R == Nat \ T
<1>1. SUFFICES ASSUME R # {} PROVE FALSE
  OBVIOUS
<1>2. PICK n \in R : \A m \in R : n <= m
  BY <1>1, LeastNumber
<1>3. n # 0 /\ n - 1 \in Nat
  OBVIOUS
<1>4. n - 1 \in T
  BY <1>2, <1>3
<1> QED
  BY <1>3, <1>4

-----------------------------------------------------------------------------
(* Sequences put in another order, or thinned out.                         *)

\* r has the entries of s at the places p, each place at most once.
Drawn(r, s, p) ==
    /\ p \in [1..Len(r) -> 1..Len(s)]
    /\ \A i, j \in 1..Len(r) : p[i] = p[j] => i = j
    /\ \A i \in 1..Len(r) : r[i] = s[p[i]]

Onto(p, m, P) == \A i \in P : \E k \in 1..m : p[k] = i

LEMMA NumbersOrdered ==
    ASSUME NEW P, P \subseteq Nat
    PROVE  StrictOrder(P, {q \in P \X P : q[1] < q[2]})
<1>1. \A x, y \in P : <<x, y>> \in {q \in P \X P : q[1] < q[2]} <=> x < y
  OBVIOUS
<1>2. \A x \in P : x \in Int
  OBVIOUS
<1> HIDE DEF StrictOrder
<1>3. \A x, y, z \in P : x < y /\ y < z => x < z
  BY <1>2
<1>4. \A x, y \in P : ~ (x < x) /\ (x = y \/ x < y \/ y < x)
  BY <1>2
<1> QED
  BY <1>1, <1>3, <1>4 DEF StrictOrder

LEMMA TakenIs ==
    ASSUME NEW S, NEW s \in Seq(S), NEW P, P \subseteq 1..Len(s), NEW r, r = Taken(s, P)
    PROVE  /\ r \in Seq(S)
           /\ \E p : /\ Drawn(r, s, p)
                     /\ \A i \in 1..Len(r) : p[i] \in P
                     /\ \A i, j \in 1..Len(r) : i < j => p[i] < p[j]
<1> DEFINE R == {q \in P \X P : q[1] < q[2]}
<1>1. Len(s) \in Nat /\ \A i \in 1..Len(s) : s[i] \in S
  OBVIOUS
<1>2. IsFiniteSet(P)
  <2>1. IsFiniteSet(1..Len(s))
    BY <1>1, FS_Interval
  <2> QED
    BY <2>1, FS_Subset
<1>3. P \subseteq Nat
  BY <1>1
<1>4. PICK m : m = Cardinality(P)
  OBVIOUS
<1>6. \A x \in P : {j \in P : j < x} = Below(x, P, R)
  BY DEF Below
<1>16. StrictOrder(P, R) /\ \A x, y \in P : <<x, y>> \in R <=> x < y
  BY <1>3, NumbersOrdered
<1> HIDE DEF R
<1>5. /\ m \in Nat
      /\ \A x, y \in P : <<x, y>> \in R <=>
             Cardinality(Below(x, P, R)) < Cardinality(Below(y, P, R))
      /\ \A k \in 1..m : \E x \in P : Cardinality(Below(x, P, R)) = k - 1
  BY ONLY <1>2, <1>4, <1>16, PlacesTaken
<1> DEFINE h(k) == CHOOSE i \in P : Cardinality({j \in P : j < i}) = k - 1
<1>8. ASSUME NEW k \in 1..m
      PROVE  h(k) \in P /\ Cardinality(Below(h(k), P, R)) = k - 1
  <2>1. \E i \in P : Cardinality({j \in P : j < i}) = k - 1
    BY <1>5, <1>6
  <2>2. h(k) \in P /\ Cardinality({j \in P : j < h(k)}) = k - 1
    BY <2>1
  <2> HIDE DEF h
  <2> QED
    BY <1>6, <2>2
<1>9. r = [k \in 1..m |-> s[h(k)]]
  BY <1>4 DEF Taken
<1> HIDE DEF h
<1>7. PICK p : p = [k \in 1..m |-> h(k)]
  OBVIOUS
<1>17. \A k \in 1..m : p[k] = h(k)
  BY <1>7
<1>10. DOMAIN r = 1..m /\ \A k \in 1..m : r[k] = s[p[k]] /\ r[k] \in S /\ p[k] \in 1..Len(s)
  BY <1>1, <1>8, <1>9, <1>17
<1>11. r \in Seq(S) /\ Len(r) = m
  <2>1. r \in [1..m -> S]
    BY ONLY <1>9, <1>10
  <2> QED
    BY ONLY <1>5, <1>10, <2>1, LenProperties, SeqDef
<1>12. ASSUME NEW i \in 1..m, NEW j \in 1..m, i < j PROVE p[i] < p[j]
  <2>1. /\ Cardinality(Below(p[i], P, R)) = i - 1
        /\ Cardinality(Below(p[j], P, R)) = j - 1
        /\ p[i] \in P /\ p[j] \in P
    BY <1>8, <1>17
  <2>2. i - 1 < j - 1
    BY <1>5, <1>12
  <2>3. <<p[i], p[j]>> \in R
    BY ONLY <1>5, <2>1, <2>2
  <2> QED
    BY <1>16, <2>1, <2>3
<1>13. \A i, j \in 1..m : p[i] = p[j] => i = j
  <2> SUFFICES ASSUME NEW i \in 1..m, NEW j \in 1..m, p[i] = p[j], i # j PROVE FALSE
    OBVIOUS
  <2>1. p[i] \in Nat /\ (i < j \/ j < i)
    BY <1>3, <1>5, <1>8, <1>17
  <2>2. p[i] < p[j] \/ p[j] < p[i]
    BY <1>12, <2>1
  <2> QED
    BY <2>1, <2>2
<1>14. p \in [1..m -> 1..Len(s)]
  <2>1. \A k \in 1..m : h(k) \in 1..Len(s)
    BY <1>8
  <2> QED
    BY ONLY <1>7, <2>1
<1>15. Drawn(r, s, p)
  BY <1>10, <1>11, <1>13, <1>14 DEF Drawn
<1> QED
  BY <1>8, <1>11, <1>12, <1>15, <1>17

\* r is s in the order of the keys, equal ones in the order of s.
InOrderOf(r, s, key) ==
    \E p : /\ Drawn(r, s, p) /\ Onto(p, Len(r), 1..Len(s))
           /\ \A i, j \in 1..Len(r) : i < j =>
                  key[p[i]] < key[p[j]] \/ (key[p[i]] = key[p[j]] /\ p[i] < p[j])

\* A stable sort leaves nothing out, and equal entries as they are.
LEMMA SortedIs ==
    ASSUME NEW S, NEW s \in Seq(S), NEW key \in Seq(Int), Len(key) = Len(s),
           NEW r, r = StableSort(s, key)
    PROVE  /\ r \in Seq(S) /\ Len(r) = Len(s)
           /\ InOrderOf(r, s, key)
<1>1. PICK m \in Nat : m = Len(s)
  OBVIOUS
<1> DEFINE P == 1..m
           ahead(i, j) == key[i] < key[j] \/ (key[i] = key[j] /\ i < j)
           R == {q \in P \X P : ahead(q[1], q[2])}
<1>2. /\ DOMAIN s = P /\ DOMAIN key = P
      /\ \A i \in P : s[i] \in S /\ key[i] \in Int /\ i \in Int
  BY <1>1
<1>3. \A x, y \in P : <<x, y>> \in R <=> ahead(x, y)
  OBVIOUS
<1>4. StrictOrder(P, R)
  <2>1. \A x \in P : ~ ahead(x, x)
    BY <1>2
  <2>2. ASSUME NEW x \in P, NEW y \in P, NEW z \in P, ahead(x, y), ahead(y, z)
        PROVE  ahead(x, z)
    BY <1>2, <2>2
  <2>3. \A x, y \in P : x = y \/ ahead(x, y) \/ ahead(y, x)
    BY <1>2
  <2> HIDE DEF ahead, R
  <2> QED
    BY <1>3, <2>1, <2>2, <2>3 DEF StrictOrder
<1>5. IsFiniteSet(P) /\ Cardinality(P) = m
  <2>1. IsFiniteSet(1..m) /\ Cardinality(1..m) = IF 1 > m THEN 0 ELSE m - 1 + 1
    BY FS_Interval
  <2>2. Cardinality(1..m) = m
    BY ONLY <2>1, m \in Nat
  <2> QED
    BY <2>1, <2>2
<1>6. \A x \in P : Earlier(x, key) = Below(x, P, R)
  BY <1>2 DEF Earlier, Below
<1> HIDE DEF R
<1>7. /\ \A x \in P : Cardinality(Below(x, P, R)) \in 0..(m - 1)
      /\ \A x, y \in P : <<x, y>> \in R <=>
             Cardinality(Below(x, P, R)) < Cardinality(Below(y, P, R))
      /\ \A k \in 1..m : \E x \in P : Cardinality(Below(x, P, R)) = k - 1
  <2> HIDE DEF P
  <2> QED
    BY <1>4, <1>5, PlacesTaken
<1>8. PICK p : p = [k \in P |-> CHOOSE i \in P : Cardinality(Earlier(i, key)) = k - 1]
  OBVIOUS
<1>9. ASSUME NEW k \in P PROVE p[k] \in P /\ Cardinality(Below(p[k], P, R)) = k - 1
  <2>1. \E i \in P : Cardinality(Earlier(i, key)) = k - 1
    BY <1>6, <1>7
  <2>2. p[k] \in P /\ Cardinality(Earlier(p[k], key)) = k - 1
    BY <1>8, <2>1
  <2> QED
    BY <1>6, <2>2
<1>10. r = [k \in P |-> s[p[k]]]
  BY <1>2, <1>8 DEF StableSort
<1>11. r \in Seq(S) /\ Len(r) = m
  <2>1. r \in [1..m -> S] /\ DOMAIN r = 1..m
    BY <1>2, <1>9, <1>10
  <2> QED
    BY ONLY <2>1, m \in Nat, LenProperties, SeqDef
<1>12. ASSUME NEW i \in P, NEW j \in P, i < j PROVE ahead(p[i], p[j])
  <2>1. i - 1 < j - 1
    BY <1>12
  <2>2. Cardinality(Below(p[i], P, R)) < Cardinality(Below(p[j], P, R))
    BY <1>9, <2>1
  <2> QED
    BY <1>3, <1>7, <1>9, <2>2
<1>13. \A i, j \in P : p[i] = p[j] => i = j
  <2> SUFFICES ASSUME NEW i \in P, NEW j \in P, p[i] = p[j] PROVE i = j
    OBVIOUS
  <2>1. i - 1 = j - 1
    BY <1>9
  <2> QED
    BY <2>1
<1>14. Onto(p, m, P)
  <2> SUFFICES ASSUME NEW i \in P PROVE \E k \in P : p[k] = i
    BY DEF Onto
  <2>1. PICK c : c = Cardinality(Below(i, P, R))
    OBVIOUS
  <2>2. c \in 0..(m - 1)
    BY <1>7, <2>1
  <2>3. c + 1 \in P /\ (c + 1) - 1 = c
    BY <2>2
  <2>4. p[c + 1] \in P /\ Cardinality(Below(p[c + 1], P, R)) = c
    BY <1>9, <2>3
  <2>5. ~ (c < c)
    BY <2>2
  <2>6. <<i, p[c + 1]>> \notin R /\ <<p[c + 1], i>> \notin R
    BY <1>7, <2>1, <2>4, <2>5
  <2>7. p[c + 1] = i
    BY <1>4, <2>4, <2>6 DEF StrictOrder
  <2> QED
    BY <2>3, <2>7
<1>15. p \in [1..m -> 1..m]
  BY <1>8, <1>9
<1>16. Drawn(r, s, p)
  BY <1>1, <1>10, <1>11, <1>13, <1>15 DEF Drawn
<1>17. \A i, j \in P : i < j =>
           key[p[i]] < key[p[j]] \/ (key[p[i]] = key[p[j]] /\ p[i] < p[j])
  BY <1>12
<1> QED
  BY <1>1, <1>11, <1>14, <1>16, <1>17 DEF InOrderOf

-----------------------------------------------------------------------------
(* What a step does to its results.                                        *)

\* The same result, but for its score.
Like(a, b) ==
    /\ a.url = b.url /\ a.domain = b.domain /\ a.age = b.age
    /\ a.lang = b.lang /\ a.cred = b.cred

\* Every result of r is one of s, and no two are the same one.
From(r, s) ==
    \E p \in [1..Len(r) -> 1..Len(s)] :
        /\ \A i, j \in 1..Len(r) : p[i] = p[j] => i = j
        /\ \A i \in 1..Len(r) : Like(r[i], s[p[i]])

\* The same with its order, and the scores as they are.
Thinned(r, s) ==
    \E p : /\ Drawn(r, s, p)
           /\ \A i, j \in 1..Len(r) : i < j => p[i] < p[j]

ByScore(r) == \A i, j \in 1..Len(r) : i < j => r[i].score >= r[j].score

FieldsApart(r, field) ==
    \A i, j \in 1..Len(r) : FieldOf(r[i], field) = FieldOf(r[j], field) => i = j

DedupFields == {"url", "language", "no field"}

Passed(r, f) == \A i \in 1..Len(r) : Keeps(f, r[i])

LEMMA LikeSame == \A a : Like(a, a)
  BY DEF Like

LEMMA LikeFields ==
    ASSUME NEW a, NEW b, Like(a, b), NEW field \in DedupFields
    PROVE  FieldOf(a, field) = FieldOf(b, field)
<1>1. field = "url" \/ field = "language" \/ field = "no field"
  BY DEF DedupFields
<1>2. CASE field = "url"
  BY <1>2 DEF Like, FieldOf
<1>3. CASE field = "language"
  BY <1>3 DEF Like, FieldOf
<1>4. CASE field = "no field"
  BY <1>4 DEF FieldOf
<1> QED
  BY <1>1, <1>2, <1>3, <1>4

LEMMA ThinnedFrom ==
    ASSUME NEW r, NEW s, Thinned(r, s)
    PROVE  From(r, s)
<1>1. PICK p : Drawn(r, s, p)
  BY DEF Thinned
<1>2. \A i \in 1..Len(r) : Like(r[i], s[p[i]])
  BY <1>1, LikeSame DEF Drawn
<1> QED
  BY <1>1, <1>2 DEF From, Drawn

LEMMA LikeAgain == \A a, b, c : Like(a, b) /\ Like(b, c) => Like(a, c)
  BY DEF Like

\* What filters and deduplication leave of an order.
LEMMA ThinnedKeeps ==
    ASSUME NEW r, NEW s, Thinned(r, s), ByScore(s)
    PROVE  ByScore(r)
<1>1. PICK p : /\ Drawn(r, s, p)
               /\ \A i, j \in 1..Len(r) : i < j => p[i] < p[j]
  BY DEF Thinned
<1>2. \A i \in 1..Len(r) : p[i] \in 1..Len(s) /\ r[i] = s[p[i]]
  BY <1>1 DEF Drawn
<1> QED
  BY <1>1, <1>2 DEF ByScore

\* No step brings back what a filter has taken out, or doubles a field.
LEMMA FromKeeps ==
    ASSUME NEW r, NEW s, From(r, s)
    PROVE  /\ \A f \in DedupFields : FieldsApart(s, f) => FieldsApart(r, f)
           /\ \A f \in Filters : Passed(s, f) => Passed(r, f)
           /\ \A t : From(s, t) => From(r, t)
<1>1. PICK p : /\ p \in [1..Len(r) -> 1..Len(s)]
               /\ \A i, j \in 1..Len(r) : p[i] = p[j] => i = j
               /\ \A i \in 1..Len(r) : Like(r[i], s[p[i]])
  BY DEF From
<1>2. \A i \in 1..Len(r) : p[i] \in 1..Len(s)
  BY <1>1
<1>3. ASSUME NEW f \in DedupFields, FieldsApart(s, f) PROVE FieldsApart(r, f)
  <2> SUFFICES ASSUME NEW i \in 1..Len(r), NEW j \in 1..Len(r),
                      FieldOf(r[i], f) = FieldOf(r[j], f)
               PROVE  i = j
    BY DEF FieldsApart
  <2>1. Like(r[i], s[p[i]]) /\ Like(r[j], s[p[j]])
    BY <1>1
  <2>2. /\ FieldOf(r[i], f) = FieldOf(s[p[i]], f)
        /\ FieldOf(r[j], f) = FieldOf(s[p[j]], f)
    BY <2>1, LikeFields
  <2>3. FieldOf(s[p[i]], f) = FieldOf(s[p[j]], f)
    BY <2>2
  <2>4. p[i] = p[j]
    BY <1>2, <1>3, <2>3 DEF FieldsApart
  <2> QED
    BY <1>1, <2>4
<1>4. ASSUME NEW f \in Filters, Passed(s, f) PROVE Passed(r, f)
  <2> SUFFICES ASSUME NEW i \in 1..Len(r) PROVE Keeps(f, r[i])
    BY DEF Passed
  <2>1. Keeps(f, s[p[i]]) /\ Like(r[i], s[p[i]])
    BY <1>1, <1>2, <1>4 DEF Passed
  <2> QED
    BY <2>1 DEF Keeps, Like, Filters
<1>5. ASSUME NEW t, From(s, t) PROVE From(r, t)
  <2>1. PICK q : /\ q \in [1..Len(s) -> 1..Len(t)]
                 /\ \A i, j \in 1..Len(s) : q[i] = q[j] => i = j
                 /\ \A i \in 1..Len(s) : Like(s[i], t[q[i]])
    BY <1>5 DEF From
  <2>2. PICK u : u = [i \in 1..Len(r) |-> q[p[i]]]
    OBVIOUS
  <2>3. u \in [1..Len(r) -> 1..Len(t)] /\ \A i \in 1..Len(r) : u[i] = q[p[i]]
    BY <1>2, <2>1, <2>2
  <2>4. \A i, j \in 1..Len(r) : u[i] = u[j] => i = j
    BY <1>1, <1>2, <2>1, <2>3
  <2>5. ASSUME NEW i \in 1..Len(r) PROVE Like(r[i], t[u[i]])
    <3>1. Like(r[i], s[p[i]]) /\ p[i] \in 1..Len(s) /\ u[i] = q[p[i]]
      BY <1>1, <1>2, <2>3
    <3>2. Like(s[p[i]], t[u[i]])
      BY <2>1, <3>1
    <3> QED
      BY <3>1, <3>2, LikeAgain
  <2> QED
    BY <2>3, <2>4, <2>5 DEF From
<1> QED
  BY <1>3, <1>4, <1>5

LEMMA ScoreTyped ==
    ASSUME NEW step \in Rerankers, NEW r \in Result, NEW i \in Nat
    PROVE  NewScore(step, r, i) \in Int
<1>1. MaxScore \in Nat \ {0} /\ Boost \in Nat /\ Weight \in Int
  <2>1. MaxScore \in Nat \ {0} /\ Boost \in Nat /\ Weight \in 0..MaxScore
    BY PipelineAssumption, Zenon DEF PipelineAssumption
  <2> QED
    BY ONLY <2>1
<1>2. r.score \in Int /\ r.cred \in Int
  BY DEF Result
<1>3. \A n \in Int : Capped(n) \in Int
  BY <1>1 DEF Capped
<1>4. CASE step = "score_reranker"
  <2>1. r.score * Boost \in Int
    BY <1>1, <1>2
  <2> QED
    BY <1>2, <1>3, <1>4, <2>1 DEF NewScore
<1>5. CASE step = "credibility_reranker"
  <2>1. PICK a \in Int : a = (MaxScore - Weight) * r.score + Weight * r.cred
    BY <1>1, <1>2
  <2>2. a \div MaxScore \in Int
    BY <1>1
  <2> QED
    BY <1>3, <1>5, <2>1, <2>2 DEF NewScore
<1>6. CASE step = "reciprocal_rank_reranker"
  <2>1. 1 + i \in Nat \ {0}
    OBVIOUS
  <2>2. MaxScore \div (1 + i) \in Int
    BY <1>1, <2>1
  <2> QED
    BY <1>6, <2>2 DEF NewScore
<1> QED
  BY <1>4, <1>5, <1>6 DEF Rerankers

LEMMA RescoredIs ==
    ASSUME NEW step \in Rerankers, NEW s \in Seq(Result), NEW r, r = Rescored(step, s)
    PROVE  r \in Seq(Result) /\ From(r, s) /\ ByScore(r)
<1>1. PICK n \in Nat : n = Len(s)
  OBVIOUS
<1>2. DOMAIN s = 1..n /\ \A i \in 1..n : s[i] \in Result /\ i \in Nat
  BY <1>1
<1>3. PICK u : u = [i \in 1..n |-> [s[i] EXCEPT !.score = NewScore(step, s[i], i)]]
  OBVIOUS
<1>4. ASSUME NEW i \in 1..n PROVE u[i] \in Result /\ Like(u[i], s[i])
  <2>1. PICK k \in Int : k = NewScore(step, s[i], i)
    BY <1>2, ScoreTyped
  <2>2. u[i] = [s[i] EXCEPT !.score = k]
    BY <1>3, <2>1
  <2> QED
    BY <1>2, <2>2 DEF Result, Like
<1>5. u \in Seq(Result) /\ Len(u) = n /\ DOMAIN u = 1..n
  <2>1. DOMAIN u = 1..n /\ u \in [1..n -> Result]
    BY <1>3, <1>4
  <2> QED
    BY ONLY <2>1, n \in Nat, LenProperties, SeqDef
<1>6. PICK key : key = [i \in 1..n |-> -u[i].score]
  OBVIOUS
<1>7. \A i \in 1..n : u[i].score \in Int /\ key[i] = -u[i].score /\ key[i] \in Int
  BY <1>4, <1>6 DEF Result
<1>8. key \in Seq(Int) /\ Len(key) = n
  <2>1. DOMAIN key = 1..n /\ key \in [1..n -> Int]
    BY <1>6, <1>7
  <2> QED
    BY ONLY <2>1, n \in Nat, LenProperties, SeqDef
<1>9. r = StableSort(u, key)
  BY <1>2, <1>3, <1>5, <1>6 DEF Rescored
<1>10. /\ r \in Seq(Result) /\ Len(r) = n
       /\ InOrderOf(r, u, key)
  <2>1. u \in Seq(Result) /\ key \in Seq(Int) /\ Len(key) = Len(u) /\ Len(u) = n
    BY <1>5, <1>8
  <2> QED
    BY ONLY <1>9, <2>1, SortedIs
<1>11. PICK p : /\ Drawn(r, u, p)
                /\ \A i, j \in 1..Len(r) : i < j =>
                       key[p[i]] < key[p[j]] \/ key[p[i]] = key[p[j]]
  BY <1>10 DEF InOrderOf
<1>12. \A i \in 1..n : p[i] \in 1..n /\ r[i] = u[p[i]]
  BY <1>5, <1>10, <1>11 DEF Drawn
<1>13. ByScore(r)
  <2> SUFFICES ASSUME NEW i \in 1..n, NEW j \in 1..n, i < j
               PROVE  r[i].score >= r[j].score
    BY <1>10 DEF ByScore
  <2>1. key[p[i]] < key[p[j]] \/ key[p[i]] = key[p[j]]
    BY <1>10, <1>11
  <2>2. /\ u[p[i]].score \in Int /\ key[p[i]] = -u[p[i]].score
        /\ u[p[j]].score \in Int /\ key[p[j]] = -u[p[j]].score
        /\ r[i] = u[p[i]] /\ r[j] = u[p[j]]
    BY <1>7, <1>12
  <2> QED
    BY ONLY <2>1, <2>2
<1>14. From(r, s)
  <2>1. \A i \in 1..n : Like(r[i], s[p[i]])
    BY <1>4, <1>12
  <2> QED
    BY <1>1, <1>5, <1>10, <1>11, <2>1 DEF From, Drawn
<1> QED
  BY <1>10, <1>13, <1>14

LEMMA FirstOnes ==
    ASSUME NEW field, NEW s \in Seq(Result), NEW r, r = FirstOfEach(field, s)
    PROVE  r \in Seq(Result) /\ Thinned(r, s) /\ FieldsApart(r, field)
<1> DEFINE P == {i \in DOMAIN s : \A j \in DOMAIN s :
                    j < i => FieldOf(s[j], field) # FieldOf(s[i], field)}
<1>1. DOMAIN s = 1..Len(s) /\ Len(s) \in Nat
  OBVIOUS
<1>2. P \subseteq 1..Len(s)
  BY <1>1
<1>3. r = Taken(s, P)
  BY DEF FirstOfEach
<1>4. \A i, j \in P : FieldOf(s[i], field) = FieldOf(s[j], field) => i = j
  BY <1>1
<1> HIDE DEF P
<1>5. /\ r \in Seq(Result)
      /\ \E p : /\ Drawn(r, s, p)
                /\ \A i \in 1..Len(r) : p[i] \in P
                /\ \A i, j \in 1..Len(r) : i < j => p[i] < p[j]
  BY <1>2, <1>3, TakenIs
<1>6. PICK p : /\ Drawn(r, s, p)
               /\ \A i \in 1..Len(r) : p[i] \in P
               /\ \A i, j \in 1..Len(r) : i < j => p[i] < p[j]
  BY <1>5
<1>7. FieldsApart(r, field)
  BY <1>4, <1>6 DEF FieldsApart, Drawn
<1> QED
  BY <1>5, <1>6, <1>7 DEF Thinned

LEMMA Filtered ==
    ASSUME NEW step \in Filters, NEW s \in Seq(Result),
           NEW r, r = Taken(s, {i \in DOMAIN s : Keeps(step, s[i])})
    PROVE  r \in Seq(Result) /\ Thinned(r, s) /\ Passed(r, step)
<1> DEFINE P == {i \in DOMAIN s : Keeps(step, s[i])}
<1>1. P \subseteq 1..Len(s)
  OBVIOUS
<1>2. r = Taken(s, P) /\ \A i \in P : Keeps(step, s[i])
  OBVIOUS
<1> HIDE DEF P
<1>3. /\ r \in Seq(Result)
      /\ \E p : /\ Drawn(r, s, p)
                /\ \A i \in 1..Len(r) : p[i] \in P
                /\ \A i, j \in 1..Len(r) : i < j => p[i] < p[j]
  BY <1>1, <1>2, TakenIs
<1>4. PICK p : /\ Drawn(r, s, p)
               /\ \A i \in 1..Len(r) : p[i] \in P
               /\ \A i, j \in 1..Len(r) : i < j => p[i] < p[j]
  BY <1>3
<1>5. Passed(r, step)
  BY <1>2, <1>4 DEF Passed, Drawn
<1> QED
  BY <1>3, <1>4, <1>5 DEF Thinned

LEMMA AllThere ==
    ASSUME NEW s \in Seq(Result)
    PROVE  Thinned(s, s)
<1>1. PICK p : p = [i \in 1..Len(s) |-> i]
  OBVIOUS
<1>2. p \in [1..Len(s) -> 1..Len(s)] /\ \A i \in 1..Len(s) : p[i] = i
  BY <1>1
<1>3. Drawn(s, s, p)
  BY <1>2 DEF Drawn
<1> QED
  BY <1>2, <1>3 DEF Thinned

LEMMA FieldKnown ==
    ASSUME NEW step
    PROVE  FieldFor(step) \in DedupFields
<1>1. DedupField \in DedupFields /\ "url" \in DedupFields
  BY PipelineAssumption DEF PipelineAssumption, DedupFields
<1> QED
  BY <1>1, Zenon DEF FieldFor

\* What each step promises, and none of them undoes.
LEMMA ApplyIs ==
    ASSUME NEW step \in StepsOf(Registered), NEW s \in Seq(Result), NEW r, r = Apply(step, s)
    PROVE  /\ r \in Seq(Result) /\ From(r, s)
           /\ Filtering(step) => Passed(r, step.name)
           /\ Reranking(step) \/ ByScore(s) => ByScore(r)
           /\ Deduplicating(step) => FieldsApart(r, FieldFor(step))
<1>1. CASE Filtering(step)
  <2>1. ~ Reranking(step) /\ ~ Deduplicating(step) /\ step.name \in Filters
    BY <1>1 DEF Filtering, Reranking, Deduplicating, Filters, Rerankers
  <2>2. r = Taken(s, {i \in DOMAIN s : Keeps(step.name, s[i])})
    BY <1>1, <2>1, Zenon DEF Apply
  <2>3. r \in Seq(Result) /\ Thinned(r, s) /\ Passed(r, step.name)
    BY <2>1, <2>2, Filtered
  <2> QED
    BY <2>1, <2>3, ThinnedFrom, ThinnedKeeps
<1>2. CASE Reranking(step)
  <2>1. ~ Filtering(step) /\ ~ Deduplicating(step) /\ step.name \in Rerankers
    BY <1>2 DEF Filtering, Reranking, Deduplicating, Filters, Rerankers
  <2>2. r = Rescored(step.name, s)
    BY <1>2, <2>1, Zenon DEF Apply
  <2>3. r \in Seq(Result) /\ From(r, s) /\ ByScore(r)
    BY <2>1, <2>2, RescoredIs
  <2> QED
    BY <2>1, <2>3
<1>3. CASE Deduplicating(step)
  <2>1. ~ Filtering(step) /\ ~ Reranking(step)
    BY <1>3 DEF Filtering, Reranking, Deduplicating, Filters, Rerankers
  <2>2. r = FirstOfEach(FieldFor(step), s)
    BY <1>3, <2>1, Zenon DEF Apply
  <2>3. r \in Seq(Result) /\ Thinned(r, s) /\ FieldsApart(r, FieldFor(step))
    BY <2>2, FirstOnes
  <2> QED
    BY <2>1, <2>3, ThinnedFrom, ThinnedKeeps
<1>4. CASE ~ Filtering(step) /\ ~ Reranking(step) /\ ~ Deduplicating(step)
  <2>1. r = s
    BY <1>4, Zenon DEF Apply
  <2> QED
    BY <1>4, <2>1, AllThere, ThinnedFrom
<1> QED
  BY <1>1, <1>2, <1>3, <1>4

-----------------------------------------------------------------------------
(* The order a definition is executed in.                                  *)

LEMMA Climbs ==
    ASSUME NEW n \in Nat, NEW f \in [1..n -> Int],
           \A i \in 2..n : f[i - 1] <= f[i]
    PROVE  \A i, j \in 1..n : i < j => f[i] <= f[j]
<1> DEFINE T == {m \in Nat : \A i, j \in 1..n : j = i + m => f[i] <= f[j]}
<1>1. 0 \in T
  <2> SUFFICES ASSUME NEW i \in 1..n, NEW j \in 1..n, j = i + 0 PROVE f[i] <= f[j]
    OBVIOUS
  <2>1. i = j /\ f[i] \in Int
    OBVIOUS
  <2> QED
    BY <2>1
<1>2. ASSUME NEW m \in Nat, m \in T PROVE m + 1 \in T
  <2> SUFFICES ASSUME NEW i \in 1..n, NEW j \in 1..n, j = i + (m + 1) PROVE f[i] <= f[j]
    BY <1>2
  <2>1. j - 1 \in 1..n /\ j \in 2..n /\ j - 1 = i + m
    OBVIOUS
  <2>2. f[i] <= f[j - 1] /\ f[j - 1] <= f[j]
    BY <1>2, <2>1
  <2>3. f[i] \in Int /\ f[j] \in Int /\ f[j - 1] \in Int
    BY <2>1
  <2> QED
    BY <2>2, <2>3
<1> HIDE DEF T
<1>3. Nat \subseteq T
  BY <1>1, <1>2, NumberInduction
<1> SUFFICES ASSUME NEW i \in 1..n, NEW j \in 1..n, i < j PROVE f[i] <= f[j]
  OBVIOUS
<1>4. j - i \in Nat /\ j = i + (j - i)
  OBVIOUS
<1> QED
  BY <1>3, <1>4 DEF T

\* Every place of the definition once, in the order R9.4 asks for.
Placed(o, q) ==
    /\ o \in Seq(1..Len(q)) /\ Len(o) = Len(q)
    /\ \A i, j \in 1..Len(o) : i < j => ComesBefore(o[i], o[j], q)

LEMMA OrderedIs ==
    ASSUME NEW q \in Seq(StepsOf(Registered)), NEW r, r = Ordered(q)
    PROVE  Placed(r, q)
<1>1. PICK n \in Nat : n = Len(q)
  OBVIOUS
<1>2. DOMAIN q = 1..n
  BY <1>1
<1>3. PICK key : key = [i \in 1..n |-> TypeOrder(q[i])]
  OBVIOUS
<1>4. \A i \in 1..n : key[i] \in Int /\ key[i] = TypeOrder(q[i])
  BY <1>3 DEF TypeOrder
<1>5. key \in [1..n -> Int]
  BY <1>3, <1>4
<1>6. PICK s : s = [i \in 1..n |-> i]
  OBVIOUS
<1>7. s \in Seq(1..n) /\ Len(s) = n /\ \A i \in 1..n : s[i] = i
  <2>1. DOMAIN s = 1..n /\ s \in [1..n -> 1..n]
    BY <1>6
  <2>2. s \in Seq(1..n) /\ Len(s) = n
    BY ONLY <2>1, n \in Nat, LenProperties, SeqDef
  <2> QED
    BY <1>6, <2>2
<1>8. AsDeclared(q) = s
  BY <1>2, <1>6 DEF AsDeclared
<1>9. CASE InTypeOrder(q)
  <2>1. r = s
    BY <1>8, <1>9 DEF Ordered
  <2>2. ASSUME NEW i \in 2..n PROVE key[i - 1] <= key[i]
    <3>1. i \in DOMAIN q \ {1} /\ i - 1 \in 1..n /\ i \in 1..n
      BY <1>2
    <3>2. TypeOrder(q[i - 1]) <= TypeOrder(q[i])
      BY <1>9, <3>1 DEF InTypeOrder
    <3> QED
      BY <1>4, <3>1, <3>2
  <2>3. \A i, j \in 1..n : i < j => key[i] <= key[j]
    BY ONLY <1>5, <2>2, n \in Nat, Climbs
  <2>4. ASSUME NEW i \in 1..n, NEW j \in 1..n, i < j PROVE ComesBefore(r[i], r[j], q)
    <3>1. r[i] = i /\ r[j] = j /\ key[i] <= key[j]
      BY <1>7, <2>1, <2>3, <2>4
    <3>2. key[i] < key[j] \/ key[i] = key[j]
      BY <1>4, <3>1
    <3> QED
      BY <1>4, <2>4, <3>1, <3>2 DEF ComesBefore
  <2> QED
    BY <1>1, <1>7, <2>1, <2>4 DEF Placed
<1>10. CASE ~ InTypeOrder(q)
  <2>1. r = StableSort(s, key)
    BY <1>2, <1>3, <1>8, <1>10 DEF Ordered
  <2>2. key \in Seq(Int) /\ Len(key) = n
    <3>1. DOMAIN key = 1..n /\ key \in [1..n -> Int]
      BY <1>3, <1>5
    <3> QED
      BY ONLY <3>1, n \in Nat, LenProperties, SeqDef
  <2>3. s \in Seq(1..n) /\ Len(key) = Len(s)
    BY <1>7, <2>2
  <2>4. r \in Seq(1..n) /\ Len(r) = Len(s) /\ InOrderOf(r, s, key)
    BY ONLY <2>1, <2>2, <2>3, SortedIs
  <2>5. PICK p : /\ Drawn(r, s, p)
                 /\ \A i, j \in 1..Len(r) : i < j =>
                        key[p[i]] < key[p[j]] \/ (key[p[i]] = key[p[j]] /\ p[i] < p[j])
    BY <2>4 DEF InOrderOf
  <2>6. Len(r) = n
    BY <1>7, <2>4
  <2>7. \A i \in 1..n : p[i] \in 1..n /\ r[i] = p[i]
    BY <1>7, <2>5, <2>6 DEF Drawn
  <2>8. ASSUME NEW i \in 1..n, NEW j \in 1..n, i < j PROVE ComesBefore(r[i], r[j], q)
    BY <1>4, <2>5, <2>6, <2>7, <2>8 DEF ComesBefore
  <2> QED
    BY <1>1, <2>4, <2>6, <2>8 DEF Placed
<1> QED
  BY <1>9, <1>10

LEMMA HeadTaken ==
    ASSUME NEW S, NEW q \in Seq(S), q # <<>>
    PROVE  /\ Head(q) \in S /\ Head(q) = q[1] /\ Tail(q) \in Seq(S)
           /\ Len(q) \in Nat \ {0} /\ Len(Tail(q)) = Len(q) - 1
           /\ \A i \in 1..(Len(q) - 1) : Tail(q)[i] = q[i + 1]
  OBVIOUS

LEMMA OneMore ==
    ASSUME NEW S, NEW q \in Seq(S), NEW e \in S
    PROVE  /\ Append(q, e) \in Seq(S) /\ Len(Append(q, e)) = Len(q) + 1
           /\ \A i \in 1..Len(q) : Append(q, e)[i] = q[i]
           /\ Append(q, e)[Len(q) + 1] = e
  OBVIOUS

-----------------------------------------------------------------------------
(* An execution.                                                           *)

Definitions == [tenant : PipelineTenants, steps : Seq(StepsOf(Registered)), kept : BOOLEAN]

Entries == [place : Nat, effect : BOOLEAN, results : Seq(Result)]

Executions ==
    [at : {"step", "raised", "returned"}, tenant : PipelineTenants, pipeline : Nat,
     input : Seq(Result), todo : Seq(Nat), trace : Seq(Entries)]

Final(r) == ResultsAfter(r, Len(r.trace))

\* The promises of the steps that ran, of what is left of the candidates.
Kept(rs, steps) ==
    \A s \in steps :
        /\ Filtering(s) => Passed(rs, s.name)
        /\ Reranking(s) => ByScore(rs)
        /\ Deduplicating(s) => FieldsApart(rs, FieldFor(s))

\* The steps executed and those to come are the definition's, in its order o.
Following(r, o) ==
    /\ Len(r.trace) + Len(r.todo) = Len(o)
    /\ \A k \in 1..Len(r.trace) : r.trace[k].place = o[k]
    /\ \A k \in 1..Len(r.todo) : r.todo[k] = o[Len(r.trace) + k]

\* A step that timed out changed nothing.
WithoutEffect(r) ==
    \A k \in 1..Len(r.trace) : r.trace[k].effect \/ ResultsAfter(r, k) = ResultsAfter(r, k - 1)

\* An execution that has not failed, of the definition d.
Underway(r, d) ==
    /\ d.tenant = r.tenant
    /\ From(Final(r), r.input)
    /\ Kept(Final(r), Ran(r, d.steps))
    /\ Following(r, Ordered(d.steps))
    /\ WithoutEffect(r)
    /\ r.at = "returned" => r.todo = <<>>

RunInv ==
    /\ pipelines \in Seq(Definitions)
    /\ run = NoRun \/ run \in Executions
    /\ run.at \in {"step", "returned"} =>
           run.pipeline \in DOMAIN pipelines /\ Underway(run, pipelines[run.pipeline])

LEMMA RunInvInit == PipelineInit => RunInv
  BY DEF PipelineInit, RunInv, NoRun

\* The definition of an execution as long as its steps and tenant stay.
LEMMA UnderwayAlike ==
    ASSUME NEW r, NEW d, NEW e, e.tenant = d.tenant, e.steps = d.steps, Underway(r, d)
    PROVE  Underway(r, e)
  BY DEF Underway

LEMMA NewDefinition ==
    ASSUME RunInv, NEW t \in PipelineTenants, NEW n \in Nat,
           NEW st \in [1..n -> StepsOf(StepNames)], CreatePipeline(t, st)
    PROVE  RunInv'
<1>1. st \in Seq(StepsOf(Registered))
  <2>1. DOMAIN st = 1..n /\ \A i \in 1..n : st[i] \in StepsOf(Registered)
    BY DEF CreatePipeline, ToSet
  <2>2. st \in [1..n -> StepsOf(Registered)]
    BY <2>1
  <2> QED
    BY ONLY <2>1, <2>2, n \in Nat, LenProperties, SeqDef
<1>2. PICK d : d = [tenant |-> t, steps |-> st, kept |-> TRUE]
  OBVIOUS
<1>3. d \in Definitions
  BY <1>1, <1>2 DEF Definitions
<1>4. pipelines' = Append(pipelines, d) /\ run' = run
  BY <1>2 DEF CreatePipeline
<1>5. pipelines \in Seq(Definitions)
  BY DEF RunInv
<1>6. /\ pipelines' \in Seq(Definitions)
      /\ \A p \in DOMAIN pipelines : p \in DOMAIN pipelines' /\ pipelines'[p] = pipelines[p]
  BY <1>3, <1>4, <1>5
<1>7. run' = NoRun \/ run' \in Executions
  BY <1>4 DEF RunInv
<1>8. ASSUME run'.at \in {"step", "returned"}
      PROVE  run'.pipeline \in DOMAIN pipelines' /\ Underway(run', pipelines'[run'.pipeline])
  <2>1. run.pipeline \in DOMAIN pipelines /\ Underway(run, pipelines[run.pipeline])
    BY <1>4, <1>8 DEF RunInv
  <2> QED
    BY <1>4, <1>6, <2>1
<1> QED
  BY <1>6, <1>7, <1>8 DEF RunInv

LEMMA DefinitionGone ==
    ASSUME RunInv, NEW p \in DOMAIN pipelines, NEW t \in PipelineTenants, DeletePipeline(p, t)
    PROVE  RunInv'
<1>1. pipelines \in Seq(Definitions) /\ pipelines[p] \in Definitions
  BY DEF RunInv
<1>2. /\ pipelines' = [pipelines EXCEPT ![p].kept = FALSE] /\ run' = run
  BY DEF DeletePipeline
<1>3. PICK d : d = [pipelines[p] EXCEPT !.kept = FALSE]
  OBVIOUS
<1>4. d \in Definitions /\ d.tenant = pipelines[p].tenant /\ d.steps = pipelines[p].steps
  BY <1>1, <1>3 DEF Definitions
<1>5. pipelines' = [pipelines EXCEPT ![p] = d]
  BY <1>2, <1>3
<1>6. /\ pipelines' \in Seq(Definitions) /\ DOMAIN pipelines' = DOMAIN pipelines
      /\ \A q \in DOMAIN pipelines : pipelines'[q] = IF q = p THEN d ELSE pipelines[q]
  BY <1>1, <1>4, <1>5
<1>7. \A q \in DOMAIN pipelines :
          Underway(run, pipelines[q]) => Underway(run, pipelines'[q])
  BY <1>4, <1>6, UnderwayAlike
<1>8. run' = NoRun \/ run' \in Executions
  BY <1>2 DEF RunInv
<1>9. ASSUME run'.at \in {"step", "returned"}
      PROVE  run'.pipeline \in DOMAIN pipelines' /\ Underway(run', pipelines'[run'.pipeline])
  <2>1. run.pipeline \in DOMAIN pipelines /\ Underway(run, pipelines[run.pipeline])
    BY <1>2, <1>9 DEF RunInv
  <2> QED
    BY <1>2, <1>6, <1>7, <2>1
<1> QED
  BY <1>6, <1>8, <1>9 DEF RunInv

LEMMA Started ==
    ASSUME RunInv, NEW p \in DOMAIN pipelines, NEW t \in PipelineTenants,
           NEW candidates \in CandidateSets, Execute(p, t, candidates)
    PROVE  RunInv'
<1>1. pipelines \in Seq(Definitions) /\ pipelines' = pipelines
  BY DEF RunInv, Execute
<1>2. PICK d \in Definitions : d = pipelines[p]
  BY <1>1
<1>3. d.steps \in Seq(StepsOf(Registered)) /\ d.tenant = t /\ p \in Nat
  BY <1>1, <1>2 DEF Definitions, Execute, Owned
<1>4. PICK o : o = Ordered(d.steps)
  OBVIOUS
<1>5. Placed(o, d.steps)
  BY <1>3, <1>4, OrderedIs
<1>6. PICK n \in Nat : n = Len(o)
  BY <1>5 DEF Placed
<1>7. o \in Seq(Nat) /\ \A k \in 1..n : o[k] = o[0 + k]
  <2>1. PICK m \in Nat : m = Len(d.steps)
    BY <1>3
  <2>2. o \in Seq(1..m)
    BY <1>5, <2>1 DEF Placed
  <2> QED
    BY <2>2
<1>8. candidates \in Seq(Result)
  BY PipelineAssumption DEF PipelineAssumption
<1>9. PICK x : x = [at |-> "step", tenant |-> t, pipeline |-> p, input |-> candidates,
                    todo |-> o, trace |-> <<>>]
  OBVIOUS
<1>10. run' = x
  BY <1>2, <1>4, <1>9 DEF Execute
<1>11. x \in Executions
  BY <1>3, <1>7, <1>8, <1>9 DEF Executions
<1>12. /\ x.trace = <<>> /\ Len(x.trace) = 0 /\ 1..Len(x.trace) = {} /\ DOMAIN x.trace = {}
       /\ x.input = candidates /\ x.todo = o /\ x.tenant = t /\ x.pipeline = p /\ x.at = "step"
  BY <1>9
<1>13. Final(x) = candidates
  BY <1>12 DEF Final, ResultsAfter
<1>14. From(candidates, candidates)
  BY <1>8, AllThere, ThinnedFrom
<1>15. Kept(candidates, Ran(x, d.steps))
  BY <1>12 DEF Kept, Ran
<1>16. Following(x, o)
  BY <1>6, <1>7, <1>12 DEF Following
<1>17. WithoutEffect(x)
  BY <1>12 DEF WithoutEffect
<1>18. Underway(x, d)
  BY <1>3, <1>4, <1>12, <1>13, <1>14, <1>15, <1>16, <1>17 DEF Underway
<1> QED
  BY <1>1, <1>2, <1>10, <1>11, <1>12, <1>18 DEF RunInv

\* The execution at a step, and the definition it has.
LEMMA AtStep ==
    ASSUME RunInv, run.at = "step"
    PROVE  /\ run \in Executions
           /\ run.pipeline \in DOMAIN pipelines
           /\ pipelines[run.pipeline] \in Definitions
           /\ Underway(run, pipelines[run.pipeline])
  BY DEF RunInv, NoRun

\* What was kept stays kept when a step adds its own promise.
LEMMA KeptOn ==
    ASSUME NEW step \in StepsOf(Registered), NEW s \in Seq(Result), NEW r, r = Apply(step, s),
           NEW steps, Kept(s, steps)
    PROVE  Kept(r, steps \cup {step})
<1>1. /\ From(r, s)
      /\ Filtering(step) => Passed(r, step.name)
      /\ Reranking(step) \/ ByScore(s) => ByScore(r)
      /\ Deduplicating(step) => FieldsApart(r, FieldFor(step))
  BY ApplyIs
<1>2. /\ \A f \in DedupFields : FieldsApart(s, f) => FieldsApart(r, f)
      /\ \A f \in Filters : Passed(s, f) => Passed(r, f)
  BY <1>1, FromKeeps
<1> SUFFICES ASSUME NEW e \in steps
             PROVE  /\ Filtering(e) => Passed(r, e.name)
                    /\ Reranking(e) => ByScore(r)
                    /\ Deduplicating(e) => FieldsApart(r, FieldFor(e))
  BY <1>1 DEF Kept
<1>3. /\ Filtering(e) => Passed(s, e.name)
      /\ Reranking(e) => ByScore(s)
      /\ Deduplicating(e) => FieldsApart(s, FieldFor(e))
  BY DEF Kept
<1>4. Filtering(e) => Passed(r, e.name)
  BY <1>2, <1>3 DEF Filtering
<1>5. Deduplicating(e) => FieldsApart(r, FieldFor(e))
  BY <1>2, <1>3, FieldKnown
<1> QED
  BY <1>1, <1>3, <1>4, <1>5

\* The execution x of d with its next step over.
Stepped(x, d, effect, y) ==
    LET rs == IF effect THEN Apply(d.steps[Head(x.todo)], Final(x)) ELSE Final(x)
    IN y = [x EXCEPT !.todo = Tail(x.todo),
                     !.trace = Append(x.trace, [place |-> Head(x.todo),
                                                effect |-> effect, results |-> rs])]

\* A step that returned or was given up, of an execution and its definition.
LEMMA StepGone ==
    ASSUME NEW x \in Executions, NEW d \in Definitions, Underway(x, d),
           x.at = "step", x.todo # <<>>,
           NEW effect \in BOOLEAN, NEW y, Stepped(x, d, effect, y)
    PROVE  y \in Executions /\ y.pipeline = x.pipeline /\ Underway(y, d)
<1>1. /\ x.todo \in Seq(Nat) /\ x.trace \in Seq(Entries) /\ x.input \in Seq(Result)
      /\ d.steps \in Seq(StepsOf(Registered))
  BY DEF Executions, Definitions
<1>2. PICK o : o = Ordered(d.steps)
  OBVIOUS
<1>3. PICK m \in Nat : m = Len(d.steps)
  BY ONLY <1>1
<1>4. Placed(o, d.steps)
  BY <1>1, <1>2, OrderedIs
<1>5. o \in Seq(1..m) /\ Len(o) = m
  BY <1>3, <1>4 DEF Placed
<1>6. PICK a \in Nat, b \in Nat : a = Len(x.trace) /\ b = Len(x.todo)
  BY ONLY <1>1
<1>7. PICK h \in Nat : h = Head(x.todo)
  BY <1>1, HeadTaken
<1>8. /\ h = x.todo[1] /\ Tail(x.todo) \in Seq(Nat) /\ b >= 1 /\ Len(Tail(x.todo)) = b - 1
      /\ \A i \in 1..(b - 1) : Tail(x.todo)[i] = x.todo[i + 1]
  BY <1>1, <1>6, <1>7, HeadTaken
<1>9. /\ a + b = m
      /\ \A k \in 1..a : x.trace[k].place = o[k]
      /\ \A k \in 1..b : x.todo[k] = o[a + k]
  BY <1>2, <1>5, <1>6 DEF Underway, Following
<1>10. h = o[a + 1] /\ h \in 1..m
  <2>1. 1 \in 1..b /\ a + 1 \in 1..m
    BY <1>8, <1>9
  <2>2. o[a + 1] \in 1..m
    BY ONLY <1>5, <2>1
  <2>3. x.todo[1] = o[a + 1]
    BY <1>9, <2>1
  <2> QED
    BY <1>8, <2>2, <2>3
<1>11. PICK s \in StepsOf(Registered) : s = d.steps[h]
  BY <1>1, <1>3, <1>10
<1>12. Final(x) \in Seq(Result)
  <2>1. a # 0 => a \in 1..Len(x.trace)
    BY <1>6
  <2>2. a # 0 => x.trace[a] \in Entries
    BY <1>1, <2>1
  <2> QED
    BY <1>1, <1>6, <2>2 DEF Final, ResultsAfter, Entries
<1>13. PICK f \in Seq(Result) : f = Final(x)
  BY <1>12
<1>14. PICK rs : rs = IF effect THEN Apply(s, f) ELSE f
  OBVIOUS
<1>15. rs \in Seq(Result) /\ From(rs, f)
  <2>1. CASE effect
    BY <1>14, <2>1, ApplyIs
  <2>2. CASE ~ effect
    BY <1>14, <2>2, AllThere, ThinnedFrom
  <2> QED
    BY <2>1, <2>2
<1>16. PICK e : e = [place |-> h, effect |-> effect, results |-> rs]
  OBVIOUS
<1>17. e \in Entries /\ e.place = h /\ e.effect = effect /\ e.results = rs
  BY <1>15, <1>16 DEF Entries
<1>18. PICK u : u = Append(x.trace, e)
  OBVIOUS
<1>19. /\ u \in Seq(Entries) /\ Len(u) = a + 1 /\ u[a + 1] = e
       /\ \A k \in 1..a : u[k] = x.trace[k]
  BY <1>1, <1>6, <1>17, <1>18, OneMore
<1>20. y = [x EXCEPT !.todo = Tail(x.todo), !.trace = u]
  <2>1. rs = IF effect THEN Apply(d.steps[Head(x.todo)], Final(x)) ELSE Final(x)
    BY <1>7, <1>11, <1>13, <1>14, Zenon
  <2> QED
    BY <1>7, <1>16, <1>18, <2>1 DEF Stepped
<1>21. /\ y \in Executions /\ y.trace = u /\ y.todo = Tail(x.todo) /\ y.input = x.input
       /\ y.at = x.at /\ y.tenant = x.tenant /\ y.pipeline = x.pipeline
  BY <1>8, <1>19, <1>20 DEF Executions
<1>22. /\ \A k \in 0..a : ResultsAfter(y, k) = ResultsAfter(x, k)
       /\ ResultsAfter(y, a + 1) = rs /\ ResultsAfter(x, a) = f /\ Final(y) = rs
  <2>1. \A k \in 0..a : ResultsAfter(y, k) = ResultsAfter(x, k)
    <3> SUFFICES ASSUME NEW k \in 0..a PROVE ResultsAfter(y, k) = ResultsAfter(x, k)
      OBVIOUS
    <3>1. k = 0 \/ k \in 1..a
      OBVIOUS
    <3> QED
      BY <1>19, <1>21, <3>1 DEF ResultsAfter
  <2>2. a + 1 # 0
    OBVIOUS
  <2>3. ResultsAfter(y, a + 1) = rs
    BY <1>17, <1>19, <1>21, <2>2 DEF ResultsAfter
  <2>4. ResultsAfter(x, a) = f
    BY <1>6, <1>13 DEF Final
  <2> QED
    BY <1>19, <1>21, <2>1, <2>3, <2>4 DEF Final
<1>23. From(rs, x.input)
  <2>1. From(f, x.input)
    BY <1>13 DEF Underway
  <2> QED
    BY <1>15, <2>1, FromKeeps
<1>24. Kept(rs, Ran(y, d.steps))
  <2>1. Kept(f, Ran(x, d.steps))
    BY <1>13 DEF Underway
  <2>2. DOMAIN y.trace = 1..(a + 1) /\ DOMAIN x.trace = 1..a
    BY <1>1, <1>6, <1>19, <1>21
  <2>3. ASSUME NEW g \in Ran(y, d.steps)
        PROVE  g \in Ran(x, d.steps) \/ (effect /\ g = s)
    <3>1. PICK k \in 1..(a + 1) : y.trace[k].effect /\ g = d.steps[y.trace[k].place]
      BY <2>2, <2>3 DEF Ran
    <3>2. CASE k = a + 1
      BY <1>11, <1>17, <1>19, <1>21, <3>1, <3>2
    <3>3. CASE k # a + 1
      <4>1. k \in 1..a
        BY <3>3
      <4> QED
        BY <1>19, <1>21, <2>2, <3>1, <4>1 DEF Ran
    <3> QED
      BY <3>2, <3>3
  <2>4. CASE effect
    <3>1. rs = Apply(s, f)
      BY <1>14, <2>4
    <3>2. Kept(rs, Ran(x, d.steps) \cup {s})
      BY <2>1, <3>1, KeptOn
    <3> QED
      BY <2>3, <3>2 DEF Kept
  <2>5. CASE ~ effect
    BY <1>14, <2>1, <2>3, <2>5 DEF Kept
  <2> QED
    BY <2>4, <2>5
<1>25. Following(y, o)
  <2>1. (a + 1) + (b - 1) = m
    BY <1>9
  <2>2. \A k \in 1..(a + 1) : u[k].place = o[k]
    <3> SUFFICES ASSUME NEW k \in 1..(a + 1) PROVE u[k].place = o[k]
      OBVIOUS
    <3>1. k = a + 1 \/ k \in 1..a
      OBVIOUS
    <3> QED
      BY <1>9, <1>10, <1>17, <1>19, <3>1
  <2>3. \A k \in 1..(b - 1) : Tail(x.todo)[k] = o[(a + 1) + k]
    <3> SUFFICES ASSUME NEW k \in 1..(b - 1) PROVE Tail(x.todo)[k] = o[(a + 1) + k]
      OBVIOUS
    <3>1. k + 1 \in 1..b /\ a + (k + 1) = (a + 1) + k
      OBVIOUS
    <3>2. x.todo[k + 1] = o[a + (k + 1)]
      BY <1>9, <3>1
    <3> QED
      BY <1>8, <3>1, <3>2
  <2> QED
    BY <1>5, <1>8, <1>19, <1>21, <2>1, <2>2, <2>3 DEF Following
<1>26. WithoutEffect(y)
  <2>1. \A k \in 1..a : x.trace[k].effect \/ ResultsAfter(x, k) = ResultsAfter(x, k - 1)
    BY <1>6 DEF Underway, WithoutEffect
  <2> SUFFICES ASSUME NEW k \in 1..(a + 1)
               PROVE  u[k].effect \/ ResultsAfter(y, k) = ResultsAfter(y, k - 1)
    BY <1>19, <1>21 DEF WithoutEffect
  <2>2. CASE k = a + 1
    <3>1. k - 1 = a /\ a \in 0..a
      BY <2>2
    <3> QED
      BY <1>14, <1>17, <1>19, <1>22, <2>2, <3>1
  <2>3. CASE k # a + 1
    <3>1. k \in 1..a /\ k \in 0..a /\ k - 1 \in 0..a
      BY <2>3
    <3> QED
      BY <1>19, <1>22, <2>1, <3>1
  <2> QED
    BY <2>2, <2>3
<1> QED
  BY <1>2, <1>21, <1>22, <1>23, <1>24, <1>25, <1>26 DEF Underway

LEMMA StepDone ==
    ASSUME RunInv, StepReturns \/ StepTimesOut
    PROVE  RunInv'
<1>1. PICK x : x = run
  OBVIOUS
<1>2. PICK d : d = pipelines[run.pipeline]
  OBVIOUS
<1>3. /\ x \in Executions /\ d \in Definitions /\ Underway(x, d)
      /\ x.at = "step" /\ x.todo # <<>> /\ x.pipeline \in DOMAIN pipelines
  BY <1>1, <1>2, AtStep DEF StepReturns, StepTimesOut, InStep
<1>4. PICK effect \in BOOLEAN : effect <=> StepReturns
  OBVIOUS
<1>5. PICK y : y = run'
  OBVIOUS
<1>6. pipelines' = pipelines
  BY DEF StepReturns, StepTimesOut, StepEnds
<1>7. Stepped(x, d, effect, y)
  <2>1. Results = Final(x) /\ NextStep = d.steps[Head(x.todo)]
    BY <1>1, <1>2 DEF Results, Final, NextStep
  <2>2. CASE StepReturns
    <3>1. effect = TRUE /\ StepEnds(TRUE, Apply(NextStep, Results))
      BY <1>4, <2>2 DEF StepReturns
    <3> QED
      BY <1>1, <1>5, <2>1, <3>1 DEF Stepped, StepEnds
  <2>3. CASE ~ StepReturns
    <3>1. effect = FALSE /\ StepEnds(FALSE, Results)
      BY <1>4, <2>3 DEF StepTimesOut
    <3> QED
      BY <1>1, <1>5, <2>1, <3>1 DEF Stepped, StepEnds
  <2> QED
    BY <2>2, <2>3
<1>8. y \in Executions /\ y.pipeline = x.pipeline /\ Underway(y, d)
  BY ONLY <1>3, <1>7, effect \in BOOLEAN, StepGone
<1> QED
  BY <1>1, <1>2, <1>3, <1>5, <1>6, <1>8 DEF RunInv

\* An execution that fails, or has no step left.
LEMMA StepsOver ==
    ASSUME RunInv, StepRaises \/ ExecutionReturns
    PROVE  RunInv'
<1>1. PICK x : x = run
  OBVIOUS
<1>2. PICK d : d = pipelines[run.pipeline]
  OBVIOUS
<1>3. /\ x \in Executions /\ Underway(x, d) /\ x.at = "step"
      /\ x.pipeline \in DOMAIN pipelines
  BY <1>1, <1>2, AtStep DEF StepRaises, ExecutionReturns, InStep
<1>4. PICK at \in {"raised", "returned"} :
          /\ run' = [x EXCEPT !.at = at] /\ pipelines' = pipelines
          /\ at = "returned" => x.todo = <<>>
  BY <1>1 DEF StepRaises, ExecutionReturns
<1>5. PICK y : y = [x EXCEPT !.at = at]
  OBVIOUS
<1>6. /\ y.at = at /\ y.tenant = x.tenant /\ y.pipeline = x.pipeline /\ y.todo = x.todo
      /\ y.input = x.input /\ y.trace = x.trace /\ y \in Executions
  BY <1>3, <1>5 DEF Executions
<1>7. \A k : ResultsAfter(y, k) = ResultsAfter(x, k)
  BY <1>6 DEF ResultsAfter
<1>8. Final(y) = Final(x) /\ Ran(y, d.steps) = Ran(x, d.steps) /\ WithoutEffect(y)
  BY <1>3, <1>6, <1>7 DEF Final, Ran, WithoutEffect, Underway
<1>9. Underway(y, d)
  BY <1>3, <1>4, <1>6, <1>8 DEF Underway, Following
<1> QED
  BY <1>1, <1>2, <1>3, <1>4, <1>5, <1>6, <1>9 DEF RunInv

LEMMA RunInvStep == RunInv /\ [PipelineNext]_pipelineVars => RunInv'
<1> SUFFICES ASSUME RunInv, [PipelineNext]_pipelineVars PROVE RunInv'
  OBVIOUS
<1>1. ASSUME NEW t \in PipelineTenants, NEW n \in 0..MaxSteps,
             NEW st \in [1..n -> StepsOf(StepNames)], CreatePipeline(t, st)
      PROVE  RunInv'
  <2>1. MaxSteps \in Nat
    BY PipelineAssumption, Zenon DEF PipelineAssumption
  <2>2. n \in Nat
    BY ONLY <2>1, n \in 0..MaxSteps
  <2> QED
    BY <1>1, <2>2, NewDefinition
<1>2. ASSUME NEW p \in DOMAIN pipelines, NEW t \in PipelineTenants, DeletePipeline(p, t)
      PROVE  RunInv'
  BY <1>2, DefinitionGone
<1>3. ASSUME NEW p \in DOMAIN pipelines, NEW t \in PipelineTenants,
             NEW candidates \in CandidateSets, Execute(p, t, candidates)
      PROVE  RunInv'
  BY <1>3, Started
<1>4. CASE StepReturns \/ StepTimesOut
  BY <1>4, StepDone
<1>5. CASE StepRaises \/ ExecutionReturns
  BY <1>5, StepsOver
<1>6. CASE UNCHANGED pipelineVars
  <2>1. pipelines' = pipelines /\ run' = run
    BY <1>6 DEF pipelineVars
  <2> QED
    BY <2>1 DEF RunInv
<1> QED
  BY <1>1, <1>2, <1>3, <1>4, <1>5, <1>6 DEF PipelineNext

\* One of each value of the field, counted.
LEMMA FieldsCounted ==
    ASSUME NEW field, NEW rs \in Seq(Result), FieldsApart(rs, field)
    PROVE  Cardinality({FieldOf(rs[i], field) : i \in DOMAIN rs}) = Len(rs)
<1>1. PICK n \in Nat : n = Len(rs)
  OBVIOUS
<1>2. DOMAIN rs = 1..n
  BY <1>1
<1>3. PICK f : f = [i \in 1..n |-> FieldOf(rs[i], field)]
  OBVIOUS
<1>4. PICK T : T = {f[i] : i \in 1..n}
  OBVIOUS
<1>5. T = {FieldOf(rs[i], field) : i \in DOMAIN rs}
  BY <1>2, <1>3, <1>4
<1>6. IsFiniteSet(1..n) /\ Cardinality(1..n) = n
  <2>1. IsFiniteSet(1..n) /\ Cardinality(1..n) = IF 1 > n THEN 0 ELSE n - 1 + 1
    BY FS_Interval
  <2>2. Cardinality(1..n) = n
    BY ONLY <2>1, n \in Nat
  <2> QED
    BY <2>1, <2>2
<1>7. \A i, j \in 1..n : f[i] = f[j] => i = j
  BY <1>1, <1>3 DEF FieldsApart
<1> QED
  BY <1>1, <1>3, <1>4, <1>5, <1>6, <1>7, ImageCount

LEMMA SoundWhileRun == RunInv => PipelineSound
<1> SUFFICES ASSUME RunInv, run.at \in {"step", "returned"} PROVE PipelineSound
  BY DEF PipelineSound
<1>1. PICK x : x = run
  OBVIOUS
<1>2. PICK d : d = pipelines[run.pipeline]
  OBVIOUS
<1>3. x \in Executions /\ Underway(x, d) /\ d \in Definitions
  BY <1>1, <1>2 DEF RunInv, NoRun
<1>4. /\ x.todo \in Seq(Nat) /\ x.trace \in Seq(Entries) /\ x.input \in Seq(Result)
      /\ d.steps \in Seq(StepsOf(Registered))
  BY <1>3 DEF Executions, Definitions
<1>5. PICK rs : rs = Final(x)
  OBVIOUS
<1>6. PICK a \in Nat, m \in Nat : a = Len(x.trace) /\ m = Len(d.steps)
  BY <1>4
<1>7. rs \in Seq(Result)
  <2>1. a # 0 => x.trace[a] \in Entries
    BY <1>4, <1>6
  <2> QED
    BY <1>4, <1>5, <1>6, <2>1 DEF Final, ResultsAfter, Entries
<1>8. PICK n \in Nat : n = Len(rs)
  BY <1>7
<1>9. /\ DOMAIN rs = 1..n /\ \A i \in 1..n : rs[i] \in Result
      /\ DOMAIN x.input = 1..Len(x.input) /\ \A j \in 1..Len(x.input) : x.input[j] \in Result
      /\ DOMAIN x.trace = 1..a
  BY <1>4, <1>6, <1>7, <1>8
<1>10. /\ d.tenant = x.tenant /\ From(rs, x.input) /\ Kept(rs, Ran(x, d.steps))
       /\ WithoutEffect(x)
  BY <1>3, <1>5 DEF Underway
<1>11. PICK o : o = Ordered(d.steps)
  OBVIOUS
<1>12. Placed(o, d.steps) /\ Following(x, o)
  BY <1>3, <1>4, <1>11, OrderedIs DEF Underway
<1>13. PICK b \in Nat : b = Len(x.todo)
  BY <1>4
<1>14. a + b = m /\ Len(o) = m /\ \A k \in 1..a : x.trace[k].place = o[k]
  BY <1>6, <1>12, <1>13 DEF Placed, Following
<1>15. \A i, j \in DOMAIN x.trace :
           i < j => ComesBefore(x.trace[i].place, x.trace[j].place, d.steps)
  <2> SUFFICES ASSUME NEW i \in 1..a, NEW j \in 1..a, i < j
               PROVE  ComesBefore(x.trace[i].place, x.trace[j].place, d.steps)
    BY <1>9
  <2>1. i \in 1..m /\ j \in 1..m
    BY <1>14
  <2>2. ComesBefore(o[i], o[j], d.steps)
    BY <1>12, <1>14, <2>1 DEF Placed
  <2> QED
    BY <1>14, <2>2
<1>16. x.at = "returned" => Len(x.trace) = Len(d.steps)
  <2> SUFFICES ASSUME x.at = "returned" PROVE a = m
    BY <1>6
  <2>1. x.todo = <<>>
    BY <1>3 DEF Underway
  <2>2. b = 0
    BY <1>13, <2>1
  <2> QED
    BY <1>14, <2>2
<1>17. \A k \in DOMAIN x.trace :
           x.trace[k].effect \/ ResultsAfter(x, k) = ResultsAfter(x, k - 1)
  BY <1>6, <1>9, <1>10 DEF WithoutEffect
<1>18. ASSUME NEW i \in DOMAIN rs
       PROVE  \E j \in DOMAIN x.input :
                  [rs[i] EXCEPT !.score = x.input[j].score] = x.input[j]
  <2>1. PICK p \in [1..n -> 1..Len(x.input)] : \A k \in 1..n : Like(rs[k], x.input[p[k]])
    BY <1>8, <1>10 DEF From
  <2>2. PICK j \in DOMAIN x.input : Like(rs[i], x.input[j])
    BY <1>9, <2>1
  <2>3. rs[i] \in Result /\ x.input[j] \in Result
    BY <1>9
  <2>4. [rs[i] EXCEPT !.score = x.input[j].score] = x.input[j]
    BY <2>2, <2>3 DEF Like, Result
  <2> QED
    BY <2>4
<1> DEFINE Delivers(s, q) ==
               /\ Filtering(s) => \A i \in DOMAIN q : Keeps(s.name, q[i])
               /\ Reranking(s) => \A i \in DOMAIN q \ {1} : q[i - 1].score >= q[i].score
               /\ Deduplicating(s) =>
                      Cardinality({FieldOf(q[i], FieldFor(s)) : i \in DOMAIN q}) = Len(q)
<1>19. ASSUME NEW s \in Ran(x, d.steps) PROVE Delivers(s, rs)
  <2>1. /\ Filtering(s) => Passed(rs, s.name)
        /\ Reranking(s) => ByScore(rs)
        /\ Deduplicating(s) => FieldsApart(rs, FieldFor(s))
    BY <1>10 DEF Kept
  <2>2. Filtering(s) => \A i \in DOMAIN rs : Keeps(s.name, rs[i])
    BY <1>8, <1>9, <2>1 DEF Passed
  <2>3. ASSUME Reranking(s), NEW i \in DOMAIN rs \ {1}
        PROVE  rs[i - 1].score >= rs[i].score
    <3>1. i - 1 \in 1..n /\ i \in 1..n /\ i - 1 < i
      BY <1>9
    <3> QED
      BY <1>8, <2>1, <2>3, <3>1 DEF ByScore
  <2>4. Deduplicating(s) =>
            Cardinality({FieldOf(rs[i], FieldFor(s)) : i \in DOMAIN rs}) = Len(rs)
    BY <1>7, <2>1, FieldsCounted
  <2> QED
    BY <2>2, <2>3, <2>4
<1>20. Results = rs
  BY <1>1, <1>5 DEF Results, Final
<1>21. pipelines[run.pipeline] = d /\ run = x
  BY <1>1, <1>2
<1>22. pipelines[run.pipeline].tenant = run.tenant
  BY ONLY <1>10, <1>21
<1>23. \A i, j \in DOMAIN run.trace :
           i < j => ComesBefore(run.trace[i].place, run.trace[j].place,
                                pipelines[run.pipeline].steps)
  BY ONLY <1>15, <1>21
<1>24. run.at = "returned" => Len(run.trace) = Len(pipelines[run.pipeline].steps)
  BY ONLY <1>16, <1>21
<1>25. \A k \in DOMAIN run.trace :
           run.trace[k].effect \/ ResultsAfter(run, k) = ResultsAfter(run, k - 1)
  BY ONLY <1>17, <1>21
<1>26. \A i \in DOMAIN Results : \E j \in DOMAIN run.input :
           [Results[i] EXCEPT !.score = run.input[j].score] = run.input[j]
  BY ONLY <1>18, <1>20, <1>21
<1>27. \A s \in Ran(run, pipelines[run.pipeline].steps) : Delivers(s, Results)
  <2> HIDE DEF Delivers
  <2> QED
    BY ONLY <1>19, <1>20, <1>21
<1> QED
  BY ONLY <1>22, <1>23, <1>24, <1>25, <1>26, <1>27, Zenon DEF PipelineSound

\* An execution follows the order of its definition, a step that timed out
\* changed nothing, and no step undoes what an earlier one promised (execute,
\* apply_type_ordering).
THEOREM RunInvCorrect == PipelineSpec => []RunInv
  BY RunInvInit, RunInvStep, PTL DEF PipelineSpec

\* R9.3-R9.7: the order of the steps, and what an execution has after every one
\* of them and returns in the end, for every definition and every candidate set
\* (PipelineService.execute).
THEOREM PipelineSoundCorrect == PipelineSpec => []PipelineSound
  BY RunInvCorrect, SoundWhileRun, PTL

-----------------------------------------------------------------------------
(* Requests and tokens of the gateway.                                     *)

USE BudgetAssumption DEF BudgetAssumption

Answers == {"none", "ok", "invalid", "unauthorized", "raised", "limited", "failed"}

Exchanges ==
    [at : {"auth", "limit", "handler", "done"}, via : {"rest", "tool"},
     route : Routes \cup {Public}, tenant : GatewayTenants \cup {"none"},
     remaining : -1..Budget,
     servedAs : GatewayTenants \cup {"none", "anyone", "mcp-agent"},
     answer : Answers]

ExchangeTypes ==
    /\ tokens \in [Buckets -> 0..Budget]
    /\ supplied \in [Buckets -> Nat]
    /\ exchange \in [Calls -> {NoExchange} \cup Exchanges]

\* A request on its way: where it is tells what it has.
OnItsWay(e) ==
    /\ e.at \in {"auth", "limit", "handler"} =>
           e.route \in Routes /\ e.servedAs = "none" /\ e.answer = "none"
    /\ e.at \in {"limit", "handler"} => e.tenant \in GatewayTenants
    /\ e.at \in {"auth", "limit"} => e.remaining = -1
    /\ e.at = "handler" => e.remaining >= 0

\* What a request has been granted, and what it was refused.
Granted(e) ==
    /\ e.remaining >= 0 => e.route \in Routes /\ e.tenant \in GatewayTenants
    /\ e.servedAs # "none" =>
           /\ e.tenant \in GatewayTenants /\ e.remaining >= 0
           /\ e.answer \in {"ok", "failed"}
           /\ e.servedAs \in GatewayTenants => e.servedAs = e.tenant
    /\ e.answer = "limited" =>
           e.remaining = -1 /\ e.route \in Routes /\ e.tenant \in GatewayTenants

\* The tokens given and those left are no more than there have been.
Counted == \A b \in Buckets : Cardinality(Holding(b)) + tokens[b] <= supplied[b]

Under == {c \in Calls : exchange[c] # NoExchange}

GatewayInv ==
    /\ ExchangeTypes
    /\ \A c \in Under : OnItsWay(exchange[c]) /\ Granted(exchange[c])
    /\ Counted

LEMMA HoldingIsFinite ==
    ASSUME NEW b
    PROVE  IsFiniteSet(Holding(b)) /\ Cardinality(Holding(b)) \in Nat
<1>1. Holding(b) \subseteq Calls
  BY DEF Holding
<1>2. IsFiniteSet(Holding(b))
  BY ONLY <1>1, BudgetAssumption, FS_Subset DEF BudgetAssumption
<1> QED
  BY ONLY <1>2, FS_CardinalityType

LEMMA GatewayInvInit == GatewayInit => GatewayInv
<1> SUFFICES ASSUME GatewayInit PROVE GatewayInv
  OBVIOUS
<1>1. ExchangeTypes /\ Under = {}
  BY DEF GatewayInit, ExchangeTypes, Under
<1>2. ASSUME NEW b \in Buckets
      PROVE  Cardinality(Holding(b)) + tokens[b] <= supplied[b]
  <2>1. Holding(b) = {}
    BY DEF GatewayInit, Holding
  <2>2. tokens[b] = supplied[b] /\ tokens[b] \in Nat
    BY DEF GatewayInit
  <2> QED
    BY <2>1, <2>2, FS_EmptySet
<1> QED
  BY <1>1, <1>2 DEF GatewayInv, Counted

\* A step that adds no holder to a bucket, and to what was in it as much as is
\* left in it more.
LEMMA StillCounted ==
    ASSUME NEW b, NEW S, Holding(b)' \subseteq S, IsFiniteSet(S),
           NEW n \in Nat, NEW was \in Nat, NEW is \in Nat,
           NEW had \in Nat, NEW has \in Nat,
           Cardinality(S) <= n, n + was <= had, is + had <= was + has
    PROVE  Cardinality(Holding(b)') + is <= has
<1>1. IsFiniteSet(Holding(b)') /\ Cardinality(Holding(b)') <= Cardinality(S)
  BY ONLY FS_Subset, Holding(b)' \subseteq S, IsFiniteSet(S)
<1>2. Cardinality(Holding(b)') \in Nat /\ Cardinality(S) \in Nat
  BY ONLY <1>1, IsFiniteSet(S), FS_CardinalityType
<1> DEFINE k == Cardinality(Holding(b)')
           m == Cardinality(S)
<1>3. k \in Nat /\ m \in Nat /\ k <= m /\ m <= n
  BY <1>1, <1>2
<1> HIDE DEF k, m
<1>4. k + is <= has
  BY ONLY <1>3, n \in Nat, was \in Nat, is \in Nat, had \in Nat, has \in Nat,
          n + was <= had, is + had <= was + has
<1> QED
  BY <1>4 DEF k

\* A request that is given no token: its new state has been granted nothing
\* more, and the tokens left have not become more.
LEMMA StepWithoutToken ==
    ASSUME GatewayInv, NEW c \in Calls, NEW e \in Exchanges,
           exchange' = [exchange EXCEPT ![c] = e],
           OnItsWay(e), Granted(e),
           tokens' \in [Buckets -> 0..Budget], supplied' \in [Buckets -> Nat],
           \A b \in Buckets : tokens'[b] + supplied[b] <= tokens[b] + supplied'[b],
           e.remaining = -1 \/ (c \in Under /\ e.remaining = exchange[c].remaining
                                   /\ e.route = exchange[c].route
                                   /\ e.tenant = exchange[c].tenant)
    PROVE  GatewayInv'
<1>1. ExchangeTypes'
  BY DEF GatewayInv, ExchangeTypes
<1>2. \A d \in Calls : exchange'[d] = IF d = c THEN e ELSE exchange[d]
  BY DEF GatewayInv, ExchangeTypes
<1>3. \A d \in Under' : d \in Calls /\ (d = c \/ d \in Under)
  BY <1>2 DEF Under
<1>4. ASSUME NEW d \in Under'
      PROVE  OnItsWay(exchange'[d]) /\ Granted(exchange'[d])
  BY <1>2, <1>3 DEF GatewayInv
<1>5. ASSUME NEW b \in Buckets
      PROVE  Cardinality(Holding(b)') + tokens'[b] <= supplied'[b]
  <2>1. ASSUME NEW d \in Holding(b)'
        PROVE  d \in Holding(b)
    <3>1. d \in Calls /\ exchange'[d].remaining >= 0 /\ BucketOf(d)' = b
          /\ exchange'[d] # NoExchange
      BY <2>1 DEF Holding
    <3>2. CASE d = c
      <4>1. e.remaining # -1
        BY <3>1, <3>2, <1>2
      <4>2. c \in Under /\ exchange[c].remaining >= 0 /\ BucketOf(c) = b
        BY <3>1, <3>2, <4>1, <1>2 DEF BucketOf
      <4> QED
        BY <3>2, <4>2 DEF Holding, Under
    <3>3. CASE d # c
      <4>1. exchange'[d] = exchange[d]
        BY <3>1, <3>3, <1>2
      <4>2. BucketOf(d) = b
        BY <3>1, <4>1 DEF BucketOf
      <4> QED
        BY <3>1, <4>1, <4>2 DEF Holding
    <3> QED
      BY <3>2, <3>3
  <2>2. Holding(b)' \subseteq Holding(b)
    BY <2>1
  <2>3. /\ tokens[b] \in Nat /\ tokens'[b] \in Nat
        /\ supplied[b] \in Nat /\ supplied'[b] \in Nat
    BY DEF GatewayInv, ExchangeTypes
  <2>4. Cardinality(Holding(b)) + tokens[b] <= supplied[b]
    BY DEF GatewayInv, Counted
  <2>5. IsFiniteSet(Holding(b)) /\ Cardinality(Holding(b)) \in Nat
    BY HoldingIsFinite
  <2>6. Cardinality(Holding(b)) <= Cardinality(Holding(b))
    BY <2>5
  <2>7. tokens'[b] + supplied[b] <= tokens[b] + supplied'[b]
    OBVIOUS
  <2> QED
    BY ONLY <2>2, <2>3, <2>4, <2>5, <2>6, <2>7, StillCounted
<1> QED
  BY <1>1, <1>4, <1>5 DEF GatewayInv, Counted

\* What the script does to a bucket it finds a token in.
LEMMA ConsumeCounts ==
    ASSUME ExchangeTypes, NEW b \in Buckets, NEW found \in Found(b) \ {0},
           Consume(b, found)
    PROVE  /\ tokens' \in [Buckets -> 0..Budget] /\ supplied' \in [Buckets -> Nat]
           /\ found - 1 \in 0..Budget
           /\ tokens'[b] + 1 + supplied[b] = tokens[b] + supplied'[b]
           /\ \A x \in Buckets \ {b} :
                  tokens'[x] = tokens[x] /\ supplied'[x] = supplied[x]
<1>1. tokens[b] \in 0..Budget /\ supplied[b] \in Nat /\ Budget \in Nat
  BY DEF ExchangeTypes
<1>2. found \in tokens[b]..Budget /\ found # 0
  BY DEF Found
<1>3. found \in Nat /\ found > 0 /\ found <= Budget /\ tokens[b] <= found
  BY ONLY <1>1, <1>2
<1>4. found - 1 \in 0..Budget /\ supplied[b] + found - tokens[b] \in Nat
  BY ONLY <1>1, <1>3
<1>5. tokens' = [tokens EXCEPT ![b] = found - 1]
  BY DEF Consume
<1>6. supplied' = [supplied EXCEPT ![b] = supplied[b] + found - tokens[b]]
  BY DEF Consume
<1>7. /\ tokens' \in [Buckets -> 0..Budget] /\ tokens'[b] = found - 1
      /\ \A x \in Buckets \ {b} : tokens'[x] = tokens[x]
  BY <1>4, <1>5 DEF ExchangeTypes
<1>8. /\ supplied' \in [Buckets -> Nat]
      /\ supplied'[b] = supplied[b] + found - tokens[b]
      /\ \A x \in Buckets \ {b} : supplied'[x] = supplied[x]
  BY <1>4, <1>6 DEF ExchangeTypes
<1>9. (found - 1) + 1 + supplied[b] = tokens[b] + (supplied[b] + found - tokens[b])
  BY ONLY <1>1, <1>3
<1> QED
  BY <1>4, <1>7, <1>8, <1>9

\* A token is taken: its bucket has one holder more and one token less.
LEMMA StepWithToken ==
    ASSUME GatewayInv, NEW c \in Calls, TakeToken(c)
    PROVE  GatewayInv'
<1> DEFINE b == BucketOf(c)
<1>1. c \in Under /\ exchange[c] \in Exchanges /\ exchange[c].at = "limit"
  BY DEF GatewayInv, ExchangeTypes, Under, TakeToken, NoExchange
<1>2. /\ exchange[c].tenant \in GatewayTenants /\ exchange[c].route \in Routes
      /\ exchange[c].servedAs = "none" /\ exchange[c].answer = "none"
  BY <1>1 DEF GatewayInv, OnItsWay
<1>3. b \in Buckets
  BY <1>2 DEF Buckets, BucketOf
<1>4. PICK found \in Found(b) \ {0} :
          /\ Consume(b, found)
          /\ Move(c, [exchange[c] EXCEPT !.at = "handler", !.remaining = found - 1])
  BY DEF TakeToken
<1> DEFINE n == found - 1
           e == [exchange[c] EXCEPT !.at = "handler", !.remaining = n]
<1>5. ExchangeTypes
  BY DEF GatewayInv
<1>6. /\ tokens' \in [Buckets -> 0..Budget] /\ supplied' \in [Buckets -> Nat]
      /\ n \in 0..Budget
      /\ tokens'[b] + 1 + supplied[b] = tokens[b] + supplied'[b]
      /\ \A x \in Buckets \ {b} : tokens'[x] = tokens[x] /\ supplied'[x] = supplied[x]
  BY <1>3, <1>4, <1>5, ConsumeCounts
<1>7. exchange' = [exchange EXCEPT ![c] = e]
  BY <1>4 DEF Move
<1> HIDE DEF n
<1>8. /\ e \in Exchanges
      /\ e.at = "handler" /\ e.remaining = n /\ e.tenant = exchange[c].tenant
      /\ e.route = exchange[c].route /\ e.servedAs = "none" /\ e.answer = "none"
  <2>1. n \in -1..Budget
    BY <1>6
  <2>2. e \in Exchanges
    BY <1>1, <2>1 DEF Exchanges
  <2>3. /\ e.at = "handler" /\ e.remaining = n /\ e.tenant = exchange[c].tenant
        /\ e.route = exchange[c].route /\ e.servedAs = exchange[c].servedAs
        /\ e.answer = exchange[c].answer
    BY <1>1 DEF Exchanges
  <2> QED
    BY <1>2, <2>2, <2>3
<1> HIDE DEF e
<1>9. \A d \in Calls : exchange'[d] = IF d = c THEN e ELSE exchange[d]
  BY <1>7, <1>5 DEF ExchangeTypes
<1>10. \A d \in Under' : d \in Calls /\ (d = c \/ d \in Under)
  BY <1>9 DEF Under
<1>11. ExchangeTypes'
  BY <1>6, <1>7, <1>8, <1>5 DEF ExchangeTypes
<1>12. OnItsWay(e) /\ Granted(e)
  BY <1>2, <1>6, <1>8 DEF OnItsWay, Granted
<1>13. ASSUME NEW d \in Under'
       PROVE  OnItsWay(exchange'[d]) /\ Granted(exchange'[d])
  BY <1>9, <1>10, <1>12 DEF GatewayInv
<1>14. \A d \in Calls \ {c} : exchange'[d] = exchange[d] /\ BucketOf(d)' = BucketOf(d)
  BY <1>9 DEF BucketOf
<1>15. BucketOf(c)' = b
  BY <1>8, <1>9 DEF BucketOf
<1>16. ASSUME NEW x \in Buckets
       PROVE  Cardinality(Holding(x)') + tokens'[x] <= supplied'[x]
  <2>1. /\ tokens[x] \in Nat /\ tokens'[x] \in Nat
        /\ supplied[x] \in Nat /\ supplied'[x] \in Nat
    BY <1>5, <1>6 DEF ExchangeTypes
  <2>2. Cardinality(Holding(x)) + tokens[x] <= supplied[x]
    BY DEF GatewayInv, Counted
  <2>3. IsFiniteSet(Holding(x)) /\ Cardinality(Holding(x)) \in Nat
    BY HoldingIsFinite
  <2>4. CASE x = b
    <3> DEFINE S == Holding(x) \cup {c}
    <3>1. Holding(x)' \subseteq S
      BY <1>14 DEF Holding
    <3>2. IsFiniteSet(S)
      BY ONLY <2>3, FS_AddElement
    <3>3. c \notin Holding(x)
      BY <1>1 DEF Holding, GatewayInv, OnItsWay
    <3>4. Cardinality(S) = Cardinality(Holding(x)) + 1
      BY ONLY <2>3, <3>3, FS_AddElement
    <3> HIDE DEF S
    <3> DEFINE k == Cardinality(Holding(x))
    <3>5. k \in Nat /\ k + tokens[x] <= supplied[x] /\ Cardinality(S) = k + 1
      BY <2>2, <2>3, <3>4
    <3>6. tokens'[x] + 1 + supplied[x] = tokens[x] + supplied'[x]
      BY <1>6, <2>4
    <3> HIDE DEF k
    <3>7. Cardinality(S) <= k + 1 /\ k + 1 \in Nat
      BY ONLY <3>5
    <3>8. supplied[x] + 1 \in Nat /\ k + 1 + tokens[x] <= supplied[x] + 1
      BY ONLY <2>1, <3>5
    <3>9. tokens'[x] + (supplied[x] + 1) <= tokens[x] + supplied'[x]
      BY ONLY <2>1, <3>6
    <3> QED
      BY ONLY <2>1, <3>1, <3>2, <3>7, <3>8, <3>9, StillCounted
  <2>5. CASE x # b
    <3>1. Holding(x)' \subseteq Holding(x)
      BY <1>14, <1>15, <2>5 DEF Holding
    <3>2. tokens'[x] = tokens[x] /\ supplied'[x] = supplied[x]
      BY <1>6, <2>5
    <3>3. tokens'[x] + supplied[x] <= tokens[x] + supplied'[x]
      BY ONLY <2>1, <3>2
    <3>4. Cardinality(Holding(x)) <= Cardinality(Holding(x))
      BY ONLY <2>3
    <3> QED
      BY ONLY <2>1, <2>2, <2>3, <3>1, <3>3, <3>4, StillCounted
  <2> QED
    BY <2>4, <2>5
<1> QED
  BY <1>11, <1>13, <1>16 DEF GatewayInv, Counted

LEMMA GatewayInvStep == GatewayInv /\ [GatewayNext]_gatewayVars => GatewayInv'
<1> SUFFICES ASSUME GatewayInv, [GatewayNext]_gatewayVars PROVE GatewayInv'
  OBVIOUS
<1>1. ExchangeTypes /\ \A b \in Buckets : tokens[b] \in Nat /\ supplied[b] \in Nat
  BY DEF GatewayInv, ExchangeTypes
<1>2. ASSUME UNCHANGED <<tokens, supplied>>
      PROVE  /\ tokens' \in [Buckets -> 0..Budget] /\ supplied' \in [Buckets -> Nat]
             /\ \A b \in Buckets : tokens'[b] + supplied[b] <= tokens[b] + supplied'[b]
  BY <1>1, <1>2 DEF ExchangeTypes
<1>3. ASSUME NEW c \in Calls, exchange[c] # NoExchange
      PROVE  /\ c \in Under /\ exchange[c] \in Exchanges
             /\ OnItsWay(exchange[c]) /\ Granted(exchange[c])
  BY <1>3 DEF GatewayInv, ExchangeTypes, Under
<1>4. ASSUME NEW via \in {"rest", "tool"}, NEW route \in Routes \cup {Public}
      PROVE  Read(via, route) \in Exchanges
  BY DEF Read, Exchanges, Answers
<1>5. ASSUME NEW c \in Calls, NEW via \in {"rest", "tool"}, NEW what \in Answers,
             what \notin {"limited"}, UNCHANGED <<tokens, supplied>>,
             Move(c, [Read(via, Public) EXCEPT !.at = "done", !.answer = what])
      PROVE  GatewayInv'
  <2> DEFINE e == [Read(via, Public) EXCEPT !.at = "done", !.answer = what]
  <2>1. /\ e \in Exchanges /\ e.at = "done" /\ e.answer = what
        /\ e.remaining = -1 /\ e.servedAs = "none"
    <3>1. Read(via, Public) \in Exchanges
      BY <1>4
    <3>2. Read(via, Public).remaining = -1 /\ Read(via, Public).servedAs = "none"
      BY DEF Read
    <3> QED
      BY <1>5, <3>1, <3>2 DEF Exchanges
  <2>2. exchange' = [exchange EXCEPT ![c] = e]
    BY <1>5 DEF Move
  <2> HIDE DEF e
  <2>3. OnItsWay(e) /\ Granted(e)
    BY <2>1, <1>5 DEF OnItsWay, Granted
  <2> QED
    BY <1>5, <1>2, <2>1, <2>2, <2>3, StepWithoutToken
<1>6. ASSUME NEW c \in Calls, NEW via \in {"rest", "tool"}, NEW route \in Routes,
             UNCHANGED <<tokens, supplied>>, Move(c, Read(via, route))
      PROVE  GatewayInv'
  <2> DEFINE e == Read(via, route)
  <2>1. /\ e \in Exchanges /\ e.at = "auth" /\ e.answer = "none" /\ e.route = route
        /\ e.remaining = -1 /\ e.servedAs = "none"
    BY <1>4, <1>6 DEF Read
  <2>2. exchange' = [exchange EXCEPT ![c] = e]
    BY <1>6 DEF Move
  <2> HIDE DEF e
  <2>3. OnItsWay(e) /\ Granted(e)
    BY <2>1, <1>6 DEF OnItsWay, Granted
  <2> QED
    BY <1>6, <1>2, <2>1, <2>2, <2>3, StepWithoutToken
\* A request that is answered where it is, no service called.
<1>7. ASSUME NEW c \in Calls, exchange[c] # NoExchange,
             exchange[c].at \in {"auth", "limit", "handler"},
             NEW what \in Answers, Answer(c, what),
             what = "limited" => exchange[c].at = "limit",
             tokens' \in [Buckets -> 0..Budget], supplied' \in [Buckets -> Nat],
             \A b \in Buckets : tokens'[b] + supplied[b] <= tokens[b] + supplied'[b]
      PROVE  GatewayInv'
  <2> DEFINE e == [exchange[c] EXCEPT !.at = "done", !.answer = what]
  <2>1. /\ e \in Exchanges /\ e.at = "done" /\ e.answer = what
        /\ e.route = exchange[c].route /\ e.tenant = exchange[c].tenant
        /\ e.remaining = exchange[c].remaining /\ e.servedAs = exchange[c].servedAs
    BY <1>3, <1>7 DEF Exchanges
  <2>2. exchange' = [exchange EXCEPT ![c] = e]
    BY <1>7 DEF Answer, Move
  <2> HIDE DEF e
  <2>3. OnItsWay(e)
    BY <2>1 DEF OnItsWay
  <2>4. Granted(e)
    BY <1>3, <1>7, <2>1 DEF OnItsWay, Granted
  <2>5. c \in Under
    BY <1>3, <1>7
  <2> QED
    BY <1>7, <2>1, <2>2, <2>3, <2>4, <2>5, StepWithoutToken
<1>8. ASSUME NEW c \in Calls, ReceivePublic(c) PROVE GatewayInv'
  BY <1>8, <1>5 DEF ReceivePublic, Answers
<1>9. ASSUME NEW c \in Calls, NEW r \in Routes, Receive(c, r) PROVE GatewayInv'
  BY <1>9, <1>6 DEF Receive
<1>10. ASSUME NEW c \in Calls, NEW r \in Tools, ReceiveTool(c, r) PROVE GatewayInv'
  BY <1>10, <1>6 DEF ReceiveTool, Tools, Routes
<1>11. ASSUME NEW c \in Calls, ReceiveNoTool(c) PROVE GatewayInv'
  BY <1>11, <1>5 DEF ReceiveNoTool, Answers
<1>12. ASSUME NEW c \in Calls, NEW t \in GatewayTenants, Authenticated(c, t)
       PROVE  GatewayInv'
  <2> DEFINE e == [exchange[c] EXCEPT !.at = "limit", !.tenant = t]
  <2>1. exchange[c] # NoExchange
    BY <1>12 DEF Authenticated, NoExchange
  <2>2. /\ e \in Exchanges /\ e.at = "limit" /\ e.tenant = t
        /\ e.route = exchange[c].route /\ e.answer = exchange[c].answer
        /\ e.remaining = exchange[c].remaining /\ e.servedAs = exchange[c].servedAs
    BY <1>3, <2>1 DEF Exchanges
  <2>3. exchange' = [exchange EXCEPT ![c] = e] /\ exchange[c].at = "auth"
    BY <1>12 DEF Authenticated, Move
  <2> HIDE DEF e
  <2>4. OnItsWay(e) /\ e.remaining = -1 /\ e.answer = "none" /\ e.servedAs = "none"
    BY <1>3, <2>1, <2>2, <2>3 DEF OnItsWay
  <2>5. Granted(e)
    BY <2>4 DEF Granted
  <2>6. UNCHANGED <<tokens, supplied>>
    BY <1>12 DEF Authenticated
  <2> QED
    BY <1>2, <2>2, <2>3, <2>4, <2>5, <2>6, StepWithoutToken
<1>13. ASSUME NEW c \in Calls, Unauthorized(c) \/ AuthRaises(c) PROVE GatewayInv'
  <2>1. exchange[c] # NoExchange /\ exchange[c].at = "auth" /\ UNCHANGED <<tokens, supplied>>
    BY <1>13 DEF Unauthorized, AuthRaises, NoExchange
  <2>2. Answer(c, "unauthorized") \/ Answer(c, "raised")
    BY <1>13 DEF Unauthorized, AuthRaises
  <2> QED
    BY <1>7, <1>2, <2>1, <2>2 DEF Answers
<1>14. ASSUME NEW c \in Calls, TakeToken(c) PROVE GatewayInv'
  BY <1>14, StepWithToken
<1>15. ASSUME NEW c \in Calls, Limited(c) PROVE GatewayInv'
  <2>1. /\ exchange[c] # NoExchange /\ exchange[c].at = "limit" /\ UNCHANGED <<tokens, supplied>>
        /\ Answer(c, "limited")
    BY <1>15 DEF Limited, NoExchange
  <2> QED
    BY <1>7, <1>2, <2>1 DEF Answers
<1>16. ASSUME NEW c \in Calls, LimitRaises(c) PROVE GatewayInv'
  <2>1. /\ exchange[c] # NoExchange /\ exchange[c].at = "limit"
        /\ Answer(c, "raised")
    BY <1>16 DEF LimitRaises, NoExchange
  <2>2. /\ tokens' \in [Buckets -> 0..Budget] /\ supplied' \in [Buckets -> Nat]
        /\ \A b \in Buckets : tokens'[b] + supplied[b] <= tokens[b] + supplied'[b]
    <3>1. CASE UNCHANGED <<tokens, supplied>>
      BY <3>1, <1>2
    <3>2. ASSUME NEW found \in Found(BucketOf(c)) \ {0}, Consume(BucketOf(c), found)
          PROVE  /\ tokens' \in [Buckets -> 0..Budget] /\ supplied' \in [Buckets -> Nat]
                 /\ \A b \in Buckets :
                        tokens'[b] + supplied[b] <= tokens[b] + supplied'[b]
      <4>1. BucketOf(c) \in Buckets
        BY <1>3, <2>1 DEF OnItsWay, BucketOf, Buckets
      <4> DEFINE b == BucketOf(c)
      <4>2. /\ tokens' \in [Buckets -> 0..Budget] /\ supplied' \in [Buckets -> Nat]
            /\ tokens'[b] + 1 + supplied[b] = tokens[b] + supplied'[b]
            /\ \A x \in Buckets \ {b} :
                   tokens'[x] = tokens[x] /\ supplied'[x] = supplied[x]
        BY <3>2, <4>1, <1>1, ConsumeCounts
      <4> HIDE DEF b
      <4>3. ASSUME NEW x \in Buckets
            PROVE  tokens'[x] + supplied[x] <= tokens[x] + supplied'[x]
        <5>1. /\ tokens[x] \in Nat /\ tokens'[x] \in Nat
              /\ supplied[x] \in Nat /\ supplied'[x] \in Nat
          BY <1>1, <4>2
        <5>2. \/ tokens'[x] + 1 + supplied[x] = tokens[x] + supplied'[x]
              \/ tokens'[x] = tokens[x] /\ supplied'[x] = supplied[x]
          BY <4>2
        <5> QED
          BY ONLY <5>1, <5>2
      <4> QED
        BY <4>2, <4>3
    <3> QED
      BY <1>16, <3>1, <3>2 DEF LimitRaises
  <2> QED
    BY <1>7, <2>1, <2>2 DEF Answers
<1>17. ASSUME NEW c \in Calls, NotServed(c) PROVE GatewayInv'
  <2>1. /\ exchange[c] # NoExchange /\ exchange[c].at = "handler" /\ UNCHANGED <<tokens, supplied>>
        /\ \E what \in {"ok", "failed", "invalid"} : Answer(c, what)
    BY <1>17 DEF NotServed, NoExchange
  <2> QED
    BY <1>7, <1>2, <2>1 DEF Answers
<1>18. ASSUME NEW c \in Calls, Served(c) PROVE GatewayInv'
  <2>1. exchange[c] # NoExchange /\ exchange[c].at = "handler" /\ UNCHANGED <<tokens, supplied>>
    BY <1>18 DEF Served, NoExchange
  <2>2. PICK what \in {"ok", "failed"} :
            Move(c, [exchange[c] EXCEPT !.at = "done", !.answer = what,
                                        !.servedAs = ServedTenant(exchange[c])])
    BY <1>18 DEF Served
  <2> DEFINE who == ServedTenant(exchange[c])
             e == [exchange[c] EXCEPT !.at = "done", !.answer = what, !.servedAs = who]
  <2>3. /\ c \in Under /\ exchange[c] \in Exchanges /\ exchange[c].remaining >= 0
        /\ exchange[c].route \in Routes /\ exchange[c].tenant \in GatewayTenants
    BY <1>3, <2>1 DEF OnItsWay
  <2>4. /\ who \in GatewayTenants \cup {"anyone", "mcp-agent"}
        /\ who \in GatewayTenants => who = exchange[c].tenant
    BY <2>3, TenantAssumption DEF ServedTenant
  <2> HIDE DEF who
  <2>5. /\ e \in Exchanges /\ e.at = "done" /\ e.answer = what /\ e.servedAs = who
        /\ e.route = exchange[c].route /\ e.tenant = exchange[c].tenant
        /\ e.remaining = exchange[c].remaining
    BY <2>3, <2>4 DEF Exchanges, Answers
  <2>6. exchange' = [exchange EXCEPT ![c] = e]
    BY <2>2 DEF Move, who
  <2> HIDE DEF e
  <2>7. OnItsWay(e) /\ Granted(e)
    BY <2>3, <2>4, <2>5 DEF OnItsWay, Granted
  <2> QED
    BY <1>2, <2>1, <2>3, <2>5, <2>6, <2>7, StepWithoutToken
<1>19. ASSUME UNCHANGED gatewayVars PROVE GatewayInv'
  BY <1>19 DEF gatewayVars, GatewayInv, ExchangeTypes, Under, Counted, Holding, BucketOf
<1> QED
  BY <1>8, <1>9, <1>10, <1>11, <1>12, <1>13, <1>14, <1>15, <1>16, <1>17, <1>18, <1>19
     DEF GatewayNext

LEMMA GatewayInvCorrect == GatewaySpec => []GatewayInv
  BY GatewayInvInit, GatewayInvStep, PTL DEF GatewaySpec

(* Requests and tokens stay well typed, and no bucket leaves its bounds.   *)
THEOREM GatewayTypeCorrect == GatewaySpec => []GatewayTypeOK
<1>1. GatewayInv => GatewayTypeOK
  BY DEF GatewayInv, ExchangeTypes, Exchanges, GatewayTypeOK
<1> QED
  BY <1>1, GatewayInvCorrect, PTL

(* Every service call belongs to an authenticated request that was given a *)
(* token and is made for its tenant or for none, and no more tokens are    *)
(* given than there have been, for any number of requests.                 *)
THEOREM GatewaySoundCorrect == GatewaySpec => []GatewaySound
<1>1. GatewayInv => GatewaySound
  <2> SUFFICES ASSUME GatewayInv PROVE GatewaySound
    OBVIOUS
  <2>1. ASSUME NEW c \in Calls, exchange[c].at \notin {"none", "auth"}
        PROVE  Granted(exchange[c]) /\ c \in Under
    BY <2>1 DEF GatewayInv, ExchangeTypes, Under, NoExchange
  <2>2. ASSUME NEW c \in Calls, exchange[c].at \notin {"none", "auth"}
        PROVE  /\ exchange[c].servedAs # "none" =>
                      /\ exchange[c].tenant \in GatewayTenants
                      /\ exchange[c].remaining >= 0
                      /\ exchange[c].answer \in {"ok", "failed"}
                      /\ exchange[c].servedAs \in GatewayTenants =>
                             exchange[c].servedAs = exchange[c].tenant
               /\ exchange[c].answer = "limited" => exchange[c].remaining < 0
    BY <2>1, <2>2 DEF Granted
  <2>3. \A b \in Buckets : Cardinality(Holding(b)) + tokens[b] <= supplied[b]
    BY DEF GatewayInv, Counted
  <2> QED
    BY <2>2, <2>3 DEF GatewaySound
<1> QED
  BY <1>1, GatewayInvCorrect, PTL

-----------------------------------------------------------------------------
(* Parse, by the function it is defined with.                              *)

\* What the parser knows after each of the first n tokens.
Reads(g, n, ts) ==
    g = [m \in 0..n |-> IF m = 0 THEN ParseInit ELSE ParseStep(g[m - 1], ts[m])]

LEMMA ReadsExist ==
    ASSUME NEW ts
    PROVE  \A n \in Nat : \E g : Reads(g, n, ts)
<1> DEFINE T == {n \in Nat : \E g : Reads(g, n, ts)}
<1>1. 0 \in T
  <2> DEFINE g == [m \in 0..0 |-> ParseInit]
  <2>1. Reads(g, 0, ts)
    BY DEF Reads
  <2> QED
    BY <2>1
<1>2. ASSUME NEW n \in Nat, n \in T PROVE n + 1 \in T
  <2>1. PICK g : Reads(g, n, ts)
    BY <1>2
  <2> DEFINE last == ParseStep(g[n], ts[n + 1])
             h == [m \in 0..(n + 1) |-> IF m = n + 1 THEN last ELSE g[m]]
  <2>2. \A m \in 0..n : g[m] = IF m = 0 THEN ParseInit ELSE ParseStep(g[m - 1], ts[m])
    BY <2>1 DEF Reads
  <2>3. \A m \in 0..n : h[m] = g[m]
    OBVIOUS
  <2>4. h[n + 1] = last
    OBVIOUS
  <2> HIDE DEF last
  <2>5. h = [m \in 0..(n + 1) |-> h[m]]
    OBVIOUS
  <2> HIDE DEF h
  <2>6. \A m \in 0..(n + 1) :
            h[m] = IF m = 0 THEN ParseInit ELSE ParseStep(h[m - 1], ts[m])
    <3> SUFFICES ASSUME NEW m \in 0..(n + 1)
                 PROVE  h[m] = IF m = 0 THEN ParseInit ELSE ParseStep(h[m - 1], ts[m])
      OBVIOUS
    <3>1. CASE m = n + 1
      <4>1. h[m] = last /\ m # 0 /\ m - 1 = n /\ h[m - 1] = g[n]
        BY <3>1, <2>3, <2>4
      <4> QED
        BY <4>1, <3>1 DEF last
    <3>2. CASE m \in 0..n
      <4>1. h[m] = g[m] /\ (m # 0 => h[m - 1] = g[m - 1])
        BY <3>2, <2>3
      <4> QED
        BY <4>1, <3>2, <2>2
    <3> QED
      BY <3>1, <3>2
  <2>7. Reads(h, n + 1, ts)
    BY <2>5, <2>6, Zenon DEF Reads
  <2> QED
    BY <2>7
<1> HIDE DEF T
<1>3. Nat \subseteq T
  BY <1>1, <1>2, NumberInduction
<1> QED
  BY <1>3 DEF T

LEMMA ParseReads ==
    ASSUME NEW S, NEW ts \in Seq(S)
    PROVE  \E g : Reads(g, Len(ts), ts) /\ ReadThrough(ts) = ParseEnds(g[Len(ts)])
<1> DEFINE f == CHOOSE g : Reads(g, Len(ts), ts)
<1>1. \E g : Reads(g, Len(ts), ts)
  <2>1. Len(ts) \in Nat
    OBVIOUS
  <2> QED
    BY <2>1, ReadsExist
<1>2. Reads(f, Len(ts), ts)
  BY <1>1
<1>3. ReadThrough(ts) = ParseEnds(f[Len(ts)])
  BY DEF ReadThrough, Reads
<1> QED
  BY <1>2, <1>3

LEMMA ReadsSteps ==
    ASSUME NEW ts, NEW n \in Nat, NEW g, Reads(g, n, ts)
    PROVE  /\ g[0] = ParseInit
           /\ \A m \in 0..(n - 1) : g[m + 1] = ParseStep(g[m], ts[m + 1])
<1>1. \A m \in 0..n : g[m] = IF m = 0 THEN ParseInit ELSE ParseStep(g[m - 1], ts[m])
  BY DEF Reads
<1>2. g[0] = ParseInit
  BY <1>1
<1>3. ASSUME NEW m \in 0..(n - 1) PROVE g[m + 1] = ParseStep(g[m], ts[m + 1])
  <2>1. m + 1 \in 0..n /\ m + 1 # 0 /\ (m + 1) - 1 = m
    OBVIOUS
  <2> QED
    BY <2>1, <1>1
<1> QED
  BY <1>2, <1>3

-----------------------------------------------------------------------------
(* Counting tokens.                                                        *)

LEMMA SeenNone ==
    ASSUME NEW ts, NEW S
    PROVE  Seen(ts, 0, S) = 0
<1>1. {j \in 1..0 : ts[j] \in S} = {}
  OBVIOUS
<1> QED
  BY <1>1, FS_EmptySet DEF Seen

LEMMA SeenType ==
    ASSUME NEW ts, NEW S, NEW n \in Nat
    PROVE  Seen(ts, n, S) \in Nat
<1> DEFINE A == {j \in 1..n : ts[j] \in S}
<1>1. IsFiniteSet(1..n)
  BY FS_Interval
<1>2. A \subseteq 1..n
  OBVIOUS
<1> HIDE DEF A
<1>3. Cardinality(A) \in Nat
  BY <1>1, <1>2, FS_Subset, FS_CardinalityType
<1> QED
  BY <1>3 DEF A, Seen

LEMMA SeenOne ==
    ASSUME NEW ts, NEW S, NEW n \in Nat
    PROVE  Seen(ts, n + 1, S) = Seen(ts, n, S) + (IF ts[n + 1] \in S THEN 1 ELSE 0)
<1> DEFINE A == {j \in 1..n : ts[j] \in S}
           B == {j \in 1..(n + 1) : ts[j] \in S}
<1>1. IsFiniteSet(A)
  <2>1. IsFiniteSet(1..n)
    BY FS_Interval
  <2>2. A \subseteq 1..n
    OBVIOUS
  <2> QED
    BY <2>1, <2>2, FS_Subset
<1>2. n + 1 \notin A
  OBVIOUS
<1>3. B = IF ts[n + 1] \in S THEN A \cup {n + 1} ELSE A
  OBVIOUS
<1> HIDE DEF A, B
<1>4. Cardinality(A) \in Nat
  BY <1>1, FS_CardinalityType
<1>5. Cardinality(A \cup {n + 1}) = Cardinality(A) + 1
  BY <1>1, <1>2, FS_AddElement
<1>6. Cardinality(B) = Cardinality(A) + (IF ts[n + 1] \in S THEN 1 ELSE 0)
  BY <1>3, <1>4, <1>5
<1> QED
  BY <1>6 DEF A, B, Seen

LEMMA OpenedNone ==
    ASSUME NEW ts
    PROVE  Opened(ts, 0) = 0
BY SeenNone DEF Opened

LEMMA OpenedType ==
    ASSUME NEW ts, NEW n \in Nat
    PROVE  Opened(ts, n) \in Int
<1>1. Seen(ts, n, {"("}) \in Nat /\ Seen(ts, n, {")"}) \in Nat
  BY SeenType
<1> QED
  BY <1>1 DEF Opened

LEMMA OpenedOne ==
    ASSUME NEW ts, NEW n \in Nat
    PROVE  /\ ts[n + 1] = "(" => Opened(ts, n + 1) = Opened(ts, n) + 1
           /\ ts[n + 1] = ")" => Opened(ts, n + 1) = Opened(ts, n) - 1
           /\ ts[n + 1] \notin {"(", ")"} => Opened(ts, n + 1) = Opened(ts, n)
<1>1. Seen(ts, n, {"("}) \in Nat /\ Seen(ts, n, {")"}) \in Nat
  BY SeenType
<1>2. /\ Seen(ts, n + 1, {"("}) = Seen(ts, n, {"("}) + (IF ts[n + 1] \in {"("} THEN 1 ELSE 0)
      /\ Seen(ts, n + 1, {")"}) = Seen(ts, n, {")"}) + (IF ts[n + 1] \in {")"} THEN 1 ELSE 0)
  BY SeenOne
<1> DEFINE a == Seen(ts, n, {"("})
           b == Seen(ts, n, {")"})
           c == Seen(ts, n + 1, {"("})
           d == Seen(ts, n + 1, {")"})
<1>3. /\ a \in Nat /\ b \in Nat
      /\ c = a + (IF ts[n + 1] = "(" THEN 1 ELSE 0)
      /\ d = b + (IF ts[n + 1] = ")" THEN 1 ELSE 0)
  BY <1>1, <1>2
<1>4. Opened(ts, n) = a - b /\ Opened(ts, n + 1) = c - d
  BY DEF Opened
<1> HIDE DEF a, b, c, d
<1> QED
  BY <1>3, <1>4

-----------------------------------------------------------------------------
(* The nodes of a filter and the calls that make them.                     *)

\* A set of nodes with every filter that can be made of them.
Closed(N) ==
    /\ \A c \in Comparisons : [op |-> "leaf", leaf |-> c] \in N
    /\ \A n \in N : [op |-> "not", kid |-> n] \in N
    /\ \A word \in {"and", "or"}, kids \in Seq(N) : [op |-> word, kids |-> kids] \in N

CallsOf(N) == [ors : Seq(N), ands : Seq(N), nots : Nat]

ParserStates(N) ==
    [code : {"ok", "syntax_error", "filter_too_large"}, outer : Seq(CallsOf(N)),
     call : CallsOf(N), wanted : BOOLEAN, leaves : Nat]

\* Where no operand is wanted the call has one.
ParserTyped(N, s) ==
    /\ s \in ParserStates(N)
    /\ ~s.wanted => s.call.ands # <<>>

\* Negated, by the function it is defined with.
Negations(g, n, node) ==
    g = [k \in 0..n |-> IF k = 0 THEN node ELSE [op |-> "not", kid |-> g[k - 1]]]

LEMMA NegationsExist ==
    ASSUME NEW node
    PROVE  \A n \in Nat : \E g : Negations(g, n, node)
<1> DEFINE T == {n \in Nat : \E g : Negations(g, n, node)}
<1>1. 0 \in T
  <2> DEFINE g == [k \in 0..0 |-> node]
  <2>1. Negations(g, 0, node)
    BY DEF Negations
  <2> QED
    BY <2>1
<1>2. ASSUME NEW n \in Nat, n \in T PROVE n + 1 \in T
  <2>1. PICK g : Negations(g, n, node)
    BY <1>2
  <2> DEFINE last == [op |-> "not", kid |-> g[n]]
             h == [k \in 0..(n + 1) |-> IF k = n + 1 THEN last ELSE g[k]]
  <2>2. \A k \in 0..n : g[k] = IF k = 0 THEN node ELSE [op |-> "not", kid |-> g[k - 1]]
    BY <2>1 DEF Negations
  <2>3. \A k \in 0..n : h[k] = g[k]
    OBVIOUS
  <2>4. h[n + 1] = last
    OBVIOUS
  <2> HIDE DEF last
  <2>5. h = [k \in 0..(n + 1) |-> h[k]]
    OBVIOUS
  <2> HIDE DEF h
  <2>6. \A k \in 0..(n + 1) :
            h[k] = IF k = 0 THEN node ELSE [op |-> "not", kid |-> h[k - 1]]
    <3> SUFFICES ASSUME NEW k \in 0..(n + 1)
                 PROVE  h[k] = IF k = 0 THEN node ELSE [op |-> "not", kid |-> h[k - 1]]
      OBVIOUS
    <3>1. CASE k = n + 1
      <4>1. h[k] = last /\ k # 0 /\ k - 1 = n /\ h[k - 1] = g[n]
        BY <3>1, <2>3, <2>4
      <4> QED
        BY <4>1, <3>1 DEF last
    <3>2. CASE k \in 0..n
      <4>1. h[k] = g[k] /\ (k # 0 => h[k - 1] = g[k - 1])
        BY <3>2, <2>3
      <4> QED
        BY <4>1, <3>2, <2>2
    <3> QED
      BY <3>1, <3>2
  <2>7. Negations(h, n + 1, node)
    BY <2>5, <2>6, Zenon DEF Negations
  <2> QED
    BY <2>7
<1> HIDE DEF T
<1>3. Nat \subseteq T
  BY <1>1, <1>2, NumberInduction
<1> QED
  BY <1>3 DEF T

LEMMA NegatedSteps ==
    ASSUME NEW node, NEW n \in Nat
    PROVE  \E g : /\ Negated(n, node) = g[n] /\ g[0] = node
                  /\ \A k \in 0..(n - 1) : g[k + 1] = [op |-> "not", kid |-> g[k]]
<1> DEFINE f == CHOOSE g : Negations(g, n, node)
<1>1. Negations(f, n, node)
  BY NegationsExist
<1>2. Negated(n, node) = f[n]
  BY DEF Negated, Negations
<1> HIDE DEF f
<1>3. \A k \in 0..n : f[k] = IF k = 0 THEN node ELSE [op |-> "not", kid |-> f[k - 1]]
  BY <1>1 DEF Negations
<1>4. ASSUME NEW k \in 0..(n - 1) PROVE f[k + 1] = [op |-> "not", kid |-> f[k]]
  <2>1. k + 1 \in 0..n /\ k + 1 # 0 /\ (k + 1) - 1 = k
    OBVIOUS
  <2> QED
    BY <2>1, <1>3
<1>5. f[0] = node
  <2>1. 0 \in 0..n
    OBVIOUS
  <2> QED
    BY <2>1, <1>3
<1> QED
  BY <1>2, <1>4, <1>5

LEMMA NegatedType ==
    ASSUME NEW N, Closed(N), NEW node \in N, NEW n \in Nat
    PROVE  Negated(n, node) \in N
<1>1. PICK g : /\ Negated(n, node) = g[n] /\ g[0] = node
               /\ \A k \in 0..(n - 1) : g[k + 1] = [op |-> "not", kid |-> g[k]]
  BY NegatedSteps
<1> DEFINE T == {k \in Nat : k <= n => g[k] \in N}
<1>2. 0 \in T
  BY <1>1
<1>3. ASSUME NEW k \in Nat, k \in T PROVE k + 1 \in T
  <2>1. SUFFICES ASSUME k + 1 <= n PROVE g[k + 1] \in N
    OBVIOUS
  <2>2. k \in 0..(n - 1) /\ g[k] \in N
    BY <1>3, <2>1
  <2>3. g[k + 1] = [op |-> "not", kid |-> g[k]]
    BY <2>2, <1>1
  <2> QED
    BY <2>2, <2>3 DEF Closed
<1> HIDE DEF T
<1>4. Nat \subseteq T
  BY <1>2, <1>3, NumberInduction
<1>5. n \in T
  BY <1>4
<1> QED
  BY <1>1, <1>5 DEF T

LEMMA NodeType ==
    ASSUME NEW N, Closed(N), NEW kids \in Seq(N), kids # <<>>,
           NEW word \in {"and", "or"}
    PROVE  Node(word, kids) \in N
<1>1. Len(kids) \in Nat /\ Len(kids) # 0
  OBVIOUS
<1>2. CASE Len(kids) = 1
  <2>1. kids[1] \in N
    BY <1>2
  <2> QED
    BY <1>2, <2>1 DEF Node
<1>3. CASE Len(kids) # 1
  BY <1>3 DEF Node, Closed
<1> QED
  BY <1>2, <1>3

LEMMA TookType ==
    ASSUME NEW N, Closed(N), NEW call \in CallsOf(N), NEW node \in N
    PROVE  /\ Took(call, node) \in CallsOf(N)
           /\ Took(call, node).ors = call.ors
           /\ Took(call, node).ands = Append(call.ands, Negated(call.nots, node))
           /\ Took(call, node).ands # <<>>
           /\ Took(call, node).nots = 0
<1>1. Negated(call.nots, node) \in N
  BY NegatedType DEF CallsOf
<1>2. PICK x \in N : x = Negated(call.nots, node)
  BY <1>1
<1>3. Took(call, node) = [call EXCEPT !.ands = Append(@, x), !.nots = 0]
  BY <1>2 DEF Took
<1>4. call.ors \in Seq(N) /\ call.ands \in Seq(N)
  BY DEF CallsOf
<1>5. PICK more \in Seq(N) : more = Append(call.ands, x) /\ more # <<>>
  BY <1>4, AppendProperties
<1>6. Took(call, node) = [ors |-> call.ors, ands |-> more, nots |-> 0]
  BY <1>3, <1>5 DEF CallsOf
<1>7. /\ Took(call, node) \in CallsOf(N)
      /\ Took(call, node).ors = call.ors
      /\ Took(call, node).ands = more
      /\ Took(call, node).nots = 0
  BY <1>4, <1>6 DEF CallsOf
<1> QED
  BY <1>2, <1>5, <1>7

LEMMA AndOverType ==
    ASSUME NEW N, Closed(N), NEW call \in CallsOf(N), call.ands # <<>>
    PROVE  /\ AndOver(call) \in CallsOf(N)
           /\ AndOver(call).ors = Append(call.ors, Node("and", call.ands))
           /\ AndOver(call).ors # <<>>
           /\ AndOver(call).ands = <<>>
           /\ AndOver(call).nots = call.nots
           /\ Node("and", call.ands) \in N
           /\ Built(call) = Node("or", AndOver(call).ors)
           /\ Built(call) \in N
<1>1. Node("and", call.ands) \in N
  BY NodeType DEF CallsOf
<1>2. PICK x \in N : x = Node("and", call.ands)
  BY <1>1
<1>3. AndOver(call) = [call EXCEPT !.ors = Append(@, x), !.ands = <<>>]
  BY <1>2 DEF AndOver
<1>4. call.ors \in Seq(N)
  BY DEF CallsOf
<1>5. PICK more \in Seq(N) : more = Append(call.ors, x) /\ more # <<>>
  BY <1>4, AppendProperties
<1>6. PICK none \in Seq(N) : none = <<>>
  BY EmptySeq
<1>7. AndOver(call) = [call EXCEPT !.ors = more, !.ands = none]
  BY <1>3, <1>5, <1>6
<1>8. /\ AndOver(call) \in CallsOf(N)
      /\ AndOver(call).ors = more
      /\ AndOver(call).ands = none
      /\ AndOver(call).nots = call.nots
  BY <1>7 DEF CallsOf
<1>9. Built(call) = Node("or", AndOver(call).ors)
  BY DEF Built
<1>10. Built(call) \in N
  BY <1>5, <1>8, <1>9, NodeType
<1> QED
  BY <1>2, <1>5, <1>6, <1>8, <1>9, <1>10

-----------------------------------------------------------------------------
(* One token, case by case.                                                *)

LEMMA InitTyped ==
    ASSUME NEW N
    PROVE  ParserTyped(N, ParseInit)
<1>1. <<>> \in Seq(N) /\ <<>> \in Seq(CallsOf(N))
  BY EmptySeq
<1>2. NewCall \in CallsOf(N)
  BY <1>1 DEF NewCall, CallsOf
<1> QED
  BY <1>1, <1>2 DEF ParserTyped, ParseInit, ParserStates

LEMMA WordsApart ==
    /\ Comparisons \cap {"(", ")", "and", "or", "not"} = {}
    /\ MaxNesting \in Nat \ {0} /\ MaxLeaves \in Nat
BY ParserAssumption DEF Reserved

LEMMA StepNot ==
    ASSUME NEW N, NEW s, ParserTyped(N, s), s.code = "ok", s.wanted
    PROVE  LET r == ParseStep(s, "not") IN
           /\ ParserTyped(N, r) /\ r.code = "ok" /\ r.wanted
           /\ r.outer = s.outer /\ r.leaves = s.leaves
           /\ r.call.ors = s.call.ors /\ r.call.ands = s.call.ands
           /\ r.call.nots = s.call.nots + 1
<1>1. ParseStep(s, "not") = [s EXCEPT !.call.nots = @ + 1]
  <2>1. "not" \notin Comparisons /\ "not" # "("
    BY WordsApart
  <2>2. ReadOperand(s, "not") = [s EXCEPT !.call.nots = @ + 1]
    BY <2>1, Zenon DEF ReadOperand
  <2> QED
    BY <2>2, Zenon DEF ParseStep
<1>2. s \in ParserStates(N) /\ s.call \in CallsOf(N)
  BY DEF ParserTyped, ParserStates
<1>3. PICK c \in CallsOf(N) :
         c.ors = s.call.ors /\ c.ands = s.call.ands /\ c.nots = s.call.nots + 1
         /\ [s EXCEPT !.call.nots = @ + 1] = [s EXCEPT !.call = c]
  <2> DEFINE c == [s.call EXCEPT !.nots = @ + 1]
  <2>1. /\ c \in CallsOf(N) /\ c.ors = s.call.ors /\ c.ands = s.call.ands
        /\ c.nots = s.call.nots + 1
    BY <1>2 DEF CallsOf
  <2>2. [s EXCEPT !.call.nots = @ + 1] = [s EXCEPT !.call = c]
    BY <1>2 DEF ParserStates
  <2> QED
    BY <2>1, <2>2
<1> QED
  BY <1>1, <1>2, <1>3 DEF ParserTyped, ParserStates

LEMMA StepOpen ==
    ASSUME NEW N, NEW s, ParserTyped(N, s), s.code = "ok", s.wanted,
           Len(s.outer) + 2 <= MaxNesting
    PROVE  LET r == ParseStep(s, "(") IN
           /\ ParserTyped(N, r) /\ r.code = "ok" /\ r.wanted
           /\ r.outer = Append(s.outer, s.call) /\ r.leaves = s.leaves
           /\ r.call = NewCall
<1>1. s \in ParserStates(N) /\ s.call \in CallsOf(N) /\ s.outer \in Seq(CallsOf(N))
  BY DEF ParserTyped, ParserStates
<1>2. PICK more \in Seq(CallsOf(N)) : more = Append(s.outer, s.call)
  BY <1>1, AppendProperties
<1>3. ~(Len(s.outer) + 2 > MaxNesting)
  <2>1. PICK a \in Nat : a = Len(s.outer)
    BY <1>1, LenProperties
  <2> QED
    BY <2>1, ParserAssumption
<1>4. ParseStep(s, "(") = [s EXCEPT !.outer = more, !.call = NewCall]
  <2>1. ReadOperand(s, "(") = [s EXCEPT !.outer = Append(@, s.call), !.call = NewCall]
    <3>1. "(" \notin Comparisons /\ "(" # "not"
      BY WordsApart
    <3> QED
      BY <3>1, <1>3, Zenon DEF ReadOperand
  <2> QED
    BY <2>1, <1>1, <1>2 DEF ParseStep, ParserStates
<1>5. NewCall \in CallsOf(N)
  BY EmptySeq DEF NewCall, CallsOf
<1> QED
  BY <1>1, <1>2, <1>4, <1>5 DEF ParserTyped, ParserStates

LEMMA StepCompare ==
    ASSUME NEW N, Closed(N), NEW s, ParserTyped(N, s), s.code = "ok", s.wanted,
           NEW t \in Comparisons, s.leaves + 1 <= MaxLeaves
    PROVE  LET r == ParseStep(s, t)
               leaf == [op |-> "leaf", leaf |-> t] IN
           /\ ParserTyped(N, r) /\ r.code = "ok" /\ ~r.wanted
           /\ r.outer = s.outer /\ r.leaves = s.leaves + 1
           /\ leaf \in N /\ r.call = Took(s.call, leaf)
<1>1. s \in ParserStates(N) /\ s.call \in CallsOf(N)
  BY DEF ParserTyped, ParserStates
<1>2. PICK leaf \in N : leaf = [op |-> "leaf", leaf |-> t]
  BY DEF Closed
<1>3. /\ Took(s.call, leaf) \in CallsOf(N) /\ Took(s.call, leaf).ands # <<>>
  BY <1>1, TookType
<1>4. t \notin Reserved /\ ~(s.leaves + 1 > MaxLeaves)
  <2>1. s.leaves \in Nat
    BY <1>1 DEF ParserStates
  <2> QED
    BY <2>1, ParserAssumption
<1>5. t # "not" /\ t # "("
  BY <1>4 DEF Reserved
<1>6. ReadOperand(s, t) = [s EXCEPT !.call = Took(@, [op |-> "leaf", leaf |-> t]),
                                    !.wanted = FALSE, !.leaves = @ + 1]
  BY <1>4, <1>5, Zenon DEF ReadOperand
<1>7. PICK c \in CallsOf(N) : c = Took(s.call, leaf) /\ c.ands # <<>>
  BY <1>3
<1>8. PICK l \in Nat : l = s.leaves + 1
  BY <1>1 DEF ParserStates
<1>9. ParseStep(s, t) = [s EXCEPT !.call = c, !.wanted = FALSE, !.leaves = l]
  BY <1>1, <1>2, <1>6, <1>7, <1>8 DEF ParseStep, ParserStates
<1>10. PICK r : r = ParseStep(s, t)
  OBVIOUS
<1>11. /\ r \in ParserStates(N) /\ r.code = "ok" /\ ~r.wanted
       /\ r.outer = s.outer /\ r.leaves = l /\ r.call = c
  BY <1>1, <1>9, <1>10 DEF ParserStates
<1> QED
  BY <1>2, <1>7, <1>8, <1>10, <1>11 DEF ParserTyped

LEMMA StepAnd ==
    ASSUME NEW N, NEW s, ParserTyped(N, s), s.code = "ok", ~s.wanted
    PROVE  LET r == ParseStep(s, "and") IN
           /\ ParserTyped(N, r) /\ r.code = "ok" /\ r.wanted
           /\ r.outer = s.outer /\ r.leaves = s.leaves /\ r.call = s.call
<1>1. ParseStep(s, "and") = [s EXCEPT !.wanted = TRUE]
  BY DEF ParseStep, ReadWord
<1> QED
  BY <1>1 DEF ParserTyped, ParserStates

LEMMA StepOr ==
    ASSUME NEW N, Closed(N), NEW s, ParserTyped(N, s), s.code = "ok", ~s.wanted
    PROVE  LET r == ParseStep(s, "or") IN
           /\ ParserTyped(N, r) /\ r.code = "ok" /\ r.wanted
           /\ r.outer = s.outer /\ r.leaves = s.leaves /\ r.call = AndOver(s.call)
<1>1. s \in ParserStates(N) /\ s.call \in CallsOf(N) /\ s.call.ands # <<>>
  BY DEF ParserTyped, ParserStates
<1>2. PICK c \in CallsOf(N) : c = AndOver(s.call)
  BY <1>1, AndOverType
<1>3. ParseStep(s, "or") = [s EXCEPT !.call = c, !.wanted = TRUE]
  BY <1>1, <1>2 DEF ParseStep, ReadWord, ParserStates
<1> QED
  BY <1>1, <1>2, <1>3 DEF ParserTyped, ParserStates

LEMMA StepClose ==
    ASSUME NEW N, Closed(N), NEW s, ParserTyped(N, s), s.code = "ok", ~s.wanted,
           s.outer # <<>>
    PROVE  LET r == ParseStep(s, ")") IN
           /\ ParserTyped(N, r) /\ r.code = "ok" /\ ~r.wanted
           /\ r.outer = SubSeq(s.outer, 1, Len(s.outer) - 1) /\ r.leaves = s.leaves
           /\ Built(s.call) \in N /\ s.outer[Len(s.outer)] \in CallsOf(N)
           /\ r.call = Took(s.outer[Len(s.outer)], Built(s.call))
<1>1. /\ s \in ParserStates(N) /\ s.call \in CallsOf(N) /\ s.call.ands # <<>>
      /\ s.outer \in Seq(CallsOf(N))
  BY DEF ParserTyped, ParserStates
<1>2. Built(s.call) \in N
  BY <1>1, AndOverType
<1>3. Len(s.outer) \in Nat /\ Len(s.outer) # 0 /\ s.outer[Len(s.outer)] \in CallsOf(N)
  BY <1>1, EmptySeq, ElementOfSeq
<1>4. PICK less \in Seq(CallsOf(N)) : less = SubSeq(s.outer, 1, Len(s.outer) - 1)
  <2>1. Len(s.outer) - 1 \in Nat /\ Len(s.outer) - 1 <= Len(s.outer)
    BY <1>3
  <2>2. SubSeq(s.outer, 1, Len(s.outer) - 1) \in Seq(CallsOf(N))
    BY <1>1, <2>1, SubSeqProperties
  <2> QED
    BY <2>2
<1>5. PICK c \in CallsOf(N) : c = Took(s.outer[Len(s.outer)], Built(s.call)) /\ c.ands # <<>>
  BY <1>2, <1>3, TookType
<1>6. ReadWord(s, ")") = [s EXCEPT !.call = Took(s.outer[Len(s.outer)], Built(s.call)),
                                   !.outer = SubSeq(@, 1, Len(@) - 1)]
  BY Zenon DEF ReadWord
<1>7. ParseStep(s, ")") = [s EXCEPT !.call = c, !.outer = less]
  BY <1>1, <1>4, <1>5, <1>6 DEF ParseStep, ParserStates
<1> QED
  BY <1>1, <1>2, <1>3, <1>4, <1>5, <1>7 DEF ParserTyped, ParserStates

\* Where none of these applies the text is refused.
LEMMA StepRefused ==
    ASSUME NEW N, NEW s, ParserTyped(N, s), s.code = "ok", NEW t \in Tokens
    PROVE  LET r == ParseStep(s, t) IN
           /\ s.wanted /\ t = "(" /\ Len(s.outer) + 2 > MaxNesting =>
                  r = [s EXCEPT !.code = "filter_too_large"]
           /\ s.wanted /\ t \in Comparisons /\ s.leaves + 1 > MaxLeaves =>
                  r = [s EXCEPT !.code = "filter_too_large"]
           /\ s.wanted /\ ~Begins(t) => r = [s EXCEPT !.code = "syntax_error"]
           /\ ~s.wanted /\ t \notin {"and", "or", ")"} => r = [s EXCEPT !.code = "syntax_error"]
           /\ ~s.wanted /\ t = ")" /\ s.outer = <<>> => r = [s EXCEPT !.code = "syntax_error"]
<1>1. t \in Comparisons => t \notin {"(", "not"}
  BY ParserAssumption DEF Reserved
<1>2. s.wanted /\ t = "(" /\ Len(s.outer) + 2 > MaxNesting =>
          ReadOperand(s, t) = [s EXCEPT !.code = "filter_too_large"]
  <2>1. SUFFICES ASSUME t = "(", Len(s.outer) + 2 > MaxNesting
                 PROVE  ReadOperand(s, t) = [s EXCEPT !.code = "filter_too_large"]
    OBVIOUS
  <2>2. Len(s.outer) \in Nat
    BY LenProperties DEF ParserTyped, ParserStates
  <2>3. ~(Len(s.outer) + 2 <= MaxNesting) /\ t # "not" /\ t \notin Comparisons
    BY <2>1, <2>2, WordsApart
  <2> QED
    BY <2>1, <2>3, Zenon DEF ReadOperand
<1>3. s.wanted /\ t \in Comparisons /\ s.leaves + 1 > MaxLeaves =>
          ReadOperand(s, t) = [s EXCEPT !.code = "filter_too_large"]
  <2>1. SUFFICES ASSUME t \in Comparisons, s.leaves + 1 > MaxLeaves
                 PROVE  ReadOperand(s, t) = [s EXCEPT !.code = "filter_too_large"]
    OBVIOUS
  <2>2. t # "(" /\ t # "not" /\ ~(s.leaves + 1 <= MaxLeaves)
    <3>1. s.leaves \in Nat
      BY DEF ParserTyped, ParserStates
    <3> QED
      BY <1>1, <2>1, <3>1, ParserAssumption
  <2> QED
    BY <2>1, <2>2, Zenon DEF ReadOperand
<1>4. ~Begins(t) => ReadOperand(s, t) = [s EXCEPT !.code = "syntax_error"]
  BY Zenon DEF ReadOperand, Begins
<1>5. t \notin {"and", "or", ")"} => ReadWord(s, t) = [s EXCEPT !.code = "syntax_error"]
  BY Zenon DEF ReadWord
<1>6. t = ")" /\ s.outer = <<>> => ReadWord(s, t) = [s EXCEPT !.code = "syntax_error"]
  BY DEF ReadWord
<1> QED
  BY <1>2, <1>3, <1>4, <1>5, <1>6, Zenon DEF ParseStep

-----------------------------------------------------------------------------
(* The parser accepts what it should.                                      *)

\* What WellFormed and TokensInLimits say of the first n tokens.
PrefixFormed(ts, n) ==
    /\ n > 0 => Begins(ts[1])
    /\ \A m \in 1..(n - 1) : Begins(ts[m + 1]) <=> ~Ends(ts[m])
    /\ \A m \in 1..n : Opened(ts, m) >= 0

PrefixInLimits(ts, n) ==
    /\ \A m \in 1..n : Opened(ts, m) < MaxNesting
    /\ Seen(ts, n, Comparisons) <= MaxLeaves

\* An operand comes next.
OperandNext(ts, n) == n = 0 \/ ~Ends(ts[n])

\* After n tokens the parser is where they leave it, or has found in them
\* what it reports.
ReadExact(ts, n, s) ==
    /\ s.code = "ok" =>
        /\ PrefixFormed(ts, n) /\ PrefixInLimits(ts, n)
        /\ s.wanted <=> OperandNext(ts, n)
        /\ Len(s.outer) = Opened(ts, n)
        /\ s.leaves = Seen(ts, n, Comparisons)
    /\ s.code = "syntax_error" => ~PrefixFormed(ts, n)
    /\ s.code = "filter_too_large" => ~PrefixInLimits(ts, n)

LEMMA PrefixFormedOne ==
    ASSUME NEW ts, NEW n \in Nat
    PROVE  PrefixFormed(ts, n + 1) <=>
               /\ PrefixFormed(ts, n)
               /\ Begins(ts[n + 1]) <=> OperandNext(ts, n)
               /\ Opened(ts, n + 1) >= 0
<1>1. 1..(n + 1) = 1..n \cup {n + 1}
  OBVIOUS
<1>2. CASE n = 0
  BY <1>1, <1>2 DEF PrefixFormed, OperandNext
<1>3. CASE n # 0
  <2>1. 1..((n + 1) - 1) = 1..(n - 1) \cup {n}
    BY <1>3
  <2>2. n > 0 /\ n + 1 > 0
    BY <1>3
  <2> QED
    BY <1>1, <1>3, <2>1, <2>2, Zenon DEF PrefixFormed, OperandNext
<1> QED
  BY <1>2, <1>3

LEMMA PrefixInLimitsOne ==
    ASSUME NEW ts, NEW n \in Nat
    PROVE  PrefixInLimits(ts, n + 1) <=>
               /\ PrefixInLimits(ts, n)
               /\ Opened(ts, n + 1) < MaxNesting
               /\ Seen(ts, n + 1, Comparisons) <= MaxLeaves
<1>1. 1..(n + 1) = 1..n \cup {n + 1}
  OBVIOUS
<1>2. PICK a \in Nat : a = Seen(ts, n, Comparisons)
  BY SeenType
<1>3. PICK b \in Nat : b = Seen(ts, n + 1, Comparisons) /\ a <= b
  BY <1>2, SeenOne
<1>4. Seen(ts, n + 1, Comparisons) <= MaxLeaves => Seen(ts, n, Comparisons) <= MaxLeaves
  BY <1>2, <1>3, WordsApart
<1> QED
  BY <1>1, <1>4, Zenon DEF PrefixInLimits

LEMMA ReadExactStep ==
    ASSUME NEW N, Closed(N), NEW ts, NEW n \in Nat, NEW t \in Tokens, ts[n + 1] = t,
           NEW s, ParserTyped(N, s), ReadExact(ts, n, s)
    PROVE  ReadExact(ts, n + 1, ParseStep(s, t))
<1> DEFINE r == ParseStep(s, t)
<1>1. s.code \in {"ok", "syntax_error", "filter_too_large"}
  BY DEF ParserTyped, ParserStates
<1>2. CASE s.code # "ok"
  <2>1. r = s
    BY <1>2 DEF ParseStep
  <2>2. /\ ~PrefixFormed(ts, n) => ~PrefixFormed(ts, n + 1)
        /\ ~PrefixInLimits(ts, n) => ~PrefixInLimits(ts, n + 1)
    BY PrefixFormedOne, PrefixInLimitsOne
  <2> HIDE DEF r
  <2>3. ReadExact(ts, n + 1, r)
    BY <1>1, <1>2, <2>1, <2>2 DEF ReadExact
  <2> QED
    BY <2>3 DEF r
<1>3. CASE s.code = "ok"
  <2>1. /\ PrefixFormed(ts, n) /\ PrefixInLimits(ts, n)
        /\ s.wanted <=> OperandNext(ts, n)
        /\ Len(s.outer) = Opened(ts, n)
        /\ s.leaves = Seen(ts, n, Comparisons)
    BY <1>3 DEF ReadExact
  <2>2. PICK o \in Nat : o = Len(s.outer) /\ o = Opened(ts, n)
    BY <2>1, LenProperties DEF ParserTyped, ParserStates
  <2>3. PICK l \in Nat : l = s.leaves /\ l = Seen(ts, n, Comparisons)
    BY <2>1, SeenType
  <2>4. /\ t = "(" => Opened(ts, n + 1) = o + 1
        /\ t = ")" => Opened(ts, n + 1) = o - 1
        /\ t \notin {"(", ")"} => Opened(ts, n + 1) = o
    BY <2>2, OpenedOne
  <2>5. Seen(ts, n + 1, Comparisons) = IF t \in Comparisons THEN l + 1 ELSE l
    BY <2>3, SeenOne
  <2>6. n > 0 => o < MaxNesting
    BY <2>1, <2>2 DEF PrefixInLimits
  <2>7. n = 0 => o = 0
    BY <2>2, OpenedNone
  <2>8. o < MaxNesting /\ l <= MaxLeaves
    BY <2>1, <2>3, <2>6, <2>7, WordsApart DEF PrefixInLimits
  <2>9. PrefixFormed(ts, n + 1) <=> (Begins(t) <=> s.wanted) /\ Opened(ts, n + 1) >= 0
    BY <2>1, PrefixFormedOne
  <2>10. PrefixInLimits(ts, n + 1) <=>
             Opened(ts, n + 1) < MaxNesting /\ Seen(ts, n + 1, Comparisons) <= MaxLeaves
    BY <2>1, PrefixInLimitsOne
  <2>11. OperandNext(ts, n + 1) <=> ~Ends(t)
    BY DEF OperandNext
  <2>12. PICK q : q = r
    OBVIOUS
  <2> HIDE DEF r
  <2>20. CASE s.wanted /\ t = "not"
    <3>1. q.code = "ok" /\ q.wanted /\ q.outer = s.outer /\ q.leaves = s.leaves
      BY <1>3, <2>12, <2>20, StepNot DEF r
    <3>2. t \notin Comparisons /\ t \notin {"(", ")"} /\ Begins(t) /\ ~Ends(t)
      BY <2>20, WordsApart DEF Begins, Ends
    <3>3. PrefixFormed(ts, n + 1) /\ PrefixInLimits(ts, n + 1)
      BY <2>4, <2>5, <2>8, <2>9, <2>10, <2>20, <3>2
    <3> QED
      BY <2>2, <2>3, <2>4, <2>5, <2>11, <2>12, <3>1, <3>2, <3>3 DEF ReadExact, r
  <2>21. CASE s.wanted /\ t = "(" /\ Len(s.outer) + 2 <= MaxNesting
    <3>1. q.code = "ok" /\ q.wanted /\ q.outer = Append(s.outer, s.call) /\ q.leaves = s.leaves
      BY <1>3, <2>12, <2>21, StepOpen DEF r
    <3>2. Len(q.outer) = o + 1
      <4>1. s.outer \in Seq(CallsOf(N)) /\ s.call \in CallsOf(N)
        BY DEF ParserTyped, ParserStates
      <4>2. Len(Append(s.outer, s.call)) = Len(s.outer) + 1
        BY <4>1, AppendProperties
      <4> QED
        BY <2>2, <3>1, <4>2
    <3>3. t \notin Comparisons /\ Begins(t) /\ ~Ends(t)
      BY <2>21, WordsApart DEF Begins, Ends
    <3>4. o + 1 < MaxNesting
      BY <2>2, <2>21, WordsApart
    <3>5. PrefixFormed(ts, n + 1) /\ PrefixInLimits(ts, n + 1)
      BY <2>4, <2>5, <2>8, <2>9, <2>10, <2>21, <3>3, <3>4
    <3> QED
      BY <2>21, <2>3, <2>4, <2>5, <2>11, <2>12, <3>1, <3>2, <3>3, <3>5 DEF ReadExact, r
  <2>22. CASE s.wanted /\ t \in Comparisons /\ s.leaves + 1 <= MaxLeaves
    <3>1. q.code = "ok" /\ ~q.wanted /\ q.outer = s.outer /\ q.leaves = s.leaves + 1
      BY <1>3, <2>12, <2>22, StepCompare DEF r
    <3>2. t \notin {"(", ")"} /\ Begins(t) /\ Ends(t)
      BY <2>22, WordsApart DEF Begins, Ends
    <3>3. PrefixFormed(ts, n + 1) /\ PrefixInLimits(ts, n + 1)
      BY <2>3, <2>4, <2>5, <2>8, <2>9, <2>10, <2>22, <3>2
    <3> QED
      BY <2>22, <2>2, <2>3, <2>4, <2>5, <2>11, <2>12, <3>1, <3>2, <3>3 DEF ReadExact, r
  <2>23. CASE ~s.wanted /\ t \in {"and", "or"}
    <3>1. q.code = "ok" /\ q.wanted /\ q.outer = s.outer /\ q.leaves = s.leaves
      BY <1>3, <2>12, <2>23, StepAnd, StepOr DEF r
    <3>2. t \notin Comparisons /\ t \notin {"(", ")"} /\ ~Begins(t) /\ ~Ends(t)
      BY <2>23, WordsApart DEF Begins, Ends
    <3>3. PrefixFormed(ts, n + 1) /\ PrefixInLimits(ts, n + 1)
      BY <2>4, <2>5, <2>8, <2>9, <2>10, <2>23, <3>2
    <3> QED
      BY <2>2, <2>3, <2>4, <2>5, <2>11, <2>12, <3>1, <3>2, <3>3 DEF ReadExact, r
  <2>24. CASE ~s.wanted /\ t = ")" /\ s.outer # <<>>
    <3>1. /\ q.code = "ok" /\ ~q.wanted /\ q.leaves = s.leaves
          /\ q.outer = SubSeq(s.outer, 1, Len(s.outer) - 1)
      BY <1>3, <2>12, <2>24, StepClose DEF r
    <3>2. s.outer \in Seq(CallsOf(N)) /\ o # 0
      BY <2>2, <2>24, EmptySeq DEF ParserTyped, ParserStates
    <3>3. Len(q.outer) = o - 1
      <4>1. \A i \in 1..(o - 1) : i \in 1..Len(s.outer)
        BY <2>2
      <4>2. \A i \in 1..(o - 1) : s.outer[i] \in CallsOf(N)
        BY <4>1, <3>2, ElementOfSeq
      <4>3. Len(SubSeq(s.outer, 1, o - 1)) = IF 1 <= o - 1 THEN (o - 1) - 1 + 1 ELSE 0
        BY <4>2, <3>2, SubSeqProperties
      <4>4. q.outer = SubSeq(s.outer, 1, o - 1)
        BY <2>2, <3>1
      <4>5. Len(q.outer) = IF 1 <= o - 1 THEN (o - 1) - 1 + 1 ELSE 0
        BY <4>3, <4>4
      <4> QED
        BY ONLY <4>5, <3>2, o \in Nat
    <3>4. t \notin Comparisons /\ ~Begins(t) /\ Ends(t)
      BY <2>24, WordsApart DEF Begins, Ends
    <3>5. PrefixFormed(ts, n + 1) /\ PrefixInLimits(ts, n + 1)
      BY <2>4, <2>5, <2>8, <2>9, <2>10, <2>24, <3>2, <3>4, WordsApart
    <3> QED
      BY <2>24, <2>3, <2>4, <2>5, <2>11, <2>12, <3>1, <3>3, <3>4, <3>5 DEF ReadExact, r
  <2>25. CASE \/ s.wanted /\ t = "(" /\ ~(Len(s.outer) + 2 <= MaxNesting)
              \/ s.wanted /\ t \in Comparisons /\ ~(s.leaves + 1 <= MaxLeaves)
    <3>1. \/ s.wanted /\ t = "(" /\ Len(s.outer) + 2 > MaxNesting
          \/ s.wanted /\ t \in Comparisons /\ s.leaves + 1 > MaxLeaves
      BY <2>2, <2>3, <2>25, WordsApart
    <3>2. q = [s EXCEPT !.code = "filter_too_large"]
      BY <1>3, <2>12, <3>1, StepRefused, Zenon DEF r
    <3>3. q.code = "filter_too_large"
      BY <3>2 DEF ParserTyped, ParserStates
    <3>4. ~PrefixInLimits(ts, n + 1)
      BY <2>2, <2>3, <2>4, <2>5, <2>10, <3>1, WordsApart
    <3> QED
      BY <2>12, <3>3, <3>4 DEF ReadExact, r
  <2>26. CASE \/ s.wanted /\ ~Begins(t)
              \/ ~s.wanted /\ t \notin {"and", "or", ")"}
              \/ ~s.wanted /\ t = ")" /\ s.outer = <<>>
    <3>1. q = [s EXCEPT !.code = "syntax_error"]
      BY <1>3, <2>12, <2>26, StepRefused, Zenon DEF r
    <3>2. q.code = "syntax_error"
      BY <3>1 DEF ParserTyped, ParserStates
    <3>3. ~s.wanted /\ t \notin {"and", "or", ")"} => Begins(t)
      BY DEF Begins, Tokens, Reserved
    <3>4. ~s.wanted /\ t = ")" /\ s.outer = <<>> => ~(Opened(ts, n + 1) >= 0)
      <4>1. s.outer = <<>> => o = 0
        BY <2>2, EmptySeq
      <4> QED
        BY <2>4, <4>1
    <3>5. ~PrefixFormed(ts, n + 1)
      BY <2>9, <2>26, <3>3, <3>4
    <3> QED
      BY <2>12, <3>2, <3>5 DEF ReadExact, r
  <2>27. Begins(t) => t \in {"not", "("} \/ t \in Comparisons
    BY DEF Begins
  <2> QED
    BY <2>20, <2>21, <2>22, <2>23, <2>24, <2>25, <2>26, <2>27
<1> QED
  BY <1>2, <1>3

LEMMA StepTyped ==
    ASSUME NEW N, Closed(N), NEW s, ParserTyped(N, s), NEW t \in Tokens
    PROVE  ParserTyped(N, ParseStep(s, t))
<1> DEFINE r == ParseStep(s, t)
<1>1. CASE s.code # "ok"
  BY <1>1 DEF ParseStep
<1>2. CASE s.code = "ok"
  <2>1. s.leaves \in Nat /\ Len(s.outer) \in Nat
    BY LenProperties DEF ParserTyped, ParserStates
  <2>2. \/ s.wanted /\ t = "not"
        \/ s.wanted /\ t = "(" /\ Len(s.outer) + 2 <= MaxNesting
        \/ s.wanted /\ t \in Comparisons /\ s.leaves + 1 <= MaxLeaves
        \/ ~s.wanted /\ t \in {"and", "or"}
        \/ ~s.wanted /\ t = ")" /\ s.outer # <<>>
        \/ s.wanted /\ t = "(" /\ Len(s.outer) + 2 > MaxNesting
        \/ s.wanted /\ t \in Comparisons /\ s.leaves + 1 > MaxLeaves
        \/ s.wanted /\ ~Begins(t)
        \/ ~s.wanted /\ t \notin {"and", "or", ")"}
        \/ ~s.wanted /\ t = ")" /\ s.outer = <<>>
    <3>1. \/ Len(s.outer) + 2 <= MaxNesting
          \/ Len(s.outer) + 2 > MaxNesting
      BY <2>1, WordsApart
    <3>2. s.leaves + 1 <= MaxLeaves \/ s.leaves + 1 > MaxLeaves
      BY <2>1, WordsApart
    <3> QED
      BY <3>1, <3>2, Zenon DEF Begins
  <2>3. \A c \in {"filter_too_large", "syntax_error"} :
            ParserTyped(N, [s EXCEPT !.code = c])
    BY DEF ParserTyped, ParserStates
  <2>4. CASE s.wanted /\ t = "not"
    BY <1>2, <2>4, StepNot
  <2>5. CASE s.wanted /\ t = "(" /\ Len(s.outer) + 2 <= MaxNesting
    BY <1>2, <2>5, StepOpen
  <2>6. CASE s.wanted /\ t \in Comparisons /\ s.leaves + 1 <= MaxLeaves
    BY <1>2, <2>6, StepCompare
  <2>7. CASE ~s.wanted /\ t \in {"and", "or"}
    BY <1>2, <2>7, StepAnd, StepOr
  <2>8. CASE ~s.wanted /\ t = ")" /\ s.outer # <<>>
    BY <1>2, <2>8, StepClose
  <2>9. CASE \/ s.wanted /\ t = "(" /\ Len(s.outer) + 2 > MaxNesting
             \/ s.wanted /\ t \in Comparisons /\ s.leaves + 1 > MaxLeaves
             \/ s.wanted /\ ~Begins(t)
             \/ ~s.wanted /\ t \notin {"and", "or", ")"}
             \/ ~s.wanted /\ t = ")" /\ s.outer = <<>>
    <3>1. \/ r = [s EXCEPT !.code = "filter_too_large"]
          \/ r = [s EXCEPT !.code = "syntax_error"]
      BY <1>2, <2>9, StepRefused, Zenon
    <3> QED
      BY <2>3, <3>1
  <2> QED
    BY ONLY <2>2, <2>4, <2>5, <2>6, <2>7, <2>8, <2>9
<1> QED
  BY <1>1, <1>2

\* What holds before the first token and stays over each holds after the last.
LEMMA ReadAll ==
    ASSUME NEW N, Closed(N), NEW ts \in Seq(Tokens), NEW g, Reads(g, Len(ts), ts)
    PROVE  \A n \in 0..Len(ts) : ParserTyped(N, g[n]) /\ ReadExact(ts, n, g[n])
<1> DEFINE T == {n \in Nat : n <= Len(ts) => ParserTyped(N, g[n]) /\ ReadExact(ts, n, g[n])}
<1>1. PICK len \in Nat : len = Len(ts)
  BY LenProperties
<1>2. /\ g[0] = ParseInit
      /\ \A m \in 0..(len - 1) : g[m + 1] = ParseStep(g[m], ts[m + 1])
  BY <1>1, ReadsSteps
<1>3. 0 \in T
  <2>1. ParserTyped(N, ParseInit)
    BY InitTyped
  <2>2. PrefixFormed(ts, 0) /\ PrefixInLimits(ts, 0)
    BY SeenNone, WordsApart DEF PrefixFormed, PrefixInLimits
  <2>3. ReadExact(ts, 0, ParseInit)
    BY <2>2, SeenNone, OpenedNone, EmptySeq DEF ReadExact, ParseInit, OperandNext
  <2> QED
    BY <1>2, <2>1, <2>3
<1>4. ASSUME NEW n \in Nat, n \in T PROVE n + 1 \in T
  <2>1. SUFFICES ASSUME n + 1 <= len
                 PROVE  ParserTyped(N, g[n + 1]) /\ ReadExact(ts, n + 1, g[n + 1])
    BY <1>1
  <2>2. ParserTyped(N, g[n]) /\ ReadExact(ts, n, g[n])
    BY <1>1, <1>4, <2>1
  <2>3. n \in 0..(len - 1) /\ n + 1 \in 1..Len(ts)
    BY <1>1, <2>1
  <2>4. g[n + 1] = ParseStep(g[n], ts[n + 1])
    BY <1>2, <2>3
  <2>5. PICK t \in Tokens : t = ts[n + 1]
    BY <2>3, ElementOfSeq
  <2>6. ParserTyped(N, ParseStep(g[n], t))
    BY ONLY <2>2, StepTyped, t \in Tokens, Closed(N)
  <2>7. ReadExact(ts, n + 1, ParseStep(g[n], t))
    BY ONLY <2>2, <2>5, ReadExactStep, t \in Tokens, Closed(N), n \in Nat
  <2> QED
    BY <2>4, <2>5, <2>6, <2>7
<1> HIDE DEF T
<1>5. Nat \subseteq T
  BY <1>3, <1>4, NumberInduction
<1> QED
  BY <1>1, <1>5 DEF T

LEMMA PrefixWhole ==
    ASSUME NEW ts \in Seq(Tokens), ts # <<>>
    PROVE  /\ WellFormed(ts) <=> /\ PrefixFormed(ts, Len(ts))
                                 /\ Ends(ts[Len(ts)]) /\ Opened(ts, Len(ts)) = 0
           /\ TokensInLimits(ts) <=> PrefixInLimits(ts, Len(ts))
<1>1. Len(ts) > 0
  BY EmptySeq
<1>2. WellFormed(ts) <=> /\ PrefixFormed(ts, Len(ts))
                         /\ Ends(ts[Len(ts)]) /\ Opened(ts, Len(ts)) = 0
  BY <1>1, Zenon DEF WellFormed, PrefixFormed
<1>3. TokensInLimits(ts) <=> PrefixInLimits(ts, Len(ts))
  BY Zenon DEF TokensInLimits, PrefixInLimits
<1> QED
  BY <1>2, <1>3

-----------------------------------------------------------------------------
(* What a filter means: which nodes hold where the comparisons in met do.  *)

\* N is a set of filters that has all that can be made of them, and M those
\* of them that hold.
Interprets(N, M, met) ==
    /\ Closed(N)
    /\ \A c \in Comparisons : [op |-> "leaf", leaf |-> c] \in M <=> c \in met
    /\ \A n \in N : [op |-> "not", kid |-> n] \in M <=> n \notin M
    /\ \A kids \in Seq(N) :
           /\ [op |-> "and", kids |-> kids] \in M <=> \A k \in DOMAIN kids : kids[k] \in M
           /\ [op |-> "or", kids |-> kids] \in M <=> \E k \in DOMAIN kids : kids[k] \in M

\* There is such an interpretation: grow the filters by height.
LeavesIn(S) == {[op |-> "leaf", leaf |-> c] : c \in S}

Grown(f, met) ==
    [all |-> LeavesIn(Comparisons)
             \cup {[op |-> "not", kid |-> n] : n \in f.all}
             \cup {[op |-> p[1], kids |-> p[2]] : p \in {"and", "or"} \X Seq(f.all)},
     holding |-> LeavesIn(met)
             \cup {[op |-> "not", kid |-> n] : n \in f.all \ f.holding}
             \cup {[op |-> "and", kids |-> s] :
                      s \in {s \in Seq(f.all) : \A k \in DOMAIN s : s[k] \in f.holding}}
             \cup {[op |-> "or", kids |-> s] :
                      s \in {s \in Seq(f.all) : \E k \in DOMAIN s : s[k] \in f.holding}}]

Seedling(met) == [all |-> LeavesIn(Comparisons), holding |-> LeavesIn(met)]

Forest(g, n, met) ==
    g = [k \in 0..n |-> IF k = 0 THEN Seedling(met) ELSE Grown(g[k - 1], met)]

LEMMA ForestExists ==
    ASSUME NEW met
    PROVE  \A n \in Nat : \E g : Forest(g, n, met)
<1> DEFINE T == {n \in Nat : \E g : Forest(g, n, met)}
<1>1. 0 \in T
  <2> DEFINE g == [k \in 0..0 |-> Seedling(met)]
  <2>1. Forest(g, 0, met)
    BY DEF Forest
  <2> QED
    BY <2>1
<1>2. ASSUME NEW n \in Nat, n \in T PROVE n + 1 \in T
  <2>1. PICK g : Forest(g, n, met)
    BY <1>2
  <2> DEFINE last == Grown(g[n], met)
             h == [k \in 0..(n + 1) |-> IF k = n + 1 THEN last ELSE g[k]]
  <2>2. \A k \in 0..n : g[k] = IF k = 0 THEN Seedling(met) ELSE Grown(g[k - 1], met)
    BY <2>1 DEF Forest
  <2>3. \A k \in 0..n : h[k] = g[k]
    OBVIOUS
  <2>4. h[n + 1] = last
    OBVIOUS
  <2> HIDE DEF last
  <2>5. h = [k \in 0..(n + 1) |-> h[k]]
    OBVIOUS
  <2> HIDE DEF h
  <2>6. \A k \in 0..(n + 1) :
            h[k] = IF k = 0 THEN Seedling(met) ELSE Grown(h[k - 1], met)
    <3> SUFFICES ASSUME NEW k \in 0..(n + 1)
                 PROVE  h[k] = IF k = 0 THEN Seedling(met) ELSE Grown(h[k - 1], met)
      OBVIOUS
    <3>1. CASE k = n + 1
      <4>1. h[k] = last /\ k # 0 /\ k - 1 = n /\ h[k - 1] = g[n]
        BY <3>1, <2>3, <2>4
      <4> QED
        BY <4>1, <3>1 DEF last
    <3>2. CASE k \in 0..n
      <4>1. h[k] = g[k] /\ (k # 0 => h[k - 1] = g[k - 1])
        BY <3>2, <2>3
      <4> QED
        BY <4>1, <3>2, <2>2
    <3> QED
      BY <3>1, <3>2
  <2>7. Forest(h, n + 1, met)
    BY <2>5, <2>6, Zenon DEF Forest
  <2> QED
    BY <2>7
<1> HIDE DEF T
<1>3. Nat \subseteq T
  BY <1>1, <1>2, NumberInduction
<1> QED
  BY <1>3 DEF T

LEMMA ForestsAgree ==
    ASSUME NEW met, NEW n \in Nat, NEW g, Forest(g, n, met), NEW h, Forest(h, n + 1, met)
    PROVE  g[n] = h[n]
<1> DEFINE T == {k \in Nat : k <= n => g[k] = h[k]}
<1>1. /\ \A k \in 0..n : g[k] = IF k = 0 THEN Seedling(met) ELSE Grown(g[k - 1], met)
      /\ \A k \in 0..(n + 1) : h[k] = IF k = 0 THEN Seedling(met) ELSE Grown(h[k - 1], met)
  BY DEF Forest
<1>2. 0 \in T
  <2>1. 0 \in 0..n /\ 0 \in 0..(n + 1)
    OBVIOUS
  <2> QED
    BY <1>1, <2>1
<1>3. ASSUME NEW k \in Nat, k \in T PROVE k + 1 \in T
  <2>1. SUFFICES ASSUME k + 1 <= n PROVE g[k + 1] = h[k + 1]
    OBVIOUS
  <2>2. k + 1 \in 0..n /\ k + 1 \in 0..(n + 1) /\ k + 1 # 0 /\ (k + 1) - 1 = k /\ k <= n
    BY <2>1
  <2>3. g[k] = h[k]
    BY <1>3, <2>2
  <2> QED
    BY <1>1, <2>2, <2>3
<1> HIDE DEF T
<1>4. Nat \subseteq T
  BY <1>2, <1>3, NumberInduction
<1> QED
  BY <1>4 DEF T

\* The growth as one function of the height.
Growth(f, met) ==
    /\ f[0] = Seedling(met)
    /\ \A n \in Nat : f[n + 1] = Grown(f[n], met)

LEMMA GrowthExists ==
    ASSUME NEW met
    PROVE  \E f : Growth(f, met)
<1> DEFINE G(n) == CHOOSE g : Forest(g, n, met)
           f == [n \in Nat |-> G(n)[n]]
<1>1. \A n \in Nat : Forest(G(n), n, met)
  BY ForestExists
<1> HIDE DEF G
<1>2. f[0] = Seedling(met)
  <2>1. Forest(G(0), 0, met) /\ f[0] = G(0)[0]
    BY <1>1
  <2> QED
    BY <2>1 DEF Forest
<1>3. ASSUME NEW n \in Nat PROVE f[n + 1] = Grown(f[n], met)
  <2>1. Forest(G(n), n, met) /\ Forest(G(n + 1), n + 1, met)
    BY <1>1
  <2>2. G(n)[n] = G(n + 1)[n]
    BY <2>1, ForestsAgree
  <2>3. G(n + 1)[n + 1] = Grown(G(n + 1)[n], met)
    <3>1. \A k \in 0..(n + 1) :
              G(n + 1)[k] = IF k = 0 THEN Seedling(met) ELSE Grown(G(n + 1)[k - 1], met)
      BY <2>1 DEF Forest
    <3>2. n + 1 \in 0..(n + 1) /\ n + 1 # 0 /\ (n + 1) - 1 = n
      OBVIOUS
    <3> QED
      BY <3>1, <3>2
  <2> QED
    BY <2>2, <2>3
<1> QED
  BY <1>2, <1>3 DEF Growth

LEMMA GrownLeaf ==
    ASSUME NEW f, NEW met, NEW c
    PROVE  LET x == [op |-> "leaf", leaf |-> c] IN
           /\ x \in Grown(f, met).all <=> c \in Comparisons
           /\ x \in Grown(f, met).holding <=> c \in met
           /\ x \in Seedling(met).all <=> c \in Comparisons
           /\ x \in Seedling(met).holding <=> c \in met
<1> DEFINE x == [op |-> "leaf", leaf |-> c]
<1>1. x.op = "leaf" /\ x.leaf = c
  OBVIOUS
<1> HIDE DEF x
<1>2. \A S : x \in LeavesIn(S) <=> c \in S
  <2>1. \A S : x \in LeavesIn(S) => c \in S
    BY <1>1 DEF LeavesIn
  <2>2. \A S : c \in S => x \in LeavesIn(S)
    BY DEF LeavesIn, x
  <2> QED
    BY <2>1, <2>2
<1>3. \A n : x # [op |-> "not", kid |-> n]
  BY <1>1
<1>4. \A word, s : word \in {"and", "or"} => x # [op |-> word, kids |-> s]
  BY <1>1
<1>5. x \in Grown(f, met).all <=> x \in LeavesIn(Comparisons)
  BY <1>3, <1>4 DEF Grown
<1>6. x \in Grown(f, met).holding <=> x \in LeavesIn(met)
  BY <1>3, <1>4 DEF Grown
<1> QED
  BY <1>2, <1>5, <1>6 DEF Seedling, x

LEMMA GrownNot ==
    ASSUME NEW f, NEW met, NEW n
    PROVE  LET x == [op |-> "not", kid |-> n] IN
           /\ x \in Grown(f, met).all <=> n \in f.all
           /\ x \in Grown(f, met).holding <=> n \in f.all /\ n \notin f.holding
           /\ x \notin Seedling(met).all /\ x \notin Seedling(met).holding
<1> DEFINE x == [op |-> "not", kid |-> n]
<1>1. x.op = "not" /\ x.kid = n
  OBVIOUS
<1>2. \A m \in f.all : x = [op |-> "not", kid |-> m] => m = n
  <2>1. SUFFICES ASSUME NEW m, x = [op |-> "not", kid |-> m] PROVE m = n
    OBVIOUS
  <2>2. x.kid = m
    BY ONLY <2>1
  <2> QED
    BY <1>1, <2>2
<1> HIDE DEF x
<1>3. \A S : x \notin LeavesIn(S)
  BY <1>1 DEF LeavesIn
<1>4. \A word, s : word \in {"and", "or"} => x # [op |-> word, kids |-> s]
  BY <1>1
<1>5. n \in f.all => x \in Grown(f, met).all
  BY DEF Grown, x
<1>6. x \in Grown(f, met).all => n \in f.all
  BY <1>2, <1>3, <1>4 DEF Grown
<1>7. n \in f.all /\ n \notin f.holding => x \in Grown(f, met).holding
  BY DEF Grown, x
<1>8. x \in Grown(f, met).holding => n \in f.all /\ n \notin f.holding
  BY <1>2, <1>3, <1>4 DEF Grown
<1> QED
  BY <1>3, <1>5, <1>6, <1>7, <1>8 DEF Seedling, x

LEMMA GrownWord ==
    ASSUME NEW f, NEW met, NEW word \in {"and", "or"}, NEW kids
    PROVE  LET x == [op |-> word, kids |-> kids] IN
           /\ x \in Grown(f, met).all <=> kids \in Seq(f.all)
           /\ word = "and" =>
                (x \in Grown(f, met).holding <=>
                    kids \in Seq(f.all) /\ \A k \in DOMAIN kids : kids[k] \in f.holding)
           /\ word = "or" =>
                (x \in Grown(f, met).holding <=>
                    kids \in Seq(f.all) /\ \E k \in DOMAIN kids : kids[k] \in f.holding)
           /\ x \notin Seedling(met).all /\ x \notin Seedling(met).holding
<1> DEFINE x == [op |-> word, kids |-> kids]
<1>1. x.op = word /\ x.kids = kids
  OBVIOUS
<1>2. \A w, s : x = [op |-> w, kids |-> s] => w = word /\ s = kids
  <2>1. SUFFICES ASSUME NEW w, NEW s, x = [op |-> w, kids |-> s] PROVE w = word /\ s = kids
    OBVIOUS
  <2>2. x.kids = s /\ x.op = w
    BY ONLY <2>1
  <2> QED
    BY <1>1, <2>2
<1> HIDE DEF x
<1>3. \A S : x \notin LeavesIn(S)
  BY <1>1 DEF LeavesIn
<1>4. \A n : x # [op |-> "not", kid |-> n]
  BY <1>1
<1>5. kids \in Seq(f.all) => x \in Grown(f, met).all
  <2>1. SUFFICES ASSUME kids \in Seq(f.all)
                 PROVE  x \in {[op |-> p[1], kids |-> p[2]] : p \in {"and", "or"} \X Seq(f.all)}
    BY DEF Grown
  <2>2. PICK p \in {"and", "or"} \X Seq(f.all) : p[1] = word /\ p[2] = kids
    <3>1. <<word, kids>> \in {"and", "or"} \X Seq(f.all)
      BY <2>1
    <3> QED
      BY <3>1
  <2>3. x = [op |-> p[1], kids |-> p[2]]
    BY <2>2 DEF x
  <2> QED
    BY <2>3
<1>6. x \in Grown(f, met).all => kids \in Seq(f.all)
  <2>1. SUFFICES ASSUME x \in Grown(f, met).all PROVE kids \in Seq(f.all)
    OBVIOUS
  <2>2. PICK p \in {"and", "or"} \X Seq(f.all) : x = [op |-> p[1], kids |-> p[2]]
    BY <2>1, <1>3, <1>4 DEF Grown
  <2> QED
    BY <1>2, <2>2
<1>7. ASSUME word = "and"
      PROVE  x \in Grown(f, met).holding <=>
                 kids \in Seq(f.all) /\ \A k \in DOMAIN kids : kids[k] \in f.holding
  <2> DEFINE A == {s \in Seq(f.all) : \A k \in DOMAIN s : s[k] \in f.holding}
             B == {s \in Seq(f.all) : \E k \in DOMAIN s : s[k] \in f.holding}
  <2>1. x \in Grown(f, met).holding <=> x \in {[op |-> "and", kids |-> s] : s \in A}
    <3>1. \A s : x # [op |-> "or", kids |-> s]
      BY <1>1, <1>7
    <3> QED
      BY <1>3, <1>4, <3>1 DEF Grown
  <2> HIDE DEF A
  <2>2. x \in {[op |-> "and", kids |-> s] : s \in A} <=> kids \in A
    BY <1>2, <1>7 DEF x
  <2> QED
    BY <2>1, <2>2 DEF A
<1>8. ASSUME word = "or"
      PROVE  x \in Grown(f, met).holding <=>
                 kids \in Seq(f.all) /\ \E k \in DOMAIN kids : kids[k] \in f.holding
  <2> DEFINE A == {s \in Seq(f.all) : \A k \in DOMAIN s : s[k] \in f.holding}
             B == {s \in Seq(f.all) : \E k \in DOMAIN s : s[k] \in f.holding}
  <2>1. x \in Grown(f, met).holding <=> x \in {[op |-> "or", kids |-> s] : s \in B}
    <3>1. \A s : x # [op |-> "and", kids |-> s]
      BY <1>1, <1>8
    <3> QED
      BY <1>3, <1>4, <3>1 DEF Grown
  <2> HIDE DEF B
  <2>2. x \in {[op |-> "or", kids |-> s] : s \in B} <=> kids \in B
    BY <1>2, <1>8 DEF x
  <2> QED
    BY <2>1, <2>2 DEF B
<1> QED
  BY <1>3, <1>5, <1>6, <1>7, <1>8 DEF Seedling, x

\* What a filter of the forest can be.
LEMMA GrownForms ==
    ASSUME NEW f, NEW met, NEW x
    PROVE  /\ x \in Seedling(met).all =>
                  \E c \in Comparisons : x = [op |-> "leaf", leaf |-> c]
           /\ x \in Grown(f, met).all =>
                  \/ \E c \in Comparisons : x = [op |-> "leaf", leaf |-> c]
                  \/ \E n \in f.all : x = [op |-> "not", kid |-> n]
                  \/ \E word \in {"and", "or"}, s \in Seq(f.all) : x = [op |-> word, kids |-> s]
<1>1. x \in Seedling(met).all => \E c \in Comparisons : x = [op |-> "leaf", leaf |-> c]
  BY DEF Seedling, LeavesIn
<1>2. ASSUME NEW p \in {"and", "or"} \X Seq(f.all), x = [op |-> p[1], kids |-> p[2]]
      PROVE  \E word \in {"and", "or"}, s \in Seq(f.all) : x = [op |-> word, kids |-> s]
  <2>1. p[1] \in {"and", "or"} /\ p[2] \in Seq(f.all)
    OBVIOUS
  <2> QED
    BY <1>2, <2>1
<1>3. x \in {[op |-> p[1], kids |-> p[2]] : p \in {"and", "or"} \X Seq(f.all)} =>
          \E word \in {"and", "or"}, s \in Seq(f.all) : x = [op |-> word, kids |-> s]
  BY <1>2
<1>4. x \in LeavesIn(Comparisons) => \E c \in Comparisons : x = [op |-> "leaf", leaf |-> c]
  BY DEF LeavesIn
<1> QED
  BY <1>1, <1>3, <1>4 DEF Grown

LEMMA GrowthMonotone ==
    ASSUME NEW met, NEW f, Growth(f, met)
    PROVE  \A n \in Nat : f[n].all \subseteq f[n + 1].all
<1> DEFINE T == {n \in Nat : f[n].all \subseteq f[n + 1].all}
<1>1. f[0] = Seedling(met) /\ \A n \in Nat : f[n + 1] = Grown(f[n], met)
  BY DEF Growth
<1>2. 0 \in T
  <2>1. SUFFICES ASSUME NEW x \in f[0].all PROVE x \in f[0 + 1].all
    OBVIOUS
  <2>2. x \in Seedling(met).all /\ f[0 + 1] = Grown(f[0], met)
    BY <1>1, <2>1
  <2>3. PICK c \in Comparisons : x = [op |-> "leaf", leaf |-> c]
    BY <2>2, GrownForms
  <2> QED
    BY <2>2, <2>3, GrownLeaf
<1>3. ASSUME NEW n \in Nat, n \in T PROVE n + 1 \in T
  <2>1. f[n + 1] = Grown(f[n], met) /\ f[(n + 1) + 1] = Grown(f[n + 1], met)
    BY <1>1
  <2>2. f[n].all \subseteq f[n + 1].all
    BY <1>3
  <2>3. Seq(f[n].all) \subseteq Seq(f[n + 1].all)
    BY <2>2, SeqMonotonic
  <2>4. ASSUME NEW x \in f[n + 1].all PROVE x \in f[(n + 1) + 1].all
    <3>1. \/ \E c \in Comparisons : x = [op |-> "leaf", leaf |-> c]
          \/ \E m \in f[n].all : x = [op |-> "not", kid |-> m]
          \/ \E word \in {"and", "or"}, s \in Seq(f[n].all) : x = [op |-> word, kids |-> s]
      BY <2>1, <2>4, GrownForms
    <3>2. CASE \E c \in Comparisons : x = [op |-> "leaf", leaf |-> c]
      BY <2>1, <3>2, GrownLeaf
    <3>3. CASE \E m \in f[n].all : x = [op |-> "not", kid |-> m]
      BY <2>1, <2>2, <3>3, GrownNot
    <3>4. CASE \E word \in {"and", "or"}, s \in Seq(f[n].all) : x = [op |-> word, kids |-> s]
      <4>1. PICK word \in {"and", "or"}, s \in Seq(f[n].all) : x = [op |-> word, kids |-> s]
        BY <3>4
      <4>2. s \in Seq(f[n + 1].all)
        BY <2>3
      <4> QED
        BY <2>1, <4>1, <4>2, GrownWord
    <3> QED
      BY <3>1, <3>2, <3>3, <3>4
  <2> QED
    BY <2>4
<1> HIDE DEF T
<1>4. Nat \subseteq T
  BY <1>2, <1>3, NumberInduction
<1> QED
  BY <1>4 DEF T

\* A filter keeps its meaning as the forest grows.
LEMMA GrowthStable ==
    ASSUME NEW met, NEW f, Growth(f, met)
    PROVE  \A n \in Nat : \A x \in f[n].all : x \in f[n + 1].holding <=> x \in f[n].holding
<1> DEFINE T == {n \in Nat : \A x \in f[n].all : x \in f[n + 1].holding <=> x \in f[n].holding}
<1>1. f[0] = Seedling(met) /\ \A n \in Nat : f[n + 1] = Grown(f[n], met)
  BY DEF Growth
<1>2. 0 \in T
  <2>1. SUFFICES ASSUME NEW x \in f[0].all PROVE x \in f[0 + 1].holding <=> x \in f[0].holding
    OBVIOUS
  <2>2. x \in Seedling(met).all /\ f[0 + 1] = Grown(f[0], met) /\ f[0] = Seedling(met)
    BY <1>1, <2>1
  <2>3. PICK c \in Comparisons : x = [op |-> "leaf", leaf |-> c]
    BY <2>2, GrownForms
  <2> QED
    BY <2>2, <2>3, GrownLeaf
<1>3. ASSUME NEW n \in Nat, n \in T PROVE n + 1 \in T
  <2>1. f[n + 1] = Grown(f[n], met) /\ f[(n + 1) + 1] = Grown(f[n + 1], met)
    BY <1>1
  <2>2. f[n].all \subseteq f[n + 1].all
    BY GrowthMonotone
  <2>3. Seq(f[n].all) \subseteq Seq(f[n + 1].all)
    BY <2>2, SeqMonotonic
  <2>4. \A x \in f[n].all : x \in f[n + 1].holding <=> x \in f[n].holding
    BY <1>3
  <2>5. ASSUME NEW x \in f[n + 1].all
        PROVE  x \in f[(n + 1) + 1].holding <=> x \in f[n + 1].holding
    <3>1. \/ \E c \in Comparisons : x = [op |-> "leaf", leaf |-> c]
          \/ \E m \in f[n].all : x = [op |-> "not", kid |-> m]
          \/ \E word \in {"and", "or"}, s \in Seq(f[n].all) : x = [op |-> word, kids |-> s]
      BY <2>1, <2>5, GrownForms
    <3>2. CASE \E c \in Comparisons : x = [op |-> "leaf", leaf |-> c]
      BY <2>1, <3>2, GrownLeaf
    <3>3. CASE \E m \in f[n].all : x = [op |-> "not", kid |-> m]
      <4>1. PICK m \in f[n].all : x = [op |-> "not", kid |-> m]
        BY <3>3
      <4>2. /\ x \in f[n + 1].holding <=> m \in f[n].all /\ m \notin f[n].holding
            /\ x \in f[(n + 1) + 1].holding <=> m \in f[n + 1].all /\ m \notin f[n + 1].holding
        BY <2>1, <4>1, GrownNot
      <4> QED
        BY <2>2, <2>4, <4>2
    <3>4. CASE \E word \in {"and", "or"}, s \in Seq(f[n].all) : x = [op |-> word, kids |-> s]
      <4>1. PICK word \in {"and", "or"}, s \in Seq(f[n].all) : x = [op |-> word, kids |-> s]
        BY <3>4
      <4>2. s \in Seq(f[n + 1].all) /\ \A k \in DOMAIN s : s[k] \in f[n].all
        BY <2>3
      <4>3. \A k \in DOMAIN s : s[k] \in f[n + 1].holding <=> s[k] \in f[n].holding
        BY <2>4, <4>2
      <4>4. CASE word = "and"
        <5>1. /\ x \in f[n + 1].holding <=> \A k \in DOMAIN s : s[k] \in f[n].holding
              /\ x \in f[(n + 1) + 1].holding <=> \A k \in DOMAIN s : s[k] \in f[n + 1].holding
          BY <2>1, <4>1, <4>2, <4>4, GrownWord
        <5> QED
          BY <4>3, <5>1
      <4>5. CASE word = "or"
        <5>1. /\ x \in f[n + 1].holding <=> \E k \in DOMAIN s : s[k] \in f[n].holding
              /\ x \in f[(n + 1) + 1].holding <=> \E k \in DOMAIN s : s[k] \in f[n + 1].holding
          BY <2>1, <4>1, <4>2, <4>5, GrownWord
        <5> QED
          BY <4>3, <5>1
      <4> QED
        BY <4>4, <4>5
    <3> QED
      BY <3>1, <3>2, <3>3, <3>4
  <2> QED
    BY <2>5
<1> HIDE DEF T
<1>4. Nat \subseteq T
  BY <1>2, <1>3, NumberInduction
<1> QED
  BY <1>4 DEF T

\* From one height to any greater one.
LEMMA GrowthUp ==
    ASSUME NEW met, NEW f, Growth(f, met), NEW m \in Nat
    PROVE  \A d \in Nat : /\ f[m].all \subseteq f[m + d].all
                          /\ \A x \in f[m].all : x \in f[m + d].holding <=> x \in f[m].holding
<1> DEFINE T == {d \in Nat : /\ f[m].all \subseteq f[m + d].all
                             /\ \A x \in f[m].all :
                                    x \in f[m + d].holding <=> x \in f[m].holding}
<1>1. 0 \in T
  <2>1. m + 0 = m
    BY ONLY m \in Nat
  <2> QED
    BY <2>1
<1>2. ASSUME NEW d \in Nat, d \in T PROVE d + 1 \in T
  <2>1. m + d \in Nat /\ m + (d + 1) = (m + d) + 1
    OBVIOUS
  <2>2. /\ f[m + d].all \subseteq f[(m + d) + 1].all
        /\ \A x \in f[m + d].all :
               x \in f[(m + d) + 1].holding <=> x \in f[m + d].holding
    BY <2>1, GrowthMonotone, GrowthStable
  <2>3. /\ f[m].all \subseteq f[m + d].all
        /\ \A x \in f[m].all : x \in f[m + d].holding <=> x \in f[m].holding
    BY <1>2
  <2>4. /\ f[m].all \subseteq f[m + (d + 1)].all
        /\ \A x \in f[m].all : x \in f[m + (d + 1)].holding <=> x \in f[m].holding
    BY <2>1, <2>2, <2>3
  <2> QED
    BY <2>4
<1> HIDE DEF T
<1>3. Nat \subseteq T
  BY <1>1, <1>2, NumberInduction
<1> QED
  BY <1>3 DEF T

\* The filters of all heights are closed, and those that hold interpret them.
LEMMA FiltersHaveMeaning ==
    ASSUME NEW met
    PROVE  \E N, M : Interprets(N, M, met)
<1>1. PICK f : Growth(f, met)
  BY GrowthExists
<1>2. f[0] = Seedling(met) /\ \A n \in Nat : f[n + 1] = Grown(f[n], met)
  BY <1>1 DEF Growth
<1> DEFINE N == UNION {f[n].all : n \in Nat}
           M == {x \in N : \E n \in Nat : x \in f[n].all /\ x \in f[n].holding}
<1>3. \A x : x \in N <=> \E n \in Nat : x \in f[n].all
  OBVIOUS
<1>4. \A x : x \in M <=> \E n \in Nat : x \in f[n].all /\ x \in f[n].holding
  OBVIOUS
<1> HIDE DEF N, M
\* Of two heights the greater has what the lesser has.
<1>5. ASSUME NEW m \in Nat, NEW n \in Nat, m <= n
      PROVE  /\ f[m].all \subseteq f[n].all
             /\ \A x \in f[m].all : x \in f[n].holding <=> x \in f[m].holding
  <2>1. n - m \in Nat /\ m + (n - m) = n
    BY <1>5
  <2>2. /\ f[m].all \subseteq f[m + (n - m)].all
        /\ \A x \in f[m].all : x \in f[m + (n - m)].holding <=> x \in f[m].holding
    BY <1>1, <2>1, GrowthUp
  <2> QED
    BY <2>1, <2>2
<1>6. ASSUME NEW n \in Nat, NEW x \in f[n].all
      PROVE  x \in M <=> x \in f[n].holding
  <2>1. x \in f[n].holding => x \in M
    BY <1>4, <1>6
  <2>2. ASSUME x \in M PROVE x \in f[n].holding
    <3>1. PICK m \in Nat : x \in f[m].all /\ x \in f[m].holding
      BY <1>4, <2>2
    <3>2. CASE m <= n
      BY <1>5, <3>1, <3>2
    <3>3. CASE n <= m
      BY <1>5, <1>6, <3>1, <3>3
    <3> QED
      BY <3>2, <3>3
  <2> QED
    BY <2>1, <2>2
<1>7. \A kids \in Seq(N) : \E n \in Nat : kids \in Seq(f[n].all)
  <2> SUFFICES ASSUME NEW kids \in Seq(N) PROVE \E n \in Nat : kids \in Seq(f[n].all)
    OBVIOUS
  <2>1. PICK len \in Nat : len = Len(kids)
    BY LenProperties
  <2> DEFINE T == {k \in Nat : k <= len => \E n \in Nat : \A i \in 1..k : kids[i] \in f[n].all}
  <2>2. 0 \in T
    OBVIOUS
  <2>3. ASSUME NEW k \in Nat, k \in T PROVE k + 1 \in T
    <3>1. SUFFICES ASSUME k + 1 <= len
                   PROVE  \E n \in Nat : \A i \in 1..(k + 1) : kids[i] \in f[n].all
      OBVIOUS
    <3>2. PICK m \in Nat : \A i \in 1..k : kids[i] \in f[m].all
      <4>1. k <= len
        BY ONLY <3>1, k \in Nat, len \in Nat
      <4>2. k <= len => \E n \in Nat : \A i \in 1..k : kids[i] \in f[n].all
        BY ONLY <2>3, Zenon
      <4> QED
        BY ONLY <4>1, <4>2
    <3>3. kids[k + 1] \in N
      <4>1. k + 1 \in 1..Len(kids)
        BY <2>1, <3>1
      <4> QED
        BY <4>1, ElementOfSeq
    <3>4. PICK p \in Nat : kids[k + 1] \in f[p].all
      BY <1>3, <3>3
    <3>5. \A i \in 1..(k + 1) : i \in 1..k \/ i = k + 1
      OBVIOUS
    <3>6. CASE m <= p
      <4>1. f[m].all \subseteq f[p].all
        BY <1>5, <3>6
      <4>2. \A i \in 1..(k + 1) : kids[i] \in f[p].all
        BY <3>2, <3>4, <3>5, <4>1
      <4> QED
        BY <4>2
    <3>7. CASE p <= m
      <4>1. f[p].all \subseteq f[m].all
        BY <1>5, <3>7
      <4>2. \A i \in 1..(k + 1) : kids[i] \in f[m].all
        BY <3>2, <3>4, <3>5, <4>1
      <4> QED
        BY <4>2
    <3> QED
      BY <3>6, <3>7
  <2> HIDE DEF T
  <2>4. Nat \subseteq T
    BY <2>2, <2>3, NumberInduction
  <2>5. PICK n \in Nat : \A i \in 1..len : kids[i] \in f[n].all
    <3>1. len \in T /\ len <= len
      BY <2>4
    <3> QED
      BY <3>1 DEF T
  <2>6. kids \in [1..len -> f[n].all]
    BY <2>1, <2>5, LenProperties
  <2>7. kids \in Seq(f[n].all)
    BY ONLY <2>6, len \in Nat, SeqDef
  <2> QED
    BY ONLY <2>7, n \in Nat
<1>8. ASSUME NEW c \in Comparisons
      PROVE  LET x == [op |-> "leaf", leaf |-> c] IN x \in N /\ (x \in M <=> c \in met)
  <2>1. PICK x : x = [op |-> "leaf", leaf |-> c]
    OBVIOUS
  <2>2. x \in f[0].all /\ (x \in f[0].holding <=> c \in met)
    BY <1>2, <2>1, GrownLeaf
  <2> QED
    BY <1>3, <1>6, <2>1, <2>2
<1>9. ASSUME NEW n \in N
      PROVE  LET x == [op |-> "not", kid |-> n] IN x \in N /\ (x \in M <=> n \notin M)
  <2>1. PICK h \in Nat : n \in f[h].all
    BY <1>3
  <2>2. PICK x : x = [op |-> "not", kid |-> n]
    OBVIOUS
  <2>3. /\ x \in f[h + 1].all
        /\ x \in f[h + 1].holding <=> n \notin f[h].holding
    BY <1>2, <2>1, <2>2, GrownNot
  <2>4. x \in N
    BY <1>3, <2>3
  <2>5. x \in M <=> x \in f[h + 1].holding
    BY <1>6, <2>3
  <2>6. n \in M <=> n \in f[h].holding
    BY <1>6, <2>1
  <2> QED
    BY <2>2, <2>3, <2>4, <2>5, <2>6
<1>10. ASSUME NEW kids \in Seq(N)
       PROVE  /\ [op |-> "and", kids |-> kids] \in N /\ [op |-> "or", kids |-> kids] \in N
              /\ [op |-> "and", kids |-> kids] \in M <=> \A k \in DOMAIN kids : kids[k] \in M
              /\ [op |-> "or", kids |-> kids] \in M <=> \E k \in DOMAIN kids : kids[k] \in M
  <2>1. PICK h \in Nat : kids \in Seq(f[h].all)
    BY <1>7
  <2>2. PICK a : a = [op |-> "and", kids |-> kids]
    OBVIOUS
  <2>3. PICK b : b = [op |-> "or", kids |-> kids]
    OBVIOUS
  <2>4. \A k \in DOMAIN kids : kids[k] \in M <=> kids[k] \in f[h].holding
    <3>1. \A k \in DOMAIN kids : kids[k] \in f[h].all
      BY <2>1
    <3> QED
      BY <3>1, <1>6
  <2>5. /\ a \in f[h + 1].all
        /\ a \in f[h + 1].holding <=> \A k \in DOMAIN kids : kids[k] \in f[h].holding
    BY <1>2, <2>1, <2>2, GrownWord
  <2>6. /\ b \in f[h + 1].all
        /\ b \in f[h + 1].holding <=> \E k \in DOMAIN kids : kids[k] \in f[h].holding
    BY <1>2, <2>1, <2>3, GrownWord
  <2>7. a \in N /\ b \in N
    BY <1>3, <2>5, <2>6
  <2>8. (a \in M <=> a \in f[h + 1].holding) /\ (b \in M <=> b \in f[h + 1].holding)
    BY <1>6, <2>5, <2>6
  <2>9. a \in M <=> \A k \in DOMAIN kids : kids[k] \in M
    BY <2>4, <2>5, <2>8
  <2>10. b \in M <=> \E k \in DOMAIN kids : kids[k] \in M
    BY <2>4, <2>6, <2>8
  <2> QED
    BY <2>2, <2>3, <2>7, <2>9, <2>10
<1>11. Closed(N)
  <2>1. \A word \in {"and", "or"}, kids \in Seq(N) : [op |-> word, kids |-> kids] \in N
    BY <1>10
  <2> QED
    BY <1>8, <1>9, <2>1 DEF Closed
<1>12. Interprets(N, M, met)
  BY <1>8, <1>9, <1>10, <1>11 DEF Interprets
<1> QED
  BY <1>12

LEMMA ClosedExists == \E N : Closed(N)
BY FiltersHaveMeaning DEF Interprets

-----------------------------------------------------------------------------

\* For every text, however long it is as written, the parser accepts exactly the
\* well-formed texts within its limits of length, nesting and comparisons
\* (parse, R11.1 to R11.4), and it refuses the others for a reason.
THEOREM ParserExact ==
    \A ts \in Seq(Tokens), length \in Nat : ParsedExactly(ts, length)
<1> SUFFICES ASSUME NEW ts \in Seq(Tokens), NEW length \in Nat
             PROVE  ParsedExactly(ts, length)
  OBVIOUS
<1>1. PICK N : Closed(N)
  BY ClosedExists
<1>2. PICK g : Reads(g, Len(ts), ts) /\ ReadThrough(ts) = ParseEnds(g[Len(ts)])
  BY ParseReads
<1>3. PICK s : s = g[Len(ts)]
  OBVIOUS
<1>4. ParserTyped(N, s) /\ ReadExact(ts, Len(ts), s)
  <2>1. Len(ts) \in 0..Len(ts)
    <3>1. PICK len \in Nat : len = Len(ts)
      BY LenProperties
    <3> QED
      BY <3>1
  <2> QED
    BY <1>1, <1>2, <1>3, <2>1, ReadAll
<1>5. s.code \in {"ok", "syntax_error", "filter_too_large"} /\ s.wanted \in BOOLEAN
  BY <1>4 DEF ParserTyped, ParserStates
<1>6. PICK r : r = Parse(ts, length)
  OBVIOUS
<1>8. CASE ts = <<>>
  <2>1. r.code = "empty_input"
    BY <1>6, <1>8 DEF Parse, Refused
  <2>2. ~WellFormed(ts)
    BY <1>8 DEF WellFormed
  <2> QED
    BY <1>6, <1>8, <2>1, <2>2 DEF ParsedExactly, Accepted
<1>9. CASE ts # <<>> /\ length > MaxLength
  <2>1. r = Refused("filter_too_large")
    BY <1>6, <1>9, Zenon DEF Parse
  <2>2. r.code = "filter_too_large"
    BY <2>1 DEF Refused
  <2>3. ~WithinLimits(ts, length)
    BY <1>9, ParserAssumption DEF WithinLimits
  <2> QED
    BY <1>6, <1>9, <2>2, <2>3 DEF ParsedExactly, Accepted
<1>10. CASE ts # <<>> /\ length <= MaxLength
  <2>0. r = ParseEnds(s)
    <3>1. r = ReadThrough(ts)
      <4>1. ~(length > MaxLength)
        BY <1>10, ParserAssumption
      <4> QED
        BY <1>6, <1>10, <4>1, Zenon DEF Parse
    <3> QED
      BY <1>2, <1>3, <3>1
  <2>1. /\ WellFormed(ts) <=> /\ PrefixFormed(ts, Len(ts))
                              /\ Ends(ts[Len(ts)]) /\ Opened(ts, Len(ts)) = 0
        /\ WithinLimits(ts, length) <=> PrefixInLimits(ts, Len(ts))
    BY <1>10, PrefixWhole DEF WithinLimits
  <2>2. CASE s.code # "ok"
    <3>1. r = Refused(s.code)
      BY <2>0, <2>2, Zenon DEF ParseEnds
    <3>2. r.code = s.code /\ r.code # "ok" /\ r.code # "empty_input"
      BY <1>5, <2>2, <3>1 DEF Refused
    <3>3. /\ s.code = "syntax_error" => ~WellFormed(ts)
          /\ s.code = "filter_too_large" => ~WithinLimits(ts, length)
      BY <1>4, <2>1 DEF ReadExact
    <3> QED
      BY <1>5, <1>6, <1>10, <3>2, <3>3 DEF ParsedExactly, Accepted
  <2>3. CASE s.code = "ok"
    <3>1. /\ PrefixFormed(ts, Len(ts)) /\ PrefixInLimits(ts, Len(ts))
          /\ s.wanted <=> OperandNext(ts, Len(ts))
          /\ Len(s.outer) = Opened(ts, Len(ts))
      BY <1>4, <2>3 DEF ReadExact
    <3>2. Len(ts) # 0
      BY <1>10, EmptySeq
    <3>3. s.wanted <=> ~Ends(ts[Len(ts)])
      BY <3>1, <3>2 DEF OperandNext
    <3>4. s.outer = <<>> <=> Opened(ts, Len(ts)) = 0
      <4>1. s.outer \in Seq(CallsOf(N))
        BY <1>4 DEF ParserTyped, ParserStates
      <4>2. s.outer = <<>> <=> Len(s.outer) = 0
        BY <4>1, EmptySeq
      <4> QED
        BY <3>1, <4>2
    <3>5. WellFormed(ts) <=> ~(s.wanted \/ s.outer # <<>>)
      BY <2>1, <3>1, <3>3, <3>4
    <3>6. WithinLimits(ts, length)
      BY <2>1, <3>1
    <3>7. CASE s.wanted \/ s.outer # <<>>
      <4>1. r = Refused("syntax_error")
        BY <2>0, <2>3, <3>7, Zenon DEF ParseEnds
      <4>2. r.code = "syntax_error"
        BY <4>1 DEF Refused
      <4> QED
        BY <1>6, <1>10, <3>5, <3>7, <4>2 DEF ParsedExactly, Accepted
    <3>8. CASE ~(s.wanted \/ s.outer # <<>>)
      <4>1. r = Parsed(Built(s.call))
        BY <2>0, <2>3, <3>8, Zenon DEF ParseEnds
      <4>2. r.code = "ok"
        BY <4>1 DEF Parsed
      <4> QED
        BY <1>6, <1>10, <3>5, <3>6, <3>8, <4>2 DEF ParsedExactly, Accepted
    <3> QED
      BY <3>7, <3>8
  <2> QED
    BY <2>2, <2>3
<1>11. length > MaxLength \/ length <= MaxLength
  BY ParserAssumption
<1> QED
  BY <1>8, <1>9, <1>10, <1>11

-----------------------------------------------------------------------------
(* Holds, by the function it is defined with.                              *)

HoldsBy(h, ts, met) ==
    h = [p \in PartsOf(ts) |-> PartHolds(ts, met, h, p[1], p[2])]

\* The function is right for the parts of at most n tokens.
HoldsUpTo(h, ts, met, n) ==
    /\ DOMAIN h = PartsOf(ts) /\ h = [p \in PartsOf(ts) |-> h[p]]
    /\ \A p \in PartsOf(ts) :
           p[2] - p[1] < n => h[p] = PartHolds(ts, met, h, p[1], p[2])

LEMMA LastOfIsLast ==
    ASSUME NEW i \in Int, NEW j \in Int, NEW S \in SUBSET (i..j), S # {}
    PROVE  /\ LastOf(S) \in S
           /\ \A l \in S : l <= LastOf(S)
           /\ \A k \in S : (\A l \in S : l <= k) => LastOf(S) = k
<1> DEFINE T == {j - k : k \in S}
<1>1. T \in SUBSET Nat /\ T # {}
  <2>1. ASSUME NEW k \in S PROVE j - k \in Nat
    BY i \in Int, j \in Int, k \in i..j
  <2> QED
    BY <2>1
<1>2. PICK d \in T : \A m \in T : d <= m
  <2> HIDE DEF T
  <2> QED
    BY <1>1, LeastNumber
<1>3. PICK k \in S : d = j - k
  BY <1>2
<1>4. \A l \in S : l <= k
  <2> SUFFICES ASSUME NEW l \in S PROVE l <= k
    OBVIOUS
  <2>1. j - k <= j - l
    BY <1>2, <1>3
  <2>2. l \in Int /\ k \in Int
    OBVIOUS
  <2> QED
    BY <2>1, <2>2
<1>5. LastOf(S) \in S /\ \A l \in S : l <= LastOf(S)
  BY <1>3, <1>4 DEF LastOf
<1>6. ASSUME NEW m \in S, \A l \in S : l <= m PROVE LastOf(S) = m
  <2>1. LastOf(S) <= m /\ m <= LastOf(S)
    BY <1>5, <1>6
  <2>2. LastOf(S) \in i..j /\ m \in i..j
    BY <1>5
  <2> QED
    BY <2>1, <2>2
<1> QED
  BY <1>5, <1>6

LEMMA SplitsInside ==
    ASSUME NEW ts, NEW i \in Int, NEW j \in Int, NEW word
    PROVE  /\ Splits(ts, i, j, word) \in SUBSET (i..j)
           /\ Splits(ts, i, j, word) # {} =>
                  LastOf(Splits(ts, i, j, word)) \in Splits(ts, i, j, word)
<1> DEFINE S == Splits(ts, i, j, word)
<1>1. S \in SUBSET (i..j)
  BY DEF Splits
<1> HIDE DEF S
<1>2. S # {} => LastOf(S) \in S
  BY <1>1, LastOfIsLast
<1> QED
  BY <1>1, <1>2 DEF S

\* A part is decided by the shorter ones.
LEMMA PartHoldsLocal ==
    ASSUME NEW ts, Len(ts) \in Nat, NEW met, NEW i \in 1..(Len(ts) + 1), NEW j \in 0..Len(ts),
           NEW g, NEW h,
           \A p \in PartsOf(ts) : p[2] - p[1] < j - i => g[p] = h[p]
    PROVE  PartHolds(ts, met, g, i, j) = PartHolds(ts, met, h, i, j)
<1>1. CASE i > j
  BY <1>1 DEF PartHolds
<1>2. CASE ~(i > j)
  <2>1. \A a \in 1..(Len(ts) + 1), b \in 0..Len(ts) : b - a < j - i => g[<<a, b>>] = h[<<a, b>>]
    <3> SUFFICES ASSUME NEW a \in 1..(Len(ts) + 1), NEW b \in 0..Len(ts), b - a < j - i
                 PROVE  g[<<a, b>>] = h[<<a, b>>]
      OBVIOUS
    <3>1. <<a, b>> \in PartsOf(ts) /\ <<a, b>>[1] = a /\ <<a, b>>[2] = b
      BY DEF PartsOf
    <3> QED
      BY <3>1
  <2>2. ASSUME NEW k \in i..j
        PROVE  g[<<i, k - 1>>] = h[<<i, k - 1>>] /\ g[<<k + 1, j>>] = h[<<k + 1, j>>]
    <3>1. /\ k - 1 \in 0..Len(ts) /\ k + 1 \in 1..(Len(ts) + 1)
          /\ (k - 1) - i < j - i /\ j - (k + 1) < j - i
      BY <1>2
    <3> QED
      BY <2>1, <3>1
  <2>3. ASSUME NEW word, Splits(ts, i, j, word) # {}
        PROVE  LastOf(Splits(ts, i, j, word)) \in i..j
    BY <2>3, SplitsInside
  <2>4. g[<<i + 1, j>>] = h[<<i + 1, j>>]
    BY <1>2, <2>2, i \in i..j
  <2>5. g[<<i + 1, j - 1>>] = h[<<i + 1, j - 1>>]
    <3>1. i + 1 \in 1..(Len(ts) + 1) /\ j - 1 \in 0..Len(ts) /\ (j - 1) - (i + 1) < j - i
      BY <1>2
    <3> QED
      BY <2>1, <3>1
  <2> DEFINE a == LastOf(Splits(ts, i, j, "or"))
             b == LastOf(Splits(ts, i, j, "and"))
  <2>6. Splits(ts, i, j, "or") # {} =>
            g[<<i, a - 1>>] = h[<<i, a - 1>>] /\ g[<<a + 1, j>>] = h[<<a + 1, j>>]
    BY <2>2, <2>3
  <2>7. Splits(ts, i, j, "and") # {} =>
            g[<<i, b - 1>>] = h[<<i, b - 1>>] /\ g[<<b + 1, j>>] = h[<<b + 1, j>>]
    BY <2>2, <2>3
  <2> QED
    BY <2>4, <2>5, <2>6, <2>7, Zenon DEF PartHolds
<1> QED
  BY <1>1, <1>2

LEMMA HoldsUpToExists ==
    ASSUME NEW ts, Len(ts) \in Nat, NEW met
    PROVE  \A n \in Nat : \E h : HoldsUpTo(h, ts, met, n)
<1> DEFINE T == {n \in Nat : \E h : HoldsUpTo(h, ts, met, n)}
<1>0. \A p \in PartsOf(ts) : p[1] \in 1..(Len(ts) + 1) /\ p[2] \in 0..Len(ts) /\ p = <<p[1], p[2]>>
  BY DEF PartsOf
<1>1. 0 \in T
  <2> DEFINE h == [p \in PartsOf(ts) |-> FALSE]
  <2>1. ASSUME NEW p \in PartsOf(ts), p[2] - p[1] < 0
        PROVE  h[p] = PartHolds(ts, met, h, p[1], p[2])
    <3>1. p[1] > p[2]
      BY <1>0, <2>1
    <3>2. PartHolds(ts, met, h, p[1], p[2]) = FALSE
      BY <3>1, Zenon DEF PartHolds
    <3> QED
      BY <3>2
  <2>2. DOMAIN h = PartsOf(ts) /\ h = [p \in PartsOf(ts) |-> h[p]]
    OBVIOUS
  <2> HIDE DEF h
  <2>3. HoldsUpTo(h, ts, met, 0)
    BY <2>1, <2>2 DEF HoldsUpTo
  <2> QED
    BY <2>3
<1>2. ASSUME NEW n \in Nat, n \in T PROVE n + 1 \in T
  <2>1. PICK g : HoldsUpTo(g, ts, met, n)
    BY <1>2
  <2> DEFINE h == [p \in PartsOf(ts) |->
                      IF p[2] - p[1] < n THEN g[p] ELSE PartHolds(ts, met, g, p[1], p[2])]
  <2>2. \A p \in PartsOf(ts) : p[2] - p[1] < n => h[p] = g[p]
    OBVIOUS
  <2>3. \A p \in PartsOf(ts) :
            ~(p[2] - p[1] < n) => h[p] = PartHolds(ts, met, g, p[1], p[2])
    OBVIOUS
  <2>4. DOMAIN h = PartsOf(ts) /\ h = [p \in PartsOf(ts) |-> h[p]]
    BY Zenon
  <2> HIDE DEF h
  <2>5. ASSUME NEW p \in PartsOf(ts), p[2] - p[1] < n + 1
        PROVE  h[p] = PartHolds(ts, met, h, p[1], p[2])
    <3>1. h[p] = PartHolds(ts, met, g, p[1], p[2])
      BY <2>1, <2>2, <2>3 DEF HoldsUpTo
    <3>2. PICK i \in 1..(Len(ts) + 1), j \in 0..Len(ts) : i = p[1] /\ j = p[2]
      BY <1>0
    <3>3. \A q \in PartsOf(ts) : q[2] - q[1] < j - i => g[q] = h[q]
      <4> SUFFICES ASSUME NEW q \in PartsOf(ts), q[2] - q[1] < j - i PROVE g[q] = h[q]
        OBVIOUS
      <4>1. q[2] - q[1] < n
        BY <1>0, <2>5, <3>2
      <4> QED
        BY <2>2, <4>1
    <3>4. PartHolds(ts, met, g, i, j) = PartHolds(ts, met, h, i, j)
      BY <3>3, PartHoldsLocal
    <3> QED
      BY <3>1, <3>2, <3>4
  <2>6. HoldsUpTo(h, ts, met, n + 1)
    BY <2>4, <2>5 DEF HoldsUpTo
  <2> QED
    BY <2>6
<1> HIDE DEF T
<1>3. Nat \subseteq T
  BY <1>1, <1>2, NumberInduction
<1> QED
  BY <1>3 DEF T

\* What the function says of every part.
HoldsAt(h, ts, met) ==
    \A i \in 1..(Len(ts) + 1), j \in 0..Len(ts) :
        h[<<i, j>>] = PartHolds(ts, met, h, i, j)

LEMMA HoldsByParts ==
    ASSUME NEW S, NEW ts \in Seq(S), NEW met
    PROVE  \E h : HoldsAt(h, ts, met) /\ Holds(ts, met) = h[<<1, Len(ts)>>]
<1>1. PICK len \in Nat : len = Len(ts)
  BY LenProperties
<1>2. \E h : HoldsBy(h, ts, met)
  <2>1. PICK h : HoldsUpTo(h, ts, met, len + 1)
    <3>1. len + 1 \in Nat /\ Len(ts) \in Nat
      BY <1>1
    <3> QED
      BY <3>1, HoldsUpToExists
  <2>2. \A p \in PartsOf(ts) : p[2] - p[1] < len + 1
    BY <1>1 DEF PartsOf
  <2>3. \A p \in PartsOf(ts) : h[p] = PartHolds(ts, met, h, p[1], p[2])
    BY <2>1, <2>2 DEF HoldsUpTo
  <2>4. h = [p \in PartsOf(ts) |-> h[p]]
    BY <2>1 DEF HoldsUpTo
  <2>5. [p \in PartsOf(ts) |-> h[p]] = [p \in PartsOf(ts) |-> PartHolds(ts, met, h, p[1], p[2])]
    BY <2>3
  <2> QED
    BY <2>4, <2>5 DEF HoldsBy
<1> DEFINE f == CHOOSE h : HoldsBy(h, ts, met)
<1>3. HoldsBy(f, ts, met)
  BY <1>2
<1>4. Holds(ts, met) = f[<<1, Len(ts)>>]
  BY DEF Holds, HoldsBy
<1> HIDE DEF f
<1>5. HoldsAt(f, ts, met)
  <2> SUFFICES ASSUME NEW i \in 1..(Len(ts) + 1), NEW j \in 0..Len(ts)
               PROVE  f[<<i, j>>] = PartHolds(ts, met, f, i, j)
    BY DEF HoldsAt
  <2>1. <<i, j>> \in PartsOf(ts) /\ <<i, j>>[1] = i /\ <<i, j>>[2] = j
    BY DEF PartsOf
  <2>2. \A p \in PartsOf(ts) : f[p] = PartHolds(ts, met, f, p[1], p[2])
    BY <1>3 DEF HoldsBy
  <2> QED
    BY <2>1, <2>2
<1> QED
  BY <1>4, <1>5

-----------------------------------------------------------------------------
(* The clauses of the meaning of a part.                                   *)

\* Outside the parentheses of this level the part has no such word.
NoWord(ts, i, j, word, level) ==
    \A k \in i..j : ~(ts[k] = word /\ Opened(ts, k) = level)

LEMMA NoSplits ==
    ASSUME NEW ts, NEW i, NEW j, NEW word, NoWord(ts, i, j, word, Opened(ts, i - 1))
    PROVE  Splits(ts, i, j, word) = {}
BY DEF NoWord, Splits

LEMMA LastSplit ==
    ASSUME NEW ts, NEW i \in Int, NEW j \in Int, NEW word, NEW k \in i..j,
           ts[k] = word, Opened(ts, k) = Opened(ts, i - 1),
           NoWord(ts, k + 1, j, word, Opened(ts, i - 1))
    PROVE  Splits(ts, i, j, word) # {} /\ LastOf(Splits(ts, i, j, word)) = k
<1> DEFINE S == Splits(ts, i, j, word)
<1>1. k \in S
  BY DEF Splits
<1>2. \A l \in S : l <= k
  <2> SUFFICES ASSUME NEW l \in S, ~(l <= k) PROVE FALSE
    OBVIOUS
  <2>1. l \in i..j /\ ts[l] = word /\ Opened(ts, l) = Opened(ts, i - 1)
    BY DEF Splits
  <2>2. l \in (k + 1)..j
    BY <2>1
  <2> QED
    BY <2>1, <2>2 DEF NoWord
<1>3. S \in SUBSET (i..j)
  BY DEF Splits
<1> HIDE DEF S
<1>4. LastOf(S) = k
  BY <1>1, <1>2, <1>3, LastOfIsLast
<1> QED
  BY <1>1, <1>4 DEF S

LEMMA HoldsLeaf ==
    ASSUME NEW ts, NEW len \in Nat, len = Len(ts), NEW met, NEW h, HoldsAt(h, ts, met),
           NEW i \in 1..len, ts[i] \in Comparisons
    PROVE  h[<<i, i>>] <=> ts[i] \in met
<1>1. i \in 1..(Len(ts) + 1) /\ i \in 0..Len(ts) /\ ~(i > i)
  OBVIOUS
<1>2. ts[i] # "or" /\ ts[i] # "and" /\ ts[i] # "not"
  BY WordsApart
<1>3. Splits(ts, i, i, "or") = {} /\ Splits(ts, i, i, "and") = {}
  BY <1>2 DEF Splits
<1>4. h[<<i, i>>] = PartHolds(ts, met, h, i, i)
  BY <1>1 DEF HoldsAt
<1>5. PartHolds(ts, met, h, i, i) <=> ts[i] \in met
  BY <1>1, <1>2, <1>3, Zenon DEF PartHolds
<1> QED
  BY <1>4, <1>5

LEMMA HoldsNot ==
    ASSUME NEW ts, NEW len \in Nat, len = Len(ts), NEW met, NEW h, HoldsAt(h, ts, met),
           NEW i \in 1..len, NEW j \in i..len, ts[i] = "not",
           NoWord(ts, i, j, "or", Opened(ts, i - 1)), NoWord(ts, i, j, "and", Opened(ts, i - 1))
    PROVE  h[<<i, j>>] <=> ~h[<<i + 1, j>>]
<1>1. i \in 1..(Len(ts) + 1) /\ j \in 0..Len(ts) /\ ~(i > j)
  OBVIOUS
<1>2. Splits(ts, i, j, "or") = {} /\ Splits(ts, i, j, "and") = {}
  BY NoSplits
<1>3. h[<<i, j>>] = PartHolds(ts, met, h, i, j)
  BY <1>1 DEF HoldsAt
<1>4. PartHolds(ts, met, h, i, j) <=> ~h[<<i + 1, j>>]
  BY <1>1, <1>2, Zenon DEF PartHolds
<1> QED
  BY <1>3, <1>4

LEMMA HoldsParen ==
    ASSUME NEW ts, NEW len \in Nat, len = Len(ts), NEW met, NEW h, HoldsAt(h, ts, met),
           NEW i \in 1..len, NEW j \in i..len, ts[i] = "(", i # j,
           NoWord(ts, i, j, "or", Opened(ts, i - 1)), NoWord(ts, i, j, "and", Opened(ts, i - 1))
    PROVE  h[<<i, j>>] <=> h[<<i + 1, j - 1>>]
<1>1. i \in 1..(Len(ts) + 1) /\ j \in 0..Len(ts) /\ ~(i > j) /\ ts[i] # "not"
  OBVIOUS
<1>2. Splits(ts, i, j, "or") = {} /\ Splits(ts, i, j, "and") = {}
  BY NoSplits
<1>3. h[<<i, j>>] = PartHolds(ts, met, h, i, j)
  BY <1>1 DEF HoldsAt
<1>4. PartHolds(ts, met, h, i, j) <=> h[<<i + 1, j - 1>>]
  BY <1>1, <1>2, Zenon DEF PartHolds
<1> QED
  BY <1>3, <1>4

LEMMA HoldsOr ==
    ASSUME NEW ts, NEW len \in Nat, len = Len(ts), NEW met, NEW h, HoldsAt(h, ts, met),
           NEW i \in 1..len, NEW j \in i..len, NEW k \in i..j,
           ts[k] = "or", Opened(ts, k) = Opened(ts, i - 1),
           NoWord(ts, k + 1, j, "or", Opened(ts, i - 1))
    PROVE  h[<<i, j>>] <=> h[<<i, k - 1>>] \/ h[<<k + 1, j>>]
<1>1. i \in 1..(Len(ts) + 1) /\ j \in 0..Len(ts) /\ ~(i > j)
  OBVIOUS
<1>2. Splits(ts, i, j, "or") # {} /\ LastOf(Splits(ts, i, j, "or")) = k
  <2>1. i \in Int /\ j \in Int
    BY ONLY len \in Nat, i \in 1..len, j \in i..len
  <2> QED
    BY <2>1, LastSplit
<1>3. h[<<i, j>>] = PartHolds(ts, met, h, i, j)
  BY <1>1 DEF HoldsAt
<1>4. PartHolds(ts, met, h, i, j) <=> h[<<i, k - 1>>] \/ h[<<k + 1, j>>]
  BY <1>1, <1>2, Zenon DEF PartHolds
<1> QED
  BY <1>3, <1>4

LEMMA HoldsAnd ==
    ASSUME NEW ts, NEW len \in Nat, len = Len(ts), NEW met, NEW h, HoldsAt(h, ts, met),
           NEW i \in 1..len, NEW j \in i..len, NEW k \in i..j,
           ts[k] = "and", Opened(ts, k) = Opened(ts, i - 1),
           NoWord(ts, i, j, "or", Opened(ts, i - 1)),
           NoWord(ts, k + 1, j, "and", Opened(ts, i - 1))
    PROVE  h[<<i, j>>] <=> h[<<i, k - 1>>] /\ h[<<k + 1, j>>]
<1>1. i \in 1..(Len(ts) + 1) /\ j \in 0..Len(ts) /\ ~(i > j)
  OBVIOUS
<1>2. Splits(ts, i, j, "and") # {} /\ LastOf(Splits(ts, i, j, "and")) = k
  <2>1. i \in Int /\ j \in Int
    BY ONLY len \in Nat, i \in 1..len, j \in i..len
  <2> QED
    BY <2>1, LastSplit
<1>3. Splits(ts, i, j, "or") = {}
  BY NoSplits
<1>4. h[<<i, j>>] = PartHolds(ts, met, h, i, j)
  BY <1>1 DEF HoldsAt
<1>5. PartHolds(ts, met, h, i, j) <=> h[<<i, k - 1>>] /\ h[<<k + 1, j>>]
  BY <1>1, <1>2, <1>3, Zenon DEF PartHolds
<1> QED
  BY <1>4, <1>5

-----------------------------------------------------------------------------
(* What the nodes made so far mean.                                        *)

AllIn(kids, M) == \A k \in DOMAIN kids : kids[k] \in M

OneIn(kids, M) == \E k \in DOMAIN kids : kids[k] \in M

LEMMA NodeMeans ==
    ASSUME NEW N, NEW M, NEW met, Interprets(N, M, met), NEW kids \in Seq(N), kids # <<>>
    PROVE  /\ Node("and", kids) \in M <=> AllIn(kids, M)
           /\ Node("or", kids) \in M <=> OneIn(kids, M)
<1>1. CASE Len(kids) = 1
  <2>1. 1 \in DOMAIN kids /\ \A k \in DOMAIN kids : k = 1
    <3>1. PICK len \in Nat : len = Len(kids) /\ DOMAIN kids = 1..len
      BY LenProperties
    <3>2. len = 1
      BY <1>1, <3>1
    <3>3. PICK D : D = DOMAIN kids /\ D = 1..len
      BY <3>1
    <3>4. 1 \in D /\ \A k \in D : k = 1
      BY ONLY <3>2, <3>3, len \in Nat
    <3> QED
      BY ONLY <3>3, <3>4
  <2>2. Node("and", kids) = kids[1] /\ Node("or", kids) = kids[1]
    BY <1>1 DEF Node
  <2> QED
    BY <2>1, <2>2 DEF AllIn, OneIn
<1>2. CASE Len(kids) # 1
  <2>1. /\ Node("and", kids) = [op |-> "and", kids |-> kids]
        /\ Node("or", kids) = [op |-> "or", kids |-> kids]
    BY <1>2 DEF Node
  <2>2. /\ [op |-> "and", kids |-> kids] \in M <=> \A k \in DOMAIN kids : kids[k] \in M
        /\ [op |-> "or", kids |-> kids] \in M <=> \E k \in DOMAIN kids : kids[k] \in M
    BY Zenon DEF Interprets
  <2> QED
    BY <2>1, <2>2 DEF AllIn, OneIn
<1> QED
  BY <1>1, <1>2

LEMMA AppendMeans ==
    ASSUME NEW N, NEW M, NEW kids \in Seq(N), NEW x \in N
    PROVE  /\ AllIn(Append(kids, x), M) <=> AllIn(kids, M) /\ x \in M
           /\ OneIn(Append(kids, x), M) <=> OneIn(kids, M) \/ x \in M
           /\ kids = <<>> => AllIn(kids, M) /\ ~OneIn(kids, M)
<1>1. PICK len \in Nat : len = Len(kids)
  BY LenProperties
<1>2. PICK more \in Seq(N) : more = Append(kids, x)
  BY AppendProperties
<1>3. /\ Len(more) = len + 1 /\ more[len + 1] = x
      /\ \A i \in 1..len : more[i] = kids[i]
  BY <1>1, <1>2, AppendProperties
<1>4. DOMAIN kids = 1..len /\ DOMAIN more = 1..(len + 1)
  BY <1>1, <1>3, LenProperties
<1>5. \A i : i \in 1..(len + 1) <=> i \in 1..len \/ i = len + 1
  OBVIOUS
<1>6. AllIn(more, M) <=> AllIn(kids, M) /\ x \in M
  BY <1>3, <1>4, <1>5 DEF AllIn
<1>7. OneIn(more, M) <=> OneIn(kids, M) \/ x \in M
  BY <1>3, <1>4, <1>5 DEF OneIn
<1>8. kids = <<>> => AllIn(kids, M) /\ ~OneIn(kids, M)
  <2>1. kids = <<>> => len = 0
    BY <1>1, EmptySeq
  <2> QED
    BY <1>4, <2>1 DEF AllIn, OneIn
<1> QED
  BY <1>2, <1>6, <1>7, <1>8

-----------------------------------------------------------------------------
(* What a call has made of the text it has read, from g to n.              *)

\* It has stayed within its parentheses.
CallStays(ts, g, n) ==
    /\ Opened(ts, n) = Opened(ts, g - 1)
    /\ \A k \in g..n : Opened(ts, k) >= Opened(ts, g - 1)

\* The children of its or are the parts before p.
OrsRead(ts, h, M, call, g, p) ==
    IF p = g THEN call.ors = <<>>
    ELSE /\ p > g + 1 /\ ts[p - 1] = "or" /\ call.ors # <<>>
         /\ Opened(ts, p - 1) = Opened(ts, g - 1)
         /\ OneIn(call.ors, M) <=> h[<<g, p - 2>>]

\* An operand is complete: the children of the and are the part from p.
CallHasPart(ts, h, M, call, g, n, p) ==
    /\ p \in g..n /\ OrsRead(ts, h, M, call, g, p)
    /\ NoWord(ts, p, n, "or", Opened(ts, g - 1))
    /\ call.nots = 0 /\ call.ands # <<>>
    /\ AllIn(call.ands, M) <=> h[<<p, n>>]

CallHas(ts, h, M, call, g, n) ==
    CallStays(ts, g, n) /\ \E p : CallHasPart(ts, h, M, call, g, n, p)

\* An operand is wanted: from o there is nothing but the nots that wait.
CallWaitsPart(ts, h, M, call, g, n, p, o) ==
    /\ p \in g..(n + 1) /\ o \in p..(n + 1) /\ OrsRead(ts, h, M, call, g, p)
    /\ NoWord(ts, p, n, "or", Opened(ts, g - 1))
    /\ call.nots = (n + 1) - o /\ \A k \in o..n : ts[k] = "not"
    /\ IF o = p THEN call.ands = <<>>
       ELSE /\ o > p + 1 /\ ts[o - 1] = "and" /\ call.ands # <<>>
            /\ Opened(ts, o - 1) = Opened(ts, g - 1)
            /\ AllIn(call.ands, M) <=> h[<<p, o - 2>>]

CallWaits(ts, h, M, call, g, n) ==
    CallStays(ts, g, n) /\ \E p, o : CallWaitsPart(ts, h, M, call, g, n, p, o)

\* Leading nots do not change the level.
LEMMA NotsLevel ==
    ASSUME NEW ts, NEW n \in Nat, NEW o \in 1..(n + 1), \A k \in o..n : ts[k] = "not"
    PROVE  \A k \in (o - 1)..n : Opened(ts, k) = Opened(ts, n)
<1> DEFINE T == {d \in Nat : n - d >= o - 1 => Opened(ts, n - d) = Opened(ts, n)}
<1>1. 0 \in T
  <2>1. n - 0 = n
    BY ONLY n \in Nat
  <2> QED
    BY <2>1
<1>2. ASSUME NEW d \in Nat, d \in T PROVE d + 1 \in T
  <2>1. SUFFICES ASSUME n - (d + 1) >= o - 1
                 PROVE  Opened(ts, n - (d + 1)) = Opened(ts, n)
    OBVIOUS
  <2>2. PICK m \in Nat : m = n - (d + 1) /\ m + 1 = n - d /\ m + 1 \in o..n
    BY <2>1
  <2>3. Opened(ts, m + 1) = Opened(ts, n)
    BY <1>2, <2>2
  <2>4. ts[m + 1] \notin {"(", ")"}
    BY <2>2
  <2> QED
    BY <2>2, <2>3, <2>4, OpenedOne
<1> HIDE DEF T
<1>3. Nat \subseteq T
  BY <1>1, <1>2, NumberInduction
<1>4. ASSUME NEW k \in (o - 1)..n PROVE Opened(ts, k) = Opened(ts, n)
  <2>1. n - k \in Nat /\ n - (n - k) = k /\ k >= o - 1
    OBVIOUS
  <2>2. n - k \in T
    BY <1>3, <2>1
  <2>3. n - (n - k) >= o - 1 => Opened(ts, n - (n - k)) = Opened(ts, n)
    BY <2>2 DEF T
  <2> QED
    BY <2>1, <2>3
<1> QED
  BY <1>4

NegatedBy(f, count, node) ==
    /\ Negated(count, node) = f[count] /\ f[0] = node
    /\ \A k \in 0..(count - 1) : f[k + 1] = [op |-> "not", kid |-> f[k]]

\* The nots before an operand negate it one by one.
LEMMA NotsHold ==
    ASSUME NEW N, NEW M, NEW met, Interprets(N, M, met),
           NEW ts, NEW len \in Nat, len = Len(ts), NEW h, HoldsAt(h, ts, met),
           NEW n \in Nat, NEW e \in (n + 1)..len, NEW o \in 1..(n + 1),
           \A k \in o..n : ts[k] = "not",
           NoWord(ts, n + 1, e, "or", Opened(ts, n)), NoWord(ts, n + 1, e, "and", Opened(ts, n)),
           NEW node \in N, node \in M <=> h[<<n + 1, e>>]
    PROVE  /\ Negated((n + 1) - o, node) \in M <=> h[<<o, e>>]
           /\ NoWord(ts, o, e, "or", Opened(ts, n)) /\ NoWord(ts, o, e, "and", Opened(ts, n))
<1>1. (n + 1) - o \in Nat
  OBVIOUS
<1>2. PICK f : /\ Negated((n + 1) - o, node) = f[(n + 1) - o] /\ f[0] = node
               /\ \A k \in 0..(((n + 1) - o) - 1) : f[k + 1] = [op |-> "not", kid |-> f[k]]
  <2>1. PICK c \in Nat : c = (n + 1) - o
    BY <1>1
  <2>2. \E f : NegatedBy(f, c, node)
    BY ONLY c \in Nat, NegatedSteps DEF NegatedBy
  <2>3. \E f : NegatedBy(f, (n + 1) - o, node)
    BY ONLY <2>1, <2>2
  <2> QED
    BY ONLY <2>3, Zenon DEF NegatedBy
<1>3. \A k \in (o - 1)..n : Opened(ts, k) = Opened(ts, n)
  BY NotsLevel
<1>4. \A word \in {"or", "and"} : NoWord(ts, o, e, word, Opened(ts, n))
  <2> SUFFICES ASSUME NEW word \in {"or", "and"}, NEW k \in o..e,
                      ts[k] = word, Opened(ts, k) = Opened(ts, n)
               PROVE  FALSE
    BY DEF NoWord
  <2>1. k \in o..n \/ k \in (n + 1)..e
    OBVIOUS
  <2>2. CASE k \in o..n
    BY <2>2
  <2>3. CASE k \in (n + 1)..e
    BY <2>3 DEF NoWord
  <2> QED
    BY <2>1, <2>2, <2>3
<1> DEFINE T == {d \in Nat : d <= (n + 1) - o =>
                     f[d] \in N /\ (f[d] \in M <=> h[<<(n + 1) - d, e>>])}
<1>5. 0 \in T
  <2>1. (n + 1) - 0 = n + 1
    BY ONLY n \in Nat
  <2> QED
    BY <1>2, <2>1
<1>6. ASSUME NEW d \in Nat, d \in T PROVE d + 1 \in T
  <2>1. SUFFICES ASSUME d + 1 <= (n + 1) - o
                 PROVE  f[d + 1] \in N /\ (f[d + 1] \in M <=> h[<<(n + 1) - (d + 1), e>>])
    OBVIOUS
  <2>2. d \in 0..(((n + 1) - o) - 1) /\ d <= (n + 1) - o
    BY <2>1
  <2>3. f[d + 1] = [op |-> "not", kid |-> f[d]]
    BY <1>2, <2>2
  <2>4. f[d] \in N /\ (f[d] \in M <=> h[<<(n + 1) - d, e>>])
    BY <1>6, <2>2
  <2>5. f[d + 1] \in N /\ (f[d + 1] \in M <=> f[d] \notin M)
    BY <2>3, <2>4 DEF Interprets, Closed
  <2>6. PICK i \in 1..len : i = (n + 1) - (d + 1) /\ i + 1 = (n + 1) - d
                            /\ i \in o..n /\ i - 1 \in (o - 1)..n
    BY <2>1
  <2>7. /\ NoWord(ts, i, e, "or", Opened(ts, i - 1))
        /\ NoWord(ts, i, e, "and", Opened(ts, i - 1))
    <3>1. Opened(ts, i - 1) = Opened(ts, n)
      BY <1>3, <2>6
    <3>2. \A k \in i..e : k \in o..e
      BY <2>6
    <3> QED
      BY <1>4, <3>1, <3>2 DEF NoWord
  <2>8. e \in i..len /\ ts[i] = "not"
    BY <2>6
  <2>9. h[<<i, e>>] <=> ~h[<<i + 1, e>>]
    BY <2>7, <2>8, HoldsNot
  <2>10. <<(n + 1) - (d + 1), e>> = <<i, e>> /\ <<(n + 1) - d, e>> = <<i + 1, e>>
    BY <2>6
  <2> QED
    BY <2>4, <2>5, <2>9, <2>10
<1> HIDE DEF T
<1>7. Nat \subseteq T
  BY <1>5, <1>6, NumberInduction
<1>8. f[(n + 1) - o] \in M <=> h[<<o, e>>]
  <2>1. (n + 1) - o \in T /\ (n + 1) - ((n + 1) - o) = o /\ (n + 1) - o <= (n + 1) - o
    BY <1>1, <1>7
  <2>2. f[(n + 1) - o] \in M <=> h[<<(n + 1) - ((n + 1) - o), e>>]
    BY <2>1 DEF T
  <2> QED
    BY <2>1, <2>2
<1> QED
  BY <1>2, <1>4, <1>8

-----------------------------------------------------------------------------
(* One token, for the call that reads it.                                  *)

\* The parts of an or are at the level of the call.
LEMMA PartLevel ==
    ASSUME NEW ts, NEW h, NEW M, NEW call, NEW g, NEW p, OrsRead(ts, h, M, call, g, p)
    PROVE  Opened(ts, p - 1) = Opened(ts, g - 1)
BY DEF OrsRead

\* A call that has taken an operand has read its part.
LEMMA TookSound ==
    ASSUME NEW N, NEW M, NEW met, Interprets(N, M, met),
           NEW ts, NEW len \in Nat, len = Len(ts), NEW h, HoldsAt(h, ts, met),
           NEW g \in 1..len, NEW n \in Nat, NEW e \in (n + 1)..len,
           NEW call \in CallsOf(N), CallWaits(ts, h, M, call, g, n),
           NEW node \in N, node \in M <=> h[<<n + 1, e>>],
           NoWord(ts, n + 1, e, "or", Opened(ts, n)), NoWord(ts, n + 1, e, "and", Opened(ts, n)),
           Opened(ts, e) = Opened(ts, n), \A k \in (n + 1)..e : Opened(ts, k) >= Opened(ts, n)
    PROVE  CallHas(ts, h, M, Took(call, node), g, e)
<1>0. Closed(N)
  BY DEF Interprets
<1>1. PICK p, o : CallWaitsPart(ts, h, M, call, g, n, p, o)
  BY DEF CallWaits
<1>2. /\ p \in g..(n + 1) /\ o \in p..(n + 1) /\ OrsRead(ts, h, M, call, g, p)
      /\ NoWord(ts, p, n, "or", Opened(ts, g - 1))
      /\ call.nots = (n + 1) - o /\ \A k \in o..n : ts[k] = "not"
  BY <1>1 DEF CallWaitsPart
<1>3. PICK new \in CallsOf(N) : new = Took(call, node)
  BY <1>0, TookType
<1>4. PICK x \in N : x = Negated(call.nots, node)
  <2>1. call.nots \in Nat
    BY DEF CallsOf
  <2> QED
    BY <1>0, <2>1, NegatedType
<1>5. /\ new.ors = call.ors /\ new.ands = Append(call.ands, x) /\ new.ands # <<>>
      /\ new.nots = 0
  BY ONLY <1>0, <1>3, <1>4, TookType, call \in CallsOf(N), node \in N
<1>6. o \in 1..(n + 1)
  BY <1>2
<1>7. /\ x \in M <=> h[<<o, e>>]
      /\ NoWord(ts, o, e, "or", Opened(ts, n)) /\ NoWord(ts, o, e, "and", Opened(ts, n))
  <2>1. /\ Negated((n + 1) - o, node) \in M <=> h[<<o, e>>]
        /\ NoWord(ts, o, e, "or", Opened(ts, n)) /\ NoWord(ts, o, e, "and", Opened(ts, n))
    BY <1>2, <1>6, NotsHold
  <2> QED
    BY <1>2, <1>4, <2>1
<1>8. Opened(ts, n) = Opened(ts, g - 1) /\ \A k \in g..n : Opened(ts, k) >= Opened(ts, g - 1)
  BY DEF CallWaits, CallStays
<1>9. CallStays(ts, g, e)
  <2>1. \A k \in g..e : k \in g..n \/ k \in (n + 1)..e
    OBVIOUS
  <2> QED
    BY <1>8, <2>1 DEF CallStays
<1>10. NoWord(ts, p, e, "or", Opened(ts, g - 1))
  <2>1. \A k \in p..e : k \in p..n \/ k \in (n + 1)..e
    BY <1>2
  <2> QED
    BY <1>2, <1>8, <2>1 DEF NoWord
<1>11. AllIn(new.ands, M) <=> h[<<p, e>>]
  <2>1. call.ands \in Seq(N)
    BY DEF CallsOf
  <2>2. /\ AllIn(new.ands, M) <=> AllIn(call.ands, M) /\ x \in M
        /\ call.ands = <<>> => AllIn(call.ands, M)
    BY <1>5, <2>1, AppendMeans
  <2>3. CASE o = p
    <3>1. call.ands = <<>>
      BY <1>1, <2>3 DEF CallWaitsPart
    <3> QED
      BY <1>7, <2>2, <2>3, <3>1
  <2>4. CASE o # p
    <3>1. /\ o > p + 1 /\ ts[o - 1] = "and" /\ Opened(ts, o - 1) = Opened(ts, g - 1)
          /\ AllIn(call.ands, M) <=> h[<<p, o - 2>>]
      BY <1>1, <2>4 DEF CallWaitsPart
    <3>2. PICK k \in p..e : k = o - 1 /\ k + 1 = o /\ k - 1 = o - 2
      BY <1>2, <3>1
    <3>3. Opened(ts, p - 1) = Opened(ts, g - 1)
      BY <1>2, PartLevel
    <3>4. p \in 1..len /\ e \in p..len
      BY <1>2
    <3>5. /\ ts[k] = "and" /\ Opened(ts, k) = Opened(ts, p - 1)
          /\ NoWord(ts, p, e, "or", Opened(ts, p - 1))
          /\ NoWord(ts, k + 1, e, "and", Opened(ts, p - 1))
      BY <1>7, <1>8, <1>10, <3>1, <3>2, <3>3
    <3>6. h[<<p, e>>] <=> h[<<p, k - 1>>] /\ h[<<k + 1, e>>]
      BY <3>4, <3>5, HoldsAnd
    <3> QED
      BY <1>7, <2>2, <3>1, <3>2, <3>6
  <2> QED
    BY <2>3, <2>4
<1>12. OrsRead(ts, h, M, new, g, p)
  BY <1>2, <1>5 DEF OrsRead
<1>13. p \in g..e
  BY <1>2
<1>14. CallHasPart(ts, h, M, new, g, e, p)
  BY <1>5, <1>10, <1>11, <1>12, <1>13 DEF CallHasPart
<1> QED
  BY <1>3, <1>9, <1>14 DEF CallHas

\* What a call that has an operand would return is what it has read.
LEMMA OrsMean ==
    ASSUME NEW N, NEW M, NEW met, Interprets(N, M, met),
           NEW ts, NEW len \in Nat, len = Len(ts), NEW h, HoldsAt(h, ts, met),
           NEW g \in 1..len, NEW n \in 1..len,
           NEW call \in CallsOf(N), CallHas(ts, h, M, call, g, n)
    PROVE  /\ OneIn(AndOver(call).ors, M) <=> h[<<g, n>>]
           /\ Built(call) \in N
           /\ Built(call) \in M <=> h[<<g, n>>]
<1>0. Closed(N)
  BY DEF Interprets
<1>1. PICK p : CallHasPart(ts, h, M, call, g, n, p)
  BY DEF CallHas
<1>2. /\ p \in g..n /\ OrsRead(ts, h, M, call, g, p)
      /\ NoWord(ts, p, n, "or", Opened(ts, g - 1))
      /\ call.ands # <<>>
      /\ AllIn(call.ands, M) <=> h[<<p, n>>]
  BY <1>1 DEF CallHasPart
<1>3. call.ors \in Seq(N) /\ call.ands \in Seq(N)
  BY DEF CallsOf
<1>4. PICK kids \in Seq(N) : kids = AndOver(call).ors
  <2>1. AndOver(call) \in CallsOf(N)
    BY <1>0, <1>2, AndOverType
  <2> QED
    BY <2>1 DEF CallsOf
<1>5. PICK x \in N : x = Node("and", call.ands)
  BY <1>0, <1>2, AndOverType
<1>6. /\ kids = Append(call.ors, x) /\ kids # <<>>
      /\ Built(call) = Node("or", kids) /\ Built(call) \in N
  BY ONLY <1>0, <1>2, <1>4, <1>5, AndOverType, call \in CallsOf(N)
<1>7. x \in M <=> h[<<p, n>>]
  BY <1>2, <1>3, <1>5, NodeMeans
<1>8. /\ OneIn(kids, M) <=> OneIn(call.ors, M) \/ x \in M
      /\ call.ors = <<>> => ~OneIn(call.ors, M)
  <2>1. PICK ors \in Seq(N) : ors = call.ors
    BY <1>3
  <2>2. /\ OneIn(Append(ors, x), M) <=> OneIn(ors, M) \/ x \in M
        /\ ors = <<>> => ~OneIn(ors, M)
    BY ONLY AppendMeans, ors \in Seq(N), x \in N
  <2> QED
    BY ONLY <1>6, <2>1, <2>2
<1>9. OneIn(kids, M) <=> h[<<g, n>>]
  <2>1. CASE p = g
    <3>1. call.ors = <<>>
      BY <1>2, <2>1 DEF OrsRead
    <3> QED
      BY <1>7, <1>8, <2>1, <3>1
  <2>2. CASE p # g
    <3>1. /\ p > g + 1 /\ ts[p - 1] = "or" /\ Opened(ts, p - 1) = Opened(ts, g - 1)
          /\ OneIn(call.ors, M) <=> h[<<g, p - 2>>]
      BY <1>2, <2>2 DEF OrsRead
    <3>2. PICK k \in g..n : k = p - 1 /\ k + 1 = p /\ k - 1 = p - 2
      BY <1>2, <3>1
    <3>3. n \in g..len
      BY <1>2
    <3>4. /\ ts[k] = "or" /\ Opened(ts, k) = Opened(ts, g - 1)
          /\ NoWord(ts, k + 1, n, "or", Opened(ts, g - 1))
      BY <1>2, <3>1, <3>2
    <3>5. h[<<g, n>>] <=> h[<<g, k - 1>>] \/ h[<<k + 1, n>>]
      BY <3>3, <3>4, HoldsOr
    <3> QED
      BY <1>7, <1>8, <3>1, <3>2, <3>5
  <2> QED
    BY <2>1, <2>2
<1>10. Node("or", kids) \in M <=> OneIn(kids, M)
  BY <1>6, NodeMeans
<1> QED
  BY <1>4, <1>6, <1>9, <1>10

\* parse_expr called anew has read nothing.
LEMMA NewCallWaits ==
    ASSUME NEW ts, NEW h, NEW M, NEW n \in Nat, NEW g \in Nat, g = n + 1
    PROVE  CallWaits(ts, h, M, NewCall, g, n)
<1>1. g - 1 = n /\ g..n = {} /\ (n + 1) - g = 0 /\ g \in g..(n + 1)
  OBVIOUS
<1>2. NewCall.ors = <<>> /\ NewCall.ands = <<>> /\ NewCall.nots = 0
  BY DEF NewCall
<1>3. CallStays(ts, g, n)
  BY <1>1 DEF CallStays
<1>4. CallWaitsPart(ts, h, M, NewCall, g, n, g, g)
  BY <1>1, <1>2 DEF CallWaitsPart, OrsRead, NoWord
<1> QED
  BY <1>3, <1>4 DEF CallWaits

\* One more call of parse_not_expr.
LEMMA NotSound ==
    ASSUME NEW ts, NEW h, NEW M, NEW g \in Nat, NEW n \in Nat, ts[n + 1] = "not",
           NEW call, CallWaits(ts, h, M, call, g, n),
           NEW new, new.ors = call.ors, new.ands = call.ands, new.nots = call.nots + 1
    PROVE  CallWaits(ts, h, M, new, g, n + 1)
<1>1. PICK p, o : CallWaitsPart(ts, h, M, call, g, n, p, o)
  BY DEF CallWaits
<1>2. /\ p \in g..(n + 1) /\ o \in p..(n + 1) /\ OrsRead(ts, h, M, call, g, p)
      /\ NoWord(ts, p, n, "or", Opened(ts, g - 1))
      /\ call.nots = (n + 1) - o /\ \A k \in o..n : ts[k] = "not"
  BY <1>1 DEF CallWaitsPart
<1>3. /\ p \in g..((n + 1) + 1) /\ o \in p..((n + 1) + 1)
      /\ new.nots = ((n + 1) + 1) - o
  BY <1>2
<1>4. /\ \A k \in o..(n + 1) : k \in o..n \/ k = n + 1
      /\ \A k \in p..(n + 1) : k \in p..n \/ k = n + 1
      /\ \A k \in g..(n + 1) : k \in g..n \/ k = n + 1
  BY <1>2
<1>5. Opened(ts, n + 1) = Opened(ts, n)
  BY OpenedOne
<1>6. CallStays(ts, g, n + 1)
  <2>1. Opened(ts, n) = Opened(ts, g - 1) /\ \A k \in g..n : Opened(ts, k) >= Opened(ts, g - 1)
    BY DEF CallWaits, CallStays
  <2>2. Opened(ts, n) \in Int
    BY OpenedType
  <2> QED
    BY <1>4, <1>5, <2>1, <2>2 DEF CallStays
<1>7. NoWord(ts, p, n + 1, "or", Opened(ts, g - 1)) /\ OrsRead(ts, h, M, new, g, p)
  <2>1. NoWord(ts, p, n + 1, "or", Opened(ts, g - 1))
    BY <1>2, <1>4 DEF NoWord
  <2>2. OrsRead(ts, h, M, new, g, p)
    BY <1>2 DEF OrsRead
  <2> QED
    BY <2>1, <2>2
<1>8. \A k \in o..(n + 1) : ts[k] = "not"
  BY <1>2, <1>4
<1>9. IF o = p THEN new.ands = <<>>
      ELSE /\ o > p + 1 /\ ts[o - 1] = "and" /\ new.ands # <<>>
           /\ Opened(ts, o - 1) = Opened(ts, g - 1)
           /\ AllIn(new.ands, M) <=> h[<<p, o - 2>>]
  BY <1>1 DEF CallWaitsPart
<1>10. CallWaitsPart(ts, h, M, new, g, n + 1, p, o)
  BY <1>3, <1>7, <1>8, <1>9 DEF CallWaitsPart
<1> QED
  BY <1>6, <1>10 DEF CallWaits

\* "and" after an operand.
LEMMA AndSound ==
    ASSUME NEW ts, NEW h, NEW M, NEW g \in Nat, NEW n \in Nat, ts[n + 1] = "and",
           NEW call, CallHas(ts, h, M, call, g, n)
    PROVE  CallWaits(ts, h, M, call, g, n + 1)
<1>1. PICK p : CallHasPart(ts, h, M, call, g, n, p)
  BY DEF CallHas
<1>2. /\ p \in g..n /\ OrsRead(ts, h, M, call, g, p)
      /\ NoWord(ts, p, n, "or", Opened(ts, g - 1))
      /\ call.nots = 0 /\ call.ands # <<>>
      /\ AllIn(call.ands, M) <=> h[<<p, n>>]
  BY <1>1 DEF CallHasPart
<1>3. PICK o \in Nat : /\ o = (n + 1) + 1 /\ o - 1 = n + 1 /\ o - 2 = n
                       /\ ((n + 1) + 1) - o = 0 /\ o..(n + 1) = {}
  OBVIOUS
<1>4. p \in g..((n + 1) + 1) /\ o \in p..((n + 1) + 1) /\ o > p + 1 /\ o # p
  BY <1>2, <1>3
<1>5. /\ \A k \in p..(n + 1) : k \in p..n \/ k = n + 1
      /\ \A k \in g..(n + 1) : k \in g..n \/ k = n + 1
  BY <1>2
<1>6. Opened(ts, n + 1) = Opened(ts, n) /\ Opened(ts, n) = Opened(ts, g - 1)
  BY OpenedOne DEF CallHas, CallStays
<1>7. CallStays(ts, g, n + 1)
  <2>1. \A k \in g..n : Opened(ts, k) >= Opened(ts, g - 1)
    BY DEF CallHas, CallStays
  <2>2. Opened(ts, n) \in Int
    BY OpenedType
  <2> QED
    BY <1>5, <1>6, <2>1, <2>2 DEF CallStays
<1>8. NoWord(ts, p, n + 1, "or", Opened(ts, g - 1))
  BY <1>2, <1>5 DEF NoWord
<1>9. CallWaitsPart(ts, h, M, call, g, n + 1, p, o)
  BY <1>2, <1>3, <1>4, <1>6, <1>8 DEF CallWaitsPart
<1> QED
  BY <1>7, <1>9 DEF CallWaits

\* "or" after an operand.
LEMMA OrSound ==
    ASSUME NEW N, NEW M, NEW met, Interprets(N, M, met),
           NEW ts, NEW len \in Nat, len = Len(ts), NEW h, HoldsAt(h, ts, met),
           NEW g \in 1..len, NEW n \in 1..len, ts[n + 1] = "or",
           NEW call \in CallsOf(N), CallHas(ts, h, M, call, g, n)
    PROVE  CallWaits(ts, h, M, AndOver(call), g, n + 1)
<1>0. Closed(N)
  BY DEF Interprets
<1>1. PICK p : CallHasPart(ts, h, M, call, g, n, p)
  BY DEF CallHas
<1>2. p \in g..n /\ call.nots = 0 /\ call.ands # <<>>
  BY <1>1 DEF CallHasPart
<1>3. PICK o \in Nat : /\ o = (n + 1) + 1 /\ o - 1 = n + 1 /\ o - 2 = n
                       /\ ((n + 1) + 1) - o = 0 /\ o..(n + 1) = {}
  OBVIOUS
<1>4. o \in g..((n + 1) + 1) /\ o \in o..((n + 1) + 1) /\ o > g + 1 /\ o # g
  BY <1>2, <1>3
<1>5. \A k \in g..(n + 1) : k \in g..n \/ k = n + 1
  OBVIOUS
<1>6. Opened(ts, n + 1) = Opened(ts, n) /\ Opened(ts, n) = Opened(ts, g - 1)
  BY OpenedOne DEF CallHas, CallStays
<1>7. CallStays(ts, g, n + 1)
  <2>1. \A k \in g..n : Opened(ts, k) >= Opened(ts, g - 1)
    BY DEF CallHas, CallStays
  <2>2. Opened(ts, n) \in Int
    BY OpenedType
  <2> QED
    BY <1>5, <1>6, <2>1, <2>2 DEF CallStays
<1>8. PICK new : new = AndOver(call)
  OBVIOUS
<1>9. new.ors # <<>> /\ new.ands = <<>> /\ new.nots = 0
  BY <1>0, <1>2, <1>8, AndOverType
<1>10. OneIn(new.ors, M) <=> h[<<g, n>>]
  BY <1>8, OrsMean
<1>11. OrsRead(ts, h, M, new, g, o)
  BY <1>3, <1>4, <1>6, <1>9, <1>10 DEF OrsRead
<1>12. NoWord(ts, o, n + 1, "or", Opened(ts, g - 1))
  BY <1>3 DEF NoWord
<1>13. CallWaitsPart(ts, h, M, new, g, n + 1, o, o)
  BY <1>3, <1>4, <1>9, <1>11, <1>12 DEF CallWaitsPart
<1> QED
  BY <1>7, <1>8, <1>13 DEF CallWaits

\* A comparison is an operand.
LEMMA CompareSound ==
    ASSUME NEW N, NEW M, NEW met, Interprets(N, M, met),
           NEW ts, NEW len \in Nat, len = Len(ts), NEW h, HoldsAt(h, ts, met),
           NEW g \in 1..len, NEW n \in Nat, n + 1 \in 1..len,
           NEW t \in Comparisons, ts[n + 1] = t,
           NEW call \in CallsOf(N), CallWaits(ts, h, M, call, g, n)
    PROVE  CallHas(ts, h, M, Took(call, [op |-> "leaf", leaf |-> t]), g, n + 1)
<1>1. PICK node : node = [op |-> "leaf", leaf |-> t]
  OBVIOUS
<1>2. node \in N /\ (node \in M <=> t \in met)
  BY <1>1 DEF Interprets, Closed
<1>3. PICK e \in (n + 1)..len : e = n + 1
  OBVIOUS
<1>4. h[<<e, e>>] <=> t \in met
  BY <1>3, HoldsLeaf
<1>5. t \notin {"(", ")", "and", "or"}
  BY WordsApart
<1>6. /\ NoWord(ts, n + 1, e, "or", Opened(ts, n)) /\ NoWord(ts, n + 1, e, "and", Opened(ts, n))
      /\ Opened(ts, e) = Opened(ts, n)
      /\ \A k \in (n + 1)..e : Opened(ts, k) >= Opened(ts, n)
  <2>1. \A k \in (n + 1)..e : k = n + 1
    BY <1>3
  <2>2. Opened(ts, n + 1) = Opened(ts, n) /\ Opened(ts, n) \in Int
    BY <1>5, OpenedOne, OpenedType
  <2> QED
    BY <1>3, <1>5, <2>1, <2>2 DEF NoWord
<1>7. node \in M <=> h[<<n + 1, e>>]
  BY <1>2, <1>3, <1>4
<1>8. CallHas(ts, h, M, Took(call, node), g, e)
  BY <1>2, <1>6, <1>7, TookSound
<1> QED
  BY <1>1, <1>3, <1>8

\* So is what a call that returns has read, with its parentheses.
LEMMA CloseSound ==
    ASSUME NEW N, NEW M, NEW met, Interprets(N, M, met),
           NEW ts, NEW len \in Nat, len = Len(ts), NEW h, HoldsAt(h, ts, met),
           NEW g \in 1..len, NEW q \in 1..len, NEW n \in q..len, n + 1 \in 1..len,
           ts[q] = "(", ts[n + 1] = ")",
           NEW call \in CallsOf(N), CallHas(ts, h, M, call, q + 1, n),
           NEW outer \in CallsOf(N), CallWaits(ts, h, M, outer, g, q - 1)
    PROVE  CallHas(ts, h, M, Took(outer, Built(call)), g, n + 1)
<1>1. PICK b \in Nat : b = q - 1 /\ b + 1 = q
  OBVIOUS
<1>2. PICK e \in (b + 1)..len : e = n + 1 /\ e - 1 = n /\ e # q /\ e \in q..len
  BY <1>1
<1>3. q + 1 \in 1..len /\ n \in 1..len
  <2>1. q + 1 \in 1..len
    BY <1>1
  <2> QED
    BY <2>1
<1>4. PICK node \in N : node = Built(call) /\ (node \in M <=> h[<<q + 1, n>>])
  BY <1>3, OrsMean
<1>5. PICK l \in Int : l = Opened(ts, b)
  BY OpenedType
<1>6. Opened(ts, q) = l + 1 /\ Opened(ts, n) = l + 1 /\ \A k \in (q + 1)..n : Opened(ts, k) >= l + 1
  <2>1. Opened(ts, b + 1) = Opened(ts, b) + 1
    BY <1>1, OpenedOne
  <2>2. Opened(ts, q) = l + 1
    BY <1>1, <1>5, <2>1
  <2>3. /\ Opened(ts, n) = Opened(ts, (q + 1) - 1)
        /\ \A k \in (q + 1)..n : Opened(ts, k) >= Opened(ts, (q + 1) - 1)
    BY DEF CallHas, CallStays
  <2>4. (q + 1) - 1 = q
    BY ONLY <1>1
  <2> QED
    BY <2>2, <2>3, <2>4
<1>7. Opened(ts, e) = l
  <2>1. Opened(ts, n + 1) = Opened(ts, n) - 1
    BY OpenedOne
  <2> QED
    BY <1>2, <1>6, <2>1
<1>8. \A k \in q..e : k = q \/ k = e \/ k \in (q + 1)..n
  BY <1>2
<1>9. \A k \in q..e : Opened(ts, k) >= l
  <2> SUFFICES ASSUME NEW k \in q..e PROVE Opened(ts, k) >= l
    OBVIOUS
  <2>1. k = q \/ k = e \/ k \in (q + 1)..n
    BY <1>8
  <2>2. Opened(ts, q) >= l /\ Opened(ts, e) >= l
    BY <1>6, <1>7
  <2>3. ASSUME k \in (q + 1)..n PROVE Opened(ts, k) >= l
    <3>1. PICK m \in Int : m = Opened(ts, k)
      <4>1. k \in Nat
        OBVIOUS
      <4> QED
        BY <4>1, OpenedType
    <3>2. m >= l + 1
      BY <1>6, <2>3, <3>1
    <3> QED
      BY <3>1, <3>2
  <2> QED
    BY <2>1, <2>2, <2>3
<1>10. \A word \in {"or", "and"} : NoWord(ts, q, e, word, l)
  <2> SUFFICES ASSUME NEW word \in {"or", "and"}, NEW k \in q..e, ts[k] = word, Opened(ts, k) = l
               PROVE  FALSE
    BY DEF NoWord
  <2>1. k # q /\ k # e
    BY <1>2
  <2>2. l >= l + 1
    BY <1>6, <1>8, <2>1
  <2> QED
    BY <2>2
<1>11. h[<<q, e>>] <=> h[<<q + 1, n>>]
  <2>1. /\ NoWord(ts, q, e, "or", Opened(ts, q - 1)) /\ NoWord(ts, q, e, "and", Opened(ts, q - 1))
    BY <1>1, <1>5, <1>10
  <2>2. h[<<q, e>>] <=> h[<<q + 1, e - 1>>]
    BY <1>2, <2>1, HoldsParen
  <2> QED
    BY <1>2, <2>2
<1>12. /\ NoWord(ts, b + 1, e, "or", Opened(ts, b)) /\ NoWord(ts, b + 1, e, "and", Opened(ts, b))
       /\ Opened(ts, e) = Opened(ts, b)
       /\ \A k \in (b + 1)..e : Opened(ts, k) >= Opened(ts, b)
       /\ node \in M <=> h[<<b + 1, e>>]
       /\ CallWaits(ts, h, M, outer, g, b)
  BY <1>1, <1>4, <1>5, <1>7, <1>9, <1>10, <1>11
<1>13. CallHas(ts, h, M, Took(outer, node), g, e)
  BY <1>12, TookSound
<1> QED
  BY <1>2, <1>4, <1>13

-----------------------------------------------------------------------------
(* One token, for all the calls that have not returned.                    *)

\* Where each call has begun to read, from the first call to the last.
BeginsAt(ts, n, s, gs) ==
    /\ gs \in [1..(Len(s.outer) + 1) -> 1..(n + 1)]
    /\ gs[1] = 1
    /\ \A m \in 1..Len(s.outer) : gs[m + 1] >= gs[m] + 1 /\ ts[gs[m + 1] - 1] = "("

\* Each has read its part of the text.
Reading(ts, h, M, n, s, gs) ==
    /\ BeginsAt(ts, n, s, gs)
    /\ \A m \in 1..Len(s.outer) : CallWaits(ts, h, M, s.outer[m], gs[m], gs[m + 1] - 2)
    /\ s.wanted => CallWaits(ts, h, M, s.call, gs[Len(s.outer) + 1], n)
    /\ ~s.wanted => CallHas(ts, h, M, s.call, gs[Len(s.outer) + 1], n)

StateReads(ts, h, M, n, s) == s.code = "ok" => \E gs : Reading(ts, h, M, n, s, gs)

\* Tokens of the call under way leave the outer ones alone.
LEMMA SameCalls ==
    ASSUME NEW ts, NEW h, NEW M, NEW n \in Nat, NEW s, NEW r, NEW gs,
           Reading(ts, h, M, n, s, gs), r.outer = s.outer, Len(s.outer) \in Nat,
           r.wanted => CallWaits(ts, h, M, r.call, gs[Len(s.outer) + 1], n + 1),
           ~r.wanted => CallHas(ts, h, M, r.call, gs[Len(s.outer) + 1], n + 1)
    PROVE  \E f : Reading(ts, h, M, n + 1, r, f)
<1>1. BeginsAt(ts, n + 1, r, gs)
  <2>1. gs \in [1..(Len(s.outer) + 1) -> 1..(n + 1)]
    BY DEF Reading, BeginsAt
  <2>2. 1..(n + 1) \subseteq 1..((n + 1) + 1)
    OBVIOUS
  <2>3. gs \in [1..(Len(r.outer) + 1) -> 1..((n + 1) + 1)]
    BY <2>1, <2>2
  <2> QED
    BY <2>3 DEF Reading, BeginsAt
<1>2. Reading(ts, h, M, n + 1, r, gs)
  BY <1>1 DEF Reading
<1> QED
  BY <1>2

\* A call more.
LEMMA OpenReads ==
    ASSUME NEW N, NEW M, NEW ts, NEW len \in Nat, len = Len(ts), NEW h,
           NEW n \in Nat, n + 1 \in 1..len, ts[n + 1] = "(",
           NEW s, ParserTyped(N, s), NEW gs, Reading(ts, h, M, n, s, gs), s.wanted,
           NEW r, r.outer = Append(s.outer, s.call), r.call = NewCall, r.wanted
    PROVE  \E f : Reading(ts, h, M, n + 1, r, f)
<1>1. s.outer \in Seq(CallsOf(N)) /\ s.call \in CallsOf(N)
  BY DEF ParserTyped, ParserStates
<1>2. PICK d \in Nat : d = Len(s.outer)
  BY <1>1, LenProperties
<1>3. /\ Len(r.outer) = d + 1 /\ r.outer[d + 1] = s.call
      /\ \A m \in 1..d : r.outer[m] = s.outer[m]
  BY <1>1, <1>2, AppendProperties
<1>4. /\ gs \in [1..(d + 1) -> 1..(n + 1)] /\ gs[1] = 1
      /\ \A m \in 1..d : gs[m + 1] >= gs[m] + 1 /\ ts[gs[m + 1] - 1] = "("
      /\ \A m \in 1..d : CallWaits(ts, h, M, s.outer[m], gs[m], gs[m + 1] - 2)
      /\ CallWaits(ts, h, M, s.call, gs[d + 1], n)
  BY <1>2 DEF Reading, BeginsAt
<1> DEFINE f == [m \in 1..((d + 1) + 1) |-> IF m = d + 2 THEN n + 2 ELSE gs[m]]
<1>5. /\ f \in [1..((d + 1) + 1) -> 1..((n + 1) + 1)]
      /\ f[(d + 1) + 1] = n + 2
      /\ \A m \in 1..(d + 1) : f[m] = gs[m]
  <2>1. ASSUME NEW m \in 1..((d + 1) + 1)
        PROVE  (IF m = d + 2 THEN n + 2 ELSE gs[m]) \in 1..((n + 1) + 1)
    <3>1. CASE m = d + 2
      BY <3>1
    <3>2. CASE m # d + 2
      <4>1. m \in 1..(d + 1)
        BY <3>2
      <4>2. PICK a \in 1..(n + 1) : a = gs[m]
        BY <1>4, <4>1
      <4> QED
        BY <3>2, <4>2
    <3> QED
      BY <3>1, <3>2
  <2>2. f \in [1..((d + 1) + 1) -> 1..((n + 1) + 1)]
    BY <2>1
  <2>3. (d + 1) + 1 \in 1..((d + 1) + 1) /\ (d + 1) + 1 = d + 2
    OBVIOUS
  <2>4. \A m \in 1..(d + 1) : m \in 1..((d + 1) + 1) /\ m # d + 2
    OBVIOUS
  <2> QED
    BY <2>2, <2>3, <2>4
<1> HIDE DEF f
<1>6. \A m \in 1..(d + 1) : m \in 1..d \/ m = d + 1
  OBVIOUS
<1>7. PICK b \in 1..(n + 1) : b = gs[d + 1]
  BY <1>4
<1>8. ASSUME NEW m \in 1..(d + 1)
      PROVE  /\ f[m + 1] >= f[m] + 1 /\ ts[f[m + 1] - 1] = "("
             /\ CallWaits(ts, h, M, r.outer[m], f[m], f[m + 1] - 2)
  <2>1. CASE m \in 1..d
    <3>1. m + 1 \in 1..(d + 1) /\ m \in 1..(d + 1)
      BY <2>1
    <3>2. f[m + 1] = gs[m + 1] /\ f[m] = gs[m] /\ r.outer[m] = s.outer[m]
      BY <1>3, <1>5, <2>1, <3>1
    <3> QED
      BY <1>4, <2>1, <3>2
  <2>2. CASE m = d + 1
    <3>1. f[m + 1] = n + 2 /\ f[m] = b /\ r.outer[m] = s.call
      BY <1>3, <1>5, <1>7, <2>2
    <3>2. (n + 2) - 1 = n + 1 /\ (n + 2) - 2 = n /\ n + 2 >= b + 1
      BY <1>7
    <3> QED
      BY <1>4, <1>7, <3>1, <3>2
  <2> QED
    BY <1>6, <2>1, <2>2
<1>9. CallWaits(ts, h, M, r.call, f[Len(r.outer) + 1], n + 1)
  <2>1. PICK g \in Nat : g = n + 2 /\ g = (n + 1) + 1
    OBVIOUS
  <2>2. PICK k \in Nat : k = n + 1
    OBVIOUS
  <2>3. CallWaits(ts, h, M, NewCall, g, k)
    BY <2>1, <2>2, NewCallWaits
  <2> QED
    BY <1>3, <1>5, <2>1, <2>2, <2>3
<1>10. f[1] = 1
  BY <1>4, <1>5
<1>11. BeginsAt(ts, n + 1, r, f)
  BY <1>3, <1>5, <1>8, <1>10 DEF BeginsAt
<1>12. Reading(ts, h, M, n + 1, r, f)
  BY <1>3, <1>8, <1>9, <1>11 DEF Reading
<1> QED
  BY <1>12

\* A call less.
LEMMA CloseReads ==
    ASSUME NEW N, NEW M, NEW met, Interprets(N, M, met),
           NEW ts, NEW len \in Nat, len = Len(ts), NEW h, HoldsAt(h, ts, met),
           NEW n \in Nat, n + 1 \in 1..len, ts[n + 1] = ")",
           NEW s, ParserTyped(N, s), NEW gs, Reading(ts, h, M, n, s, gs), ~s.wanted,
           s.outer # <<>>,
           NEW r, r.outer = SubSeq(s.outer, 1, Len(s.outer) - 1), ~r.wanted,
           r.call = Took(s.outer[Len(s.outer)], Built(s.call))
    PROVE  \E f : Reading(ts, h, M, n + 1, r, f)
<1>1. s.outer \in Seq(CallsOf(N)) /\ s.call \in CallsOf(N)
  BY DEF ParserTyped, ParserStates
<1>2. PICK d \in Nat : d + 1 = Len(s.outer) /\ d = Len(s.outer) - 1
  <2>1. PICK c \in Nat : c = Len(s.outer) /\ c # 0
    BY <1>1, LenProperties, EmptySeq
  <2>2. c - 1 \in Nat /\ (c - 1) + 1 = c
    BY <2>1
  <2> QED
    BY <2>1, <2>2
<1>3. Len(r.outer) = d /\ \A m \in 1..d : r.outer[m] = s.outer[m]
  <2>1. \A i \in 1..d : i \in 1..Len(s.outer)
    BY <1>2
  <2>2. \A i \in 1..d : s.outer[i] \in CallsOf(N)
    BY <1>1, <2>1, ElementOfSeq
  <2>3. /\ Len(SubSeq(s.outer, 1, d)) = IF 1 <= d THEN d - 1 + 1 ELSE 0
        /\ \A i \in 1..(d - 1 + 1) : SubSeq(s.outer, 1, d)[i] = s.outer[1 + i - 1]
    BY <1>2, <2>2, SubSeqProperties
  <2>4. r.outer = SubSeq(s.outer, 1, d)
    BY <1>2
  <2>5. Len(r.outer) = IF 1 <= d THEN d - 1 + 1 ELSE 0
    BY <2>3, <2>4
  <2>6. Len(r.outer) = d
    BY ONLY <2>5, d \in Nat
  <2>7. \A i \in 1..d : r.outer[i] = s.outer[1 + i - 1] /\ 1 + i - 1 = i
    BY <2>3, <2>4
  <2> QED
    BY <2>6, <2>7
<1>4. /\ gs \in [1..((d + 1) + 1) -> 1..(n + 1)] /\ gs[1] = 1
      /\ \A m \in 1..(d + 1) : gs[m + 1] >= gs[m] + 1 /\ ts[gs[m + 1] - 1] = "("
      /\ \A m \in 1..(d + 1) : CallWaits(ts, h, M, s.outer[m], gs[m], gs[m + 1] - 2)
      /\ CallHas(ts, h, M, s.call, gs[(d + 1) + 1], n)
  BY <1>2 DEF Reading, BeginsAt
<1>5. PICK c \in CallsOf(N) : c = s.outer[d + 1]
  BY <1>1, <1>2, ElementOfSeq
<1>6. PICK g \in 1..(n + 1), b \in 1..(n + 1) : g = gs[d + 1] /\ b = gs[(d + 1) + 1]
  <2>1. d + 1 \in 1..((d + 1) + 1) /\ (d + 1) + 1 \in 1..((d + 1) + 1)
    OBVIOUS
  <2> QED
    BY <1>4, <2>1
<1>7. b >= g + 1 /\ ts[b - 1] = "(" /\ CallWaits(ts, h, M, c, g, b - 2)
  BY <1>4, <1>5, <1>6
<1>8. \E p : p \in b..n
  BY <1>4, <1>6 DEF CallHas, CallHasPart
<1>9. PICK q \in 1..len : q = b - 1 /\ q + 1 = b /\ q - 1 = b - 2 /\ n \in q..len /\ g \in 1..len
  <2>1. PICK p : p \in b..n
    BY <1>8
  <2>2. b - 1 \in 1..len /\ (b - 1) + 1 = b /\ (b - 1) - 1 = b - 2
        /\ n \in (b - 1)..len /\ g \in 1..len
    <3>1. b <= n /\ n <= len
      BY <2>1
    <3>2. b >= g + 1
      BY <1>7
    <3> QED
      BY ONLY <1>6, <3>1, <3>2, n \in Nat, len \in Nat
  <2> QED
    BY <2>2
<1>10. CallHas(ts, h, M, Took(c, Built(s.call)), g, n + 1)
  <2>1. /\ ts[q] = "(" /\ CallHas(ts, h, M, s.call, q + 1, n)
        /\ CallWaits(ts, h, M, c, g, q - 1)
    BY <1>4, <1>6, <1>7, <1>9
  <2> QED
    BY <1>1, <1>9, <2>1, CloseSound
<1> DEFINE f == [m \in 1..(d + 1) |-> gs[m]]
<1>11. f \in [1..(d + 1) -> 1..((n + 1) + 1)] /\ \A m \in 1..(d + 1) : f[m] = gs[m]
  <2>1. \A m \in 1..(d + 1) : m \in 1..((d + 1) + 1)
    OBVIOUS
  <2>2. 1..(n + 1) \subseteq 1..((n + 1) + 1)
    OBVIOUS
  <2> QED
    BY <1>4, <2>1, <2>2
<1> HIDE DEF f
<1>12. \A m \in 1..d : /\ f[m + 1] >= f[m] + 1 /\ ts[f[m + 1] - 1] = "("
                       /\ CallWaits(ts, h, M, r.outer[m], f[m], f[m + 1] - 2)
  <2> SUFFICES ASSUME NEW m \in 1..d
               PROVE  /\ f[m + 1] >= f[m] + 1 /\ ts[f[m + 1] - 1] = "("
                      /\ CallWaits(ts, h, M, r.outer[m], f[m], f[m + 1] - 2)
    OBVIOUS
  <2>1. m + 1 \in 1..(d + 1) /\ m \in 1..(d + 1)
    OBVIOUS
  <2>2. f[m + 1] = gs[m + 1] /\ f[m] = gs[m] /\ r.outer[m] = s.outer[m]
    BY <1>3, <1>11, <2>1
  <2> QED
    BY <1>4, <2>1, <2>2
<1>13. f[1] = 1 /\ f[d + 1] = g
  BY <1>4, <1>6, <1>11
<1>14. BeginsAt(ts, n + 1, r, f)
  BY <1>3, <1>11, <1>12, <1>13 DEF BeginsAt
<1>15. CallHas(ts, h, M, r.call, f[Len(r.outer) + 1], n + 1)
  BY <1>2, <1>3, <1>5, <1>10, <1>13
<1>16. Reading(ts, h, M, n + 1, r, f)
  BY <1>3, <1>12, <1>14, <1>15 DEF Reading
<1> QED
  BY <1>16

LEMMA StateReadsStep ==
    ASSUME NEW N, NEW M, NEW met, Interprets(N, M, met),
           NEW ts, NEW len \in Nat, len = Len(ts), NEW h, HoldsAt(h, ts, met),
           NEW n \in Nat, n + 1 \in 1..len, NEW t \in Tokens, ts[n + 1] = t,
           NEW s, ParserTyped(N, s), StateReads(ts, h, M, n, s)
    PROVE  StateReads(ts, h, M, n + 1, ParseStep(s, t))
<1>0. Closed(N)
  BY DEF Interprets
<1>1. CASE s.code # "ok"
  BY <1>1 DEF StateReads, ParseStep
<1>2. CASE s.code = "ok"
  <2>1. PICK gs : Reading(ts, h, M, n, s, gs)
    BY <1>2 DEF StateReads
  <2>2. s.outer \in Seq(CallsOf(N)) /\ s.call \in CallsOf(N) /\ s.leaves \in Nat
    BY DEF ParserTyped, ParserStates
  <2>3. PICK d \in Nat : d = Len(s.outer)
    BY <2>2, LenProperties
  <2>4. PICK g \in 1..(n + 1) : g = gs[d + 1]
    <3>1. gs \in [1..(d + 1) -> 1..(n + 1)]
      BY <2>1, <2>3 DEF Reading, BeginsAt
    <3>2. d + 1 \in 1..(d + 1)
      BY ONLY d \in Nat
    <3> QED
      BY ONLY <3>1, <3>2
  <2>5. /\ s.wanted => CallWaits(ts, h, M, s.call, g, n)
        /\ ~s.wanted => CallHas(ts, h, M, s.call, g, n)
    BY <2>1, <2>3, <2>4 DEF Reading
  <2>6. g \in 1..len /\ g \in Nat
    BY <2>4
  <2>7. PICK r : r = ParseStep(s, t)
    OBVIOUS
  <2>8. CASE s.wanted /\ t = "not"
    <3>1. /\ r.wanted /\ r.outer = s.outer /\ r.call.ors = s.call.ors
          /\ r.call.ands = s.call.ands /\ r.call.nots = s.call.nots + 1
      BY <1>2, <2>7, <2>8, StepNot
    <3>2. CallWaits(ts, h, M, r.call, g, n + 1)
      BY <2>5, <2>6, <2>8, <3>1, NotSound
    <3>3. \E f : Reading(ts, h, M, n + 1, r, f)
      BY <2>1, <2>3, <2>4, <3>1, <3>2, SameCalls
    <3> QED
      BY <2>7, <3>3 DEF StateReads
  <2>9. CASE s.wanted /\ t = "(" /\ Len(s.outer) + 2 <= MaxNesting
    <3>1. r.wanted /\ r.outer = Append(s.outer, s.call) /\ r.call = NewCall
      BY <1>2, <2>7, <2>9, StepOpen
    <3>2. \E f : Reading(ts, h, M, n + 1, r, f)
      BY <2>1, <2>9, <3>1, OpenReads
    <3> QED
      BY <2>7, <3>2 DEF StateReads
  <2>10. CASE s.wanted /\ t \in Comparisons /\ s.leaves + 1 <= MaxLeaves
    <3>1. /\ ~r.wanted /\ r.outer = s.outer
          /\ r.call = Took(s.call, [op |-> "leaf", leaf |-> t])
      BY <1>0, <1>2, <2>7, <2>10, StepCompare
    <3>2. CallHas(ts, h, M, r.call, g, n + 1)
      BY <2>2, <2>5, <2>6, <2>10, <3>1, CompareSound
    <3>3. \E f : Reading(ts, h, M, n + 1, r, f)
      BY <2>1, <2>3, <2>4, <3>1, <3>2, SameCalls
    <3> QED
      BY <2>7, <3>3 DEF StateReads
  <2>11. CASE ~s.wanted /\ t = "and"
    <3>1. r.wanted /\ r.outer = s.outer /\ r.call = s.call
      BY <1>2, <2>7, <2>11, StepAnd
    <3>2. CallWaits(ts, h, M, r.call, g, n + 1)
      BY <2>5, <2>6, <2>11, <3>1, AndSound
    <3>3. \E f : Reading(ts, h, M, n + 1, r, f)
      BY <2>1, <2>3, <2>4, <3>1, <3>2, SameCalls
    <3> QED
      BY <2>7, <3>3 DEF StateReads
  <2>12. CASE ~s.wanted /\ t = "or"
    <3>1. r.wanted /\ r.outer = s.outer /\ r.call = AndOver(s.call)
      BY <1>0, <1>2, <2>7, <2>12, StepOr
    <3>2. \E p : p \in g..n
      BY <2>5, <2>12 DEF CallHas, CallHasPart
    <3>3. n \in 1..len
      BY <2>6, <3>2
    <3>4. CallWaits(ts, h, M, r.call, g, n + 1)
      BY <2>2, <2>5, <2>6, <2>12, <3>1, <3>3, OrSound
    <3>5. \E f : Reading(ts, h, M, n + 1, r, f)
      BY <2>1, <2>3, <2>4, <3>1, <3>4, SameCalls
    <3> QED
      BY <2>7, <3>5 DEF StateReads
  <2>13. CASE ~s.wanted /\ t = ")" /\ s.outer # <<>>
    <3>1. /\ ~r.wanted /\ r.outer = SubSeq(s.outer, 1, Len(s.outer) - 1)
          /\ r.call = Took(s.outer[Len(s.outer)], Built(s.call))
      BY <1>0, <1>2, <2>7, <2>13, StepClose
    <3>2. \E f : Reading(ts, h, M, n + 1, r, f)
      BY <2>1, <2>13, <3>1, CloseReads
    <3> QED
      BY <2>7, <3>2 DEF StateReads
  <2>14. CASE \/ s.wanted /\ t = "(" /\ Len(s.outer) + 2 > MaxNesting
              \/ s.wanted /\ t \in Comparisons /\ s.leaves + 1 > MaxLeaves
              \/ s.wanted /\ ~Begins(t)
              \/ ~s.wanted /\ t \notin {"and", "or", ")"}
              \/ ~s.wanted /\ t = ")" /\ s.outer = <<>>
    <3>1. \/ r = [s EXCEPT !.code = "filter_too_large"]
          \/ r = [s EXCEPT !.code = "syntax_error"]
      BY <1>2, <2>7, <2>14, StepRefused, Zenon
    <3>2. r.code # "ok"
      BY <3>1 DEF ParserTyped, ParserStates
    <3> QED
      BY <2>7, <3>2 DEF StateReads
  <2>15. /\ Len(s.outer) + 2 <= MaxNesting \/ Len(s.outer) + 2 > MaxNesting
         /\ s.leaves + 1 <= MaxLeaves \/ s.leaves + 1 > MaxLeaves
    BY <2>2, <2>3, WordsApart
  <2>16. Begins(t) => t \in {"not", "("} \/ t \in Comparisons
    BY DEF Begins
  <2> QED
    BY <2>8, <2>9, <2>10, <2>11, <2>12, <2>13, <2>14, <2>15, <2>16
<1> QED
  BY <1>1, <1>2

LEMMA ReadsMean ==
    ASSUME NEW N, NEW M, NEW met, Interprets(N, M, met),
           NEW ts \in Seq(Tokens), NEW h, HoldsAt(h, ts, met),
           NEW g, Reads(g, Len(ts), ts)
    PROVE  \A n \in 0..Len(ts) : StateReads(ts, h, M, n, g[n])
<1> DEFINE T == {n \in Nat : n <= Len(ts) => StateReads(ts, h, M, n, g[n])}
<1>0. Closed(N)
  BY DEF Interprets
<1>1. PICK len \in Nat : len = Len(ts)
  BY LenProperties
<1>2. /\ g[0] = ParseInit
      /\ \A m \in 0..(len - 1) : g[m + 1] = ParseStep(g[m], ts[m + 1])
  BY <1>1, ReadsSteps
<1>3. 0 \in T
  <2>1. PICK s : s = ParseInit
    OBVIOUS
  <2>2. s.wanted /\ s.outer = <<>> /\ s.call = NewCall
    BY <2>1 DEF ParseInit
  <2>3. Len(s.outer) = 0
    BY <2>2, EmptySeq
  <2> DEFINE f == [m \in 1..(0 + 1) |-> 1]
  <2>4. f \in [1..(0 + 1) -> 1..(0 + 1)] /\ f[1] = 1 /\ f[0 + 1] = 1
    OBVIOUS
  <2> HIDE DEF f
  <2>5. CallWaits(ts, h, M, NewCall, 1, 0)
    <3>1. PICK n \in Nat, b \in Nat : n = 0 /\ b = 1 /\ b = n + 1
      OBVIOUS
    <3>2. CallWaits(ts, h, M, NewCall, b, n)
      BY <3>1, NewCallWaits
    <3> QED
      BY <3>1, <3>2
  <2>6. BeginsAt(ts, 0, s, f)
    BY <2>3, <2>4 DEF BeginsAt
  <2>7. Reading(ts, h, M, 0, s, f)
    BY <2>2, <2>3, <2>4, <2>5, <2>6 DEF Reading
  <2> QED
    BY <1>2, <2>1, <2>7 DEF StateReads
<1>4. ASSUME NEW n \in Nat, n \in T PROVE n + 1 \in T
  <2>1. SUFFICES ASSUME n + 1 <= len PROVE StateReads(ts, h, M, n + 1, g[n + 1])
    BY <1>1
  <2>2. StateReads(ts, h, M, n, g[n])
    BY <1>1, <1>4, <2>1
  <2>3. n \in 0..(len - 1) /\ n + 1 \in 1..len /\ n \in 0..Len(ts)
    BY <1>1, <2>1
  <2>4. g[n + 1] = ParseStep(g[n], ts[n + 1])
    BY <1>2, <2>3
  <2>5. PICK t \in Tokens : t = ts[n + 1]
    BY <1>1, <2>3, ElementOfSeq
  <2>6. ParserTyped(N, g[n])
    BY <1>0, <2>3, ReadAll
  <2>7. StateReads(ts, h, M, n + 1, ParseStep(g[n], t))
    BY <1>1, <2>2, <2>3, <2>5, <2>6, StateReadsStep
  <2> QED
    BY <2>4, <2>5, <2>7
<1> HIDE DEF T
<1>5. Nat \subseteq T
  BY <1>3, <1>4, NumberInduction
<1> QED
  BY <1>1, <1>5 DEF T

-----------------------------------------------------------------------------

\* For every text, and every interpretation of the filters where the
\* comparisons in met hold and the others do not (there is one): the filter
\* that the parser returns for an accepted text (parse) holds just where the
\* text does, or binding least, then and, then not.
THEOREM ParserMeaning ==
    \A ts \in Seq(Tokens), length \in Nat, met \in SUBSET Comparisons :
        /\ \E N, M : Interprets(N, M, met)
        /\ \A N, M : Interprets(N, M, met) /\ Accepted(Parse(ts, length)) =>
               /\ Parse(ts, length).node \in N
               /\ Parse(ts, length).node \in M <=> Holds(ts, met)
<1>e. ASSUME NEW met PROVE \E N, M : Interprets(N, M, met)
  BY FiltersHaveMeaning
<1> SUFFICES ASSUME NEW ts \in Seq(Tokens), NEW length \in Nat, NEW met, NEW N, NEW M,
                    Interprets(N, M, met), Accepted(Parse(ts, length))
             PROVE  /\ Parse(ts, length).node \in N
                    /\ Parse(ts, length).node \in M <=> Holds(ts, met)
  BY <1>e
<1>0. Closed(N)
  BY DEF Interprets
<1>1. PICK g : Reads(g, Len(ts), ts) /\ ReadThrough(ts) = ParseEnds(g[Len(ts)])
  BY ParseReads
<1>2. PICK h : HoldsAt(h, ts, met) /\ Holds(ts, met) = h[<<1, Len(ts)>>]
  BY HoldsByParts
<1>3. PICK len \in Nat : len = Len(ts)
  BY LenProperties
<1>4. PICK s : s = g[len]
  OBVIOUS
<1>5. ParserTyped(N, s) /\ StateReads(ts, h, M, len, s)
  <2>1. len \in 0..Len(ts)
    BY <1>3
  <2>2. ParserTyped(N, g[len])
    BY <1>0, <1>1, <2>1, ReadAll
  <2>3. StateReads(ts, h, M, len, g[len])
    BY <1>1, <1>2, <2>1, ReadsMean
  <2> QED
    BY <1>4, <2>2, <2>3
<1>6. s.code \in {"ok", "syntax_error", "filter_too_large"} /\ s.call \in CallsOf(N)
  BY <1>5 DEF ParserTyped, ParserStates
<1>7. PICK r : r = Parse(ts, length)
  OBVIOUS
<1>8. ts # <<>> /\ s.code = "ok" /\ ~s.wanted /\ s.outer = <<>> /\ r = Parsed(Built(s.call))
  <2>1. r.code = "ok"
    BY <1>7 DEF Accepted
  <2>2. ts # <<>>
    <3>1. ts = <<>> => r = Refused("empty_input")
      BY <1>7, Zenon DEF Parse
    <3> QED
      BY <2>1, <3>1 DEF Refused
  <2>0. r = ParseEnds(s)
    <3>1. ts # <<>> /\ length > MaxLength => r = Refused("filter_too_large")
      BY <1>7, Zenon DEF Parse
    <3>2. r = ReadThrough(ts)
      BY <1>7, <2>1, <2>2, <3>1 DEF Parse, Refused
    <3> QED
      BY <1>1, <1>3, <1>4, <3>2
  <2>3. s.code = "ok"
    <3>1. s.code # "ok" => r = Refused(s.code)
      BY <2>0, Zenon DEF ParseEnds
    <3> QED
      BY <2>1, <3>1 DEF Refused
  <2>4. ~(s.wanted \/ s.outer # <<>>)
    <3>1. s.wanted \/ s.outer # <<>> => r = Refused("syntax_error")
      BY <2>0, <2>3, Zenon DEF ParseEnds
    <3> QED
      BY <2>1, <3>1 DEF Refused
  <2>5. r = Parsed(Built(s.call))
    BY <2>0, <2>3, <2>4, Zenon DEF ParseEnds
  <2> QED
    BY <2>2, <2>3, <2>4, <2>5
<1>9. CallHas(ts, h, M, s.call, 1, len)
  <2>1. PICK gs : Reading(ts, h, M, len, s, gs)
    BY <1>5, <1>8 DEF StateReads
  <2>2. Len(s.outer) = 0 /\ 0 + 1 = 1
    BY <1>8, EmptySeq
  <2>3. gs[1] = 1
    BY <2>1 DEF Reading, BeginsAt
  <2>4. CallHas(ts, h, M, s.call, gs[Len(s.outer) + 1], len)
    BY <1>8, <2>1 DEF Reading
  <2> QED
    BY <2>2, <2>3, <2>4
<1>10. len # 0
  BY <1>3, <1>8, EmptySeq
<1>11. Built(s.call) \in N /\ (Built(s.call) \in M <=> h[<<1, len>>])
  <2>1. 1 \in 1..len /\ len \in 1..len
    BY <1>10
  <2> QED
    BY <1>2, <1>3, <1>6, <1>9, <2>1, OrsMean
<1>12. r.node = Built(s.call)
  BY <1>8 DEF Parsed
<1> QED
  BY <1>2, <1>3, <1>7, <1>11, <1>12
=============================================================================
