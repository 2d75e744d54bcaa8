------------------------------- MODULE Search -------------------------------
(* The retriever of one gateway process (backend/retriever): a search is   *)
(* answered from the warm cache or by neural, keyword or fused retrieval   *)
(* over the index entries, in memory or in OpenSearch if that answered when *)
(* the process started, with provenance thresholds.  RetrieverService is   *)
(* synchronous, so a search is one step of the event loop; documents are   *)
(* re-indexed between searches and cached answers grow old.  One query is  *)
(* modelled: how well a text answers it is a property of the text.         *)
EXTENDS Integers, Sequences, SequencesExt, FiniteSets, FiniteSetsExt

CONSTANTS
    SearchDocs,     \* document ids, in their order: 1..n
    SearchTexts,    \* texts: [neural, keyword, cred], keyword 0 for no match
    SearchTenants,
    Wanted,         \* the num_results asked for
    Thresholds,     \* the min_credibility asked for, 0 for none
    SearchTtl,      \* ttl_seconds of the warm cache
    MaxTexts,       \* bound: texts indexed, of all documents
    MaxWarm,        \* bound: entries in the warm cache
    LastSecond      \* bound on time

ASSUME SearchAssumption ==
    /\ SearchDocs \subseteq Nat /\ IsFiniteSet(SearchDocs)
    /\ SearchTexts \subseteq [neural : Int, keyword : Int, cred : Nat]
    /\ Wanted \subseteq Nat \ {0}
    /\ SearchTtl \in Nat /\ MaxTexts \in Nat
    /\ MaxWarm \in Nat /\ LastSecond \in Nat

VARIABLES
    versions,       \* [SearchDocs -> the texts indexed for it, oldest first]
    warm,           \* _store: the entries of the warm cache, one per key
    clustered,      \* whether OpenSearch is available to this process
    stored,         \* the entries of its documents index
    indexVersion,   \* [SearchTenants -> _index_versions]
    response,       \* the last answer given, with its request
    second

searchVars == <<versions, warm, clustered, stored, indexVersion, response, second>>

\* The tenant_id of a search of the research agent, and of every entry in
\* OpenSearch.
NoTenant == ""

Requesters == SearchTenants \cup {NoTenant}

Modes == {"neural", "keyword", "hybrid"}

NoAnswer == [kind |-> "none"]

SearchInit ==
    /\ versions = [d \in SearchDocs |-> <<>>]
    /\ warm = {}
    /\ clustered \in BOOLEAN /\ stored = {}
    /\ indexVersion = [t \in Requesters |-> 1]
    /\ response = NoAnswer
    /\ second = 0

-----------------------------------------------------------------------------
(* Ranking: a candidate is a document, a version of it and a score.        *)

Candidate(d, v, s) == [doc |-> d, version |-> v, score |-> s]

Before(a, b) ==
    \/ a.score > b.score
    \/ a.score = b.score /\ a.doc < b.doc
    \/ a.score = b.score /\ a.doc = b.doc /\ a.version < b.version

Ahead(c, S) == Cardinality({b \in S : Before(b, c)})

\* Sorted and cut: behind k - 1 others comes the k-th.
Ranked(S, n) ==
    [k \in 1..Min({n, Cardinality(S)}) |-> CHOOSE c \in S : Ahead(c, S) = k - 1]

Indexed == {d \in SearchDocs : versions[d] # <<>>}

\* NeuralRetriever: of a document's entries the first one written is kept.
Neural(n, except) ==
    Ranked({Candidate(d, 1, versions[d][1].neural) : d \in Indexed \ except}, n)

\* KeywordRetriever: of a document's entries the one of the highest version;
\* only what matches at all.
Keyword(n) ==
    LET S == {Candidate(d, Len(versions[d]), Last(versions[d]).keyword) :
                 d \in Indexed}
    IN  Ranked({c \in S : c.score > 0}, n)

\* 1/(60 + rank), brought to a common denominator for the ranks that occur.
Rrf(r) == (61 * 62 * 63 * 64) \div (60 + r)

DocsIn(list) == {list[i].doc : i \in DOMAIN list}

\* A ranked list has a document once.
PlaceIn(d, list) == CHOOSE i \in DOMAIN list : list[i].doc = d

RankOf(d, list) == IF d \in DocsIn(list) THEN Rrf(PlaceIn(d, list)) ELSE 0

VersionIn(d, list) == list[PlaceIn(d, list)].version

FusedPerVersion(neural, keyword) ==
    {Candidate(neural[i].doc, neural[i].version, Rrf(i)) : i \in DOMAIN neural}
        \cup {Candidate(keyword[i].doc, keyword[i].version, Rrf(i)) : i \in DOMAIN keyword}

\* reciprocal_rank_fusion: one candidate a document, the neural list's version
\* if it is in it.
Fused(neural, keyword) ==
    {Candidate(d, VersionIn(d, IF d \in DocsIn(neural) THEN neural ELSE keyword),
               RankOf(d, neural) + RankOf(d, keyword)) :
        d \in DocsIn(neural) \cup DocsIn(keyword)}

Hybrid(n) == Ranked(Fused(Neural(n, {}), Keyword(n)), n)

\* _execute_retrieval on the in-memory indexes, with twice what was asked.
Retrieve(mode, n) ==
    CASE mode = "neural"  -> Neural(2 * n, {})
      [] mode = "keyword" -> Keyword(2 * n)
      [] mode = "hybrid"  -> Hybrid(2 * n)

-----------------------------------------------------------------------------
(* OpenSearch: an entry for every version, so a document may be hit twice. *)

\* The filter on the tenant, left out for a search without one.
Visible(t) == {e \in stored : t = NoTenant \/ e.tenant = t}

VectorHits(t, n) ==
    Ranked({Candidate(e.doc, e.version, versions[e.doc][e.version].neural) :
                e \in Visible(t)}, n)

KeywordHits(t, n) ==
    LET S == {Candidate(e.doc, e.version, versions[e.doc][e.version].keyword) :
                 e \in Visible(t)}
    IN  Ranked({c \in S : c.score > 0}, n)

Hits(c, list) == {i \in DOMAIN list : list[i].doc = c.doc /\ list[i].version = c.version}

RankIn(c, list) == IF Hits(c, list) = {} THEN 0 ELSE Rrf(CHOOSE i \in Hits(c, list) : TRUE)

\* hybrid_search fuses by document and version.
FusedHits(vector, keyword) ==
    {Candidate(c.doc, c.version, RankIn(c, vector) + RankIn(c, keyword)) :
        c \in ToSet(vector) \cup ToSet(keyword)}

\* A query that raises (a timeout, no connection) has no hits, as far as its
\* caller can tell; up is the set of queries that are answered.
RetrieveHits(t, mode, n, up) ==
    LET vector(k)  == IF "vector" \in up THEN VectorHits(t, k) ELSE <<>>
        keyword(k) == IF "keyword" \in up THEN KeywordHits(t, k) ELSE <<>>
    IN CASE mode = "neural"  -> vector(2 * n)
         [] mode = "keyword" -> keyword(2 * n)
         [] mode = "hybrid"  -> Ranked(FusedHits(vector(4 * n), keyword(4 * n)), 2 * n)

\* What a search retrieves: in memory, or whatever OpenSearch answers.
Retrievals(t, mode, n) ==
    IF clustered
    THEN {RetrieveHits(t, mode, n, up) : up \in SUBSET {"vector", "keyword"}}
    ELSE {Retrieve(mode, n)}

-----------------------------------------------------------------------------

TextOf(c) == versions[c.doc][c.version]

\* apply_threshold_filters: a credibility equal to the threshold passes.
Credible(list, min) == {c \in ToSet(list) : TextOf(c).cred >= min}

\* Filter, order, cut.
Finish(list, min, n) == Ranked(Credible(list, min), n)

-----------------------------------------------------------------------------
(* The warm cache.                                                         *)

\* _make_key: tenant, query, mode, filters, pipeline and num_results.
Key(t, mode, n) == [tenant |-> t, mode |-> mode, n |-> n]

Fresh(e) == second - e.at <= SearchTtl

\* put replaces the entry of its key; get drops an entry that is too old.
Put(e) == {f \in warm : f.key # e.key} \cup {e}

\* What the request is answered with, from an entry old or new.
Response(t, mode, n, min, hit, e) ==
    [kind |-> "search", tenant |-> t, mode |-> mode, n |-> n, min |-> min, hit |-> hit,
     at |-> e.at, by |-> e.by, index |-> indexVersion[t], results |-> e.results]

SearchHit(t, mode, n, min) ==
    \E e \in warm :
        /\ e.key = Key(t, mode, n) /\ Fresh(e)
        /\ response' = Response(t, mode, n, min, TRUE, e)
        /\ UNCHANGED <<versions, warm, clustered, stored, indexVersion, second>>

SearchMiss(t, mode, n, min) ==
    /\ ~\E e \in warm : e.key = Key(t, mode, n) /\ Fresh(e)
    /\ Cardinality(warm) < MaxWarm \/ \E e \in warm : e.key = Key(t, mode, n)
    /\ \E list \in Retrievals(t, mode, n) :
        LET e == [key |-> Key(t, mode, n), at |-> second, by |-> t,
                  results |-> Finish(list, min, n)]
        IN /\ warm' = Put(e)
           /\ response' = Response(t, mode, n, min, FALSE, e)
    /\ UNCHANGED <<versions, clustered, stored, indexVersion, second>>

\* find_similar: the newest text of the document is the query, the document
\* itself is left out; nothing is cached.
FindSimilar(t, d, n) ==
    /\ d \in Indexed
    /\ response' = [kind |-> "similar", tenant |-> t, mode |-> "neural", n |-> n,
                    min |-> 0, hit |-> FALSE, at |-> second, by |-> t, of |-> d,
                    index |-> indexVersion[t],
                    results |-> Finish(Neural(2 * n, {d}), 0, n)]
    /\ UNCHANGED <<versions, warm, clustered, stored, indexVersion, second>>

TextsIndexed == UNION {{d} \X DOMAIN versions[d] : d \in SearchDocs}

\* Documents are indexed and re-indexed without a word to the retriever; the
\* write to OpenSearch may fail, unnoticed.
Reindex(d, x) ==
    /\ Cardinality(TextsIndexed) < MaxTexts
    /\ versions' = [versions EXCEPT ![d] = Append(@, x)]
    /\ \/ clustered
          /\ stored' = stored \cup
                 {[doc |-> d, version |-> Len(versions'[d]), tenant |-> NoTenant]}
       \/ UNCHANGED stored
    /\ response' = NoAnswer
    /\ UNCHANGED <<warm, clustered, indexVersion, second>>

\* invalidate and increment_index_version: nothing in the gateway calls them.
InvalidateTenant(t) ==
    /\ warm' = {e \in warm : e.key.tenant # t}
    /\ response' = NoAnswer
    /\ UNCHANGED <<versions, clustered, stored, indexVersion, second>>

IncrementIndexVersion(t) ==
    /\ indexVersion[t] < 2
    /\ indexVersion' = [indexVersion EXCEPT ![t] = @ + 1]
    /\ response' = NoAnswer
    /\ UNCHANGED <<versions, warm, clustered, stored, second>>

SecondPasses ==
    /\ second < LastSecond
    /\ second' = second + 1
    /\ response' = NoAnswer
    /\ UNCHANGED <<versions, warm, clustered, stored, indexVersion>>

SearchNext ==
    \/ \E t \in Requesters, mode \in Modes, n \in Wanted, min \in Thresholds :
          \/ SearchHit(t, mode, n, min)
          \/ SearchMiss(t, mode, n, min)
    \/ \E t \in SearchTenants, d \in SearchDocs, n \in Wanted : FindSimilar(t, d, n)
    \/ \E d \in SearchDocs, x \in SearchTexts : Reindex(d, x)
    \/ \E t \in SearchTenants : InvalidateTenant(t)
    \/ \E t \in SearchTenants : IncrementIndexVersion(t)
    \/ SecondPasses

SearchSpec == SearchInit /\ [][SearchNext]_searchVars

-----------------------------------------------------------------------------

SearchTypeOK ==
    /\ versions \in [SearchDocs -> Seq(SearchTexts)]
    /\ \A e \in warm : e.key \in [tenant : Requesters, mode : Modes, n : Wanted]
    /\ \A e, f \in warm : e.key = f.key => e = f
    /\ indexVersion \in [Requesters -> Nat]
    /\ second \in 0..LastSecond

\* What any answer can rely on, from the cache or not, in whatever mode and
\* however often a document was re-indexed or OpenSearch failed: no more than
\* asked for, in the strict order, none twice, versions that exist, never the
\* document that was asked about; worked out for the tenant's own request, at
\* most SearchTtl ago.  Answers from memory have no document twice, and lack
\* none that the cuts leave room for; those from OpenSearch have no entry but
\* the tenant's own, where a tenant is given.
ResultsSound ==
    response.kind # "none" =>
        LET r == response.results
            remote == clustered /\ response.kind = "search"
        IN  /\ Len(r) <= response.n
            /\ \A i, j \in DOMAIN r : i < j => Before(r[i], r[j])
            /\ \A i \in DOMAIN r : r[i].version \in DOMAIN versions[r[i].doc]
            /\ response.kind = "similar" => response.of \notin DocsIn(r)
            /\ response.by = response.tenant
            /\ second - response.at <= SearchTtl
            /\ ~remote => Cardinality(DocsIn(r)) = Len(r)
            /\ ~remote /\ ~response.hit /\ response.min = 0 /\ response.kind = "search"
                   /\ response.mode # "keyword" =>
                   Len(r) = Min({response.n, Cardinality(Indexed)})
            /\ remote /\ response.tenant # NoTenant =>
                   \A i \in DOMAIN r : \E e \in stored :
                       e.doc = r[i].doc /\ e.version = r[i].version
                           /\ e.tenant = response.tenant

\* R10.3 as filters.py states it: documents with a credibility below the
\* min_credibility of the request are excluded.
ThresholdHonoured ==
    response.kind = "search" =>
        \A i \in DOMAIN response.results :
            TextOf(response.results[i]).cred >= response.min
=============================================================================
