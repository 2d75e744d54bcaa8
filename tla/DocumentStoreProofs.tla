------------------------- MODULE DocumentStoreProofs -------------------------
(* What DocumentStore guarantees for every set of URLs, texts, document    *)
(* ids and requests, however many restarts and failures there are.         *)
EXTENDS DocumentStore, SequenceTheorems, TLAPS

USE ConstantsAssumption DEF ConstantsAssumption
USE NoRowAssumption

-----------------------------------------------------------------------------
(* The inductive invariant.  The three parts about a URL need a fourth:    *)
(* that no two URLs ever lay claim to one document id.                     *)

\* u's id in memory, in its row, in the row read, or in a write under way.
Claims(u, id) ==
    \/ urlToDocId[u] = id
    \/ table[u] # NoRow /\ table[u].id = id
    \/ load.pc = "fetched" /\ load.rows[u] # NoRow /\ load.rows[u].id = id
    \/ \E r \in Requests : Persisting(r, u) /\ request[r].id = id

OneOwner ==
    /\ \A u, v \in Urls, id \in Ids : Claims(u, id) /\ Claims(v, id) => u = v
    /\ \A u \in Urls, id \in Ids : Claims(u, id) => \E e \in issued : e.id = id

\* A known URL has a latest version, indexed and with a hash it can have.
Searchable(u) ==
    Known(u) =>
        /\ documents[urlToDocId[u]] # <<>>
        /\ Entry(urlToDocId[u], LatestVersion(u), Latest(u).text) \in index
        /\ Latest(u).hash \in {Latest(u).text, Loaded}

\* A write under way is of the latest version, and the row is one behind
\* at most; q has it to itself.
WriteInSync(q, u) ==
    /\ Known(u)
    /\ request[q].id = urlToDocId[u]
    /\ request[q].version = LatestVersion(u)
    /\ request[q].text = Latest(u).text
    /\ table[u] # NoRow =>
          /\ table[u].id = urlToDocId[u]
          /\ table[u].version + 1 >= LatestVersion(u)
    /\ \A r \in Requests : Persisting(r, u) => r = q

\* The body of MemoryMatchesTable.
RowInSync(u) ==
    /\ Known(u) <=> table[u] # NoRow
    /\ Known(u) =>
          /\ table[u].id = urlToDocId[u]
          /\ table[u].text = Latest(u).text
          /\ table[u].version >= LatestVersion(u)

NoWrite(u) == \A r \in Requests : ~Persisting(r, u)

InSync(u) ==
    /\ load.pc # "done" => ~Known(u) /\ NoWrite(u)
    /\ load.pc = "fetched" => load.rows[u] = table[u]
    /\ load.pc = "done" =>
          /\ \A q \in Requests : Persisting(q, u) => WriteInSync(q, u)
          /\ NoWrite(u) => RowInSync(u)

DocInv ==
    /\ TypeOK
    /\ OneOwner
    /\ \A u \in Urls : Searchable(u)
    /\ \A u \in Urls \ unsynced : InSync(u)

-----------------------------------------------------------------------------
(* Types.                                                                  *)

LEMMA TypeInit == Init => TypeOK
<1> SUFFICES ASSUME Init
             PROVE  TypeOK
  OBVIOUS
<1>1. documents \in [Ids -> Seq(Version)]
  BY EmptySeq DEF Init, NothingIn
<1> QED
  BY <1>1 DEF Init, TypeOK, NothingIn, LoadStates, RequestStates, Idle

LEMMA LatestType ==
    ASSUME TypeOK, NEW u \in Urls, Searchable(u), Known(u)
    PROVE  /\ urlToDocId[u] \in Ids
           /\ Latest(u) \in Version
           /\ LatestVersion(u) \in Nat
<1>1. urlToDocId[u] \in Ids
  BY DEF TypeOK, Known
<1>2. documents[urlToDocId[u]] \in Seq(Version) /\ documents[urlToDocId[u]] # <<>>
  BY <1>1 DEF TypeOK, Searchable
<1>3. Latest(u) \in Version
  BY <1>2, LenProperties DEF Latest, Last
<1> QED
  BY <1>1, <1>3 DEF LatestVersion, Version

LEMMA PersistingType ==
    ASSUME TypeOK, NEW r \in Requests, request[r].pc = "persisting"
    PROVE  /\ request[r].url \in Urls /\ request[r].id \in Ids
           /\ request[r].version \in Nat /\ request[r].text \in Texts
  BY DEF TypeOK, RequestStates, Idle, Done

LEMMA FetchedType ==
    ASSUME TypeOK, load.pc = "fetched"
    PROVE  load.rows \in [Urls -> Row \cup {NoRow}]
  BY DEF TypeOK, LoadStates, Done

\* What awaiting the upsert does to the types, whatever branch came before.
LEMMA AwaitPersistType ==
    ASSUME TypeOK, NEW r \in Requests, NEW u \in Urls, NEW id \in Ids,
           NEW n \in Nat, NEW t \in Texts, AwaitPersist(r, u, id, n, t)
    PROVE  /\ request' \in [Requests -> RequestStates]
           /\ load' \in LoadStates
           /\ unsynced' \subseteq Urls /\ disturbed' \subseteq Urls
           /\ table' = table
<1>1. [pc |-> "persisting", url |-> u, id |-> id, version |-> n, text |-> t] \in RequestStates
  BY DEF RequestStates
<1>2. request' \in [Requests -> RequestStates]
  BY <1>1 DEF AwaitPersist, TypeOK
<1>3. load' \in LoadStates
  BY DEF AwaitPersist, StartedLoad, TypeOK, LoadStates
<1> QED
  BY <1>2, <1>3 DEF AwaitPersist, Disturb, TypeOK

-----------------------------------------------------------------------------
(* index_document, in all three branches.                                  *)

Ingest(r, u, t) ==
    \/ IngestSame(r, u, t)
    \/ IngestChanged(r, u, t)
    \/ \E id \in Ids : IngestNew(r, u, t, id)

\* What v is known by stays as it is.
Keeps(v) ==
    /\ urlToDocId'[v] = urlToDocId[v]
    /\ Known(v) => documents'[urlToDocId[v]] = documents[urlToDocId[v]]

LEMMA KeptLatest ==
    ASSUME NEW v, Keeps(v)
    PROVE  /\ Known(v)' <=> Known(v)
           /\ Known(v) => Latest(v)' = Latest(v) /\ LatestVersion(v)' = LatestVersion(v)
  BY DEF Keeps, Known, Latest, LatestVersion

LEMMA AppendedLast ==
    ASSUME NEW S, NEW s \in Seq(S), NEW x \in S
    PROVE  /\ Append(s, x) \in Seq(S) /\ Append(s, x) # <<>>
           /\ Last(Append(s, x)) = x
  BY AppendProperties, LenProperties DEF Last

LEMMA LastOfOne == ASSUME NEW x PROVE <<x>> # <<>> /\ Last(<<x>>) = x
  BY DEF Last

\* The three branches: nothing new, the next version, a new document.
IngestEffect(u, t, id, n) ==
    \/ /\ Known(u) /\ id = urlToDocId[u]
       /\ n = LatestVersion(u) /\ t = Latest(u).text
       /\ UNCHANGED <<documents, index, issued>>
    \/ /\ Known(u) /\ id = urlToDocId[u] /\ n = LatestVersion(u) + 1
       /\ documents' = [documents EXCEPT ![id] = Append(@, NewVersion(u, n, t))]
       /\ index' = WriteIndexes({Entry(id, n, t)})
       /\ issued' = issued \cup {Entry(id, n, t)}
    \/ /\ ~Known(u) /\ n = 1
       /\ \A e \in issued : e.id # id
       /\ documents' = [documents EXCEPT ![id] = <<NewVersion(u, n, t)>>]
       /\ index' = WriteIndexes({Entry(id, n, t)})
       /\ issued' = issued \cup {Entry(id, n, t)}

\* Every branch leaves u known by the id, version and text it persists.
IngestOutcome(r, u, t, id, n) ==
    /\ AwaitPersist(r, u, id, n, t)
    /\ request[r] = Idle
    /\ urlToDocId' = [urlToDocId EXCEPT ![u] = id]
    /\ \E versions \in Seq(Version) :
          /\ versions # <<>>
          /\ Last(versions).version = n
          /\ Last(versions).text = t
          /\ Last(versions).hash \in {t, Loaded}
          /\ documents' = [documents EXCEPT ![id] = versions]
    /\ index' \in {index, WriteIndexes({Entry(id, n, t)})}
    /\ Entry(id, n, t) \in index'
    /\ issued' \in {issued, issued \cup {Entry(id, n, t)}}
    /\ \/ /\ Known(u)
          /\ id = urlToDocId[u]
          /\ n \in {LatestVersion(u), LatestVersion(u) + 1}
       \/ /\ ~Known(u)
          /\ \A e \in issued : e.id # id
          /\ Entry(id, n, t) \in issued'
          /\ n = 1
    /\ IngestEffect(u, t, id, n)

LEMMA IngestOutcomes ==
    ASSUME DocInv, NEW r \in Requests, NEW u \in Urls, NEW t \in Texts, Ingest(r, u, t)
    PROVE  \E id \in Ids, n \in Nat : IngestOutcome(r, u, t, id, n)
<1>1. TypeOK /\ Searchable(u)
  BY DEF DocInv
<1>2. ASSUME IngestSame(r, u, t)
      PROVE  \E id \in Ids, n \in Nat : IngestOutcome(r, u, t, id, n)
  <2>1. Known(u) /\ Latest(u).hash = t
    BY <1>2 DEF IngestSame, SameHash
  <2>2. urlToDocId[u] \in Ids /\ Latest(u) \in Version /\ LatestVersion(u) \in Nat
    BY <1>1, <2>1, LatestType
  <2>3. Latest(u).text = t
    BY <1>1, <2>1 DEF Searchable
  <2> DEFINE id == urlToDocId[u]  versions == documents[id]
  <2>4. /\ versions \in Seq(Version) /\ versions # <<>>
        /\ Last(versions) = Latest(u)
        /\ Entry(id, LatestVersion(u), t) \in index
    BY <1>1, <2>1, <2>2, <2>3 DEF TypeOK, Searchable, Latest
  <2>5. /\ urlToDocId' = [urlToDocId EXCEPT ![u] = id]
        /\ documents' = [documents EXCEPT ![id] = versions]
    BY <1>1, <1>2 DEF IngestSame, TypeOK
  <2>6. /\ AwaitPersist(r, u, id, LatestVersion(u), t)
        /\ request[r] = Idle /\ index' = index /\ issued' = issued
    BY <1>2 DEF IngestSame
  <2> HIDE DEF versions
  <2>7. IngestOutcome(r, u, t, id, LatestVersion(u))
    <3>1. /\ Last(versions).version = LatestVersion(u)
          /\ Last(versions).text = t /\ Last(versions).hash = t
      BY <2>1, <2>3, <2>4 DEF LatestVersion
    <3>2. IngestEffect(u, t, id, LatestVersion(u))
      BY <1>2, <2>1, <2>3 DEF IngestEffect, IngestSame
    <3> QED
      BY <2>1, <2>4, <2>5, <2>6, <3>1, <3>2 DEF IngestOutcome
  <2> QED
    BY <2>2, <2>7
<1>3. ASSUME IngestChanged(r, u, t)
      PROVE  \E id \in Ids, n \in Nat : IngestOutcome(r, u, t, id, n)
  <2> DEFINE id == urlToDocId[u]  n == LatestVersion(u) + 1
             new == NewVersion(u, n, t)
             versions == Append(documents[id], new)
  <2>1. Known(u)
    BY <1>3 DEF IngestChanged
  <2>2. id \in Ids /\ LatestVersion(u) \in Nat /\ n \in Nat
    BY <1>1, <2>1, LatestType
  <2>3. new \in Version /\ new.version = n /\ new.text = t /\ new.hash = t
    BY <2>2 DEF NewVersion, Version
  <2>4. versions \in Seq(Version) /\ versions # <<>> /\ Last(versions) = new
    <3>1. documents[id] \in Seq(Version)
      BY <1>1, <2>2 DEF TypeOK
    <3> QED
      BY <3>1, <2>3, AppendedLast
  <2>5. /\ urlToDocId' = [urlToDocId EXCEPT ![u] = id]
        /\ documents' = [documents EXCEPT ![id] = versions]
    BY <1>1, <1>3, <2>2 DEF IngestChanged, TypeOK
  <2>6. /\ AwaitPersist(r, u, id, n, t)
        /\ request[r] = Idle
        /\ index' = WriteIndexes({Entry(id, n, t)})
        /\ issued' = issued \cup {Entry(id, n, t)}
    BY <1>3 DEF IngestChanged
  <2>7. Entry(id, n, t) \in index'
    BY <2>6 DEF WriteIndexes
  <2> HIDE DEF versions, new
  <2>9. IngestEffect(u, t, id, n)
    BY <1>3, <2>1 DEF IngestEffect, IngestChanged
  <2>8. IngestOutcome(r, u, t, id, n)
    BY <2>1, <2>3, <2>4, <2>5, <2>6, <2>7, <2>9 DEF IngestOutcome
  <2> QED
    BY <2>2, <2>8
<1>4. ASSUME NEW id \in Ids, IngestNew(r, u, t, id)
      PROVE  \E i \in Ids, n \in Nat : IngestOutcome(r, u, t, i, n)
  <2> DEFINE new == NewVersion(u, 1, t)  versions == <<new>>
  <2>1. new \in Version /\ new.version = 1 /\ new.text = t /\ new.hash = t
    BY DEF NewVersion, Version
  <2>2. versions \in Seq(Version) /\ versions # <<>> /\ Last(versions) = new
    BY <2>1, LastOfOne
  <2>3. /\ urlToDocId' = [urlToDocId EXCEPT ![u] = id]
        /\ documents' = [documents EXCEPT ![id] = versions]
        /\ AwaitPersist(r, u, id, 1, t)
        /\ request[r] = Idle /\ ~Known(u)
        /\ \A e \in issued : e.id # id
        /\ index' = WriteIndexes({Entry(id, 1, t)})
        /\ issued' = issued \cup {Entry(id, 1, t)}
    BY <1>4 DEF IngestNew
  <2>4. Entry(id, 1, t) \in index' /\ Entry(id, 1, t) \in issued'
    BY <2>3 DEF WriteIndexes
  <2> HIDE DEF versions, new
  <2>6. IngestEffect(u, t, id, 1)
    BY <1>4 DEF IngestEffect, IngestNew
  <2>5. IngestOutcome(r, u, t, id, 1)
    BY <2>1, <2>2, <2>3, <2>4, <2>6 DEF IngestOutcome
  <2> QED
    BY <2>5
<1> QED
  BY <1>2, <1>3, <1>4 DEF Ingest

-----------------------------------------------------------------------------
(* The application of the rows read.                                       *)

RowRead(u) == load.rows[u]

\* Rows of different URLs have different ids, so each id gets its own row.
LEMMA LoadOutcome ==
    ASSUME DocInv, LoadApplies
    PROVE  /\ urlToDocId' \in [Urls -> Ids \cup {NoDoc}]
           /\ documents' \in [Ids -> Seq(Version)]
           /\ \A u \in LoadedRows :
                 /\ RowRead(u) \in Row
                 /\ urlToDocId'[u] = RowRead(u).id
                 /\ documents'[RowRead(u).id] = <<LoadedVersion(u, RowRead(u))>>
                 /\ RowRead(u) \in index'
           /\ \A u \in Urls \ LoadedRows :
                 /\ Keeps(u)
                 /\ \A e \in index : e.id = urlToDocId[u] => e \in index'
<1>1. TypeOK /\ OneOwner /\ load.pc = "fetched"
  BY DEF DocInv, LoadApplies
<1>2. \A u \in LoadedRows : u \in Urls /\ RowRead(u) \in Row
  BY <1>1, FetchedType DEF LoadedRows, RowRead
<1>3. \A u \in LoadedRows : Claims(u, RowRead(u).id) /\ RowRead(u).id \in Ids
  BY <1>1, <1>2 DEF Claims, LoadedRows, RowRead, Row
<1>4. \A u \in LoadedRows : \A v \in Urls :
        Claims(v, RowRead(u).id) => v = u
  BY <1>1, <1>2, <1>3 DEF OneOwner
<1>5. urlToDocId' = [u \in Urls |->
          IF u \in LoadedRows THEN RowRead(u).id ELSE urlToDocId[u]]
  BY DEF LoadApplies, RowRead
<1> DEFINE Holder(id) == CHOOSE u \in LoadedRows : RowRead(u).id = id
<1>6. documents' = [id \in Ids |->
          IF \E u \in LoadedRows : RowRead(u).id = id
          THEN <<LoadedVersion(Holder(id), RowRead(Holder(id)))>>
          ELSE documents[id]]
  BY DEF LoadApplies, RowRead
<1>7. \A id \in Ids : (\E u \in LoadedRows : RowRead(u).id = id) =>
          Holder(id) \in LoadedRows /\ RowRead(Holder(id)).id = id
  OBVIOUS
<1>8. \A u \in LoadedRows : Holder(RowRead(u).id) = u
  BY <1>2, <1>3, <1>4, <1>7
<1> HIDE DEF Holder
<1>9. \A u \in LoadedRows : LoadedVersion(u, RowRead(u)) \in Version
  BY <1>2 DEF LoadedVersion, Version, Row
<1>10. index' = WriteIndexes({RowRead(u) : u \in LoadedRows})
  BY DEF LoadApplies, RowRead
<1>11. urlToDocId' \in [Urls -> Ids \cup {NoDoc}]
  BY <1>1, <1>3, <1>5 DEF TypeOK
<1>12. documents' \in [Ids -> Seq(Version)]
  <2>1. \A id \in Ids : (\E u \in LoadedRows : RowRead(u).id = id) =>
            <<LoadedVersion(Holder(id), RowRead(Holder(id)))>> \in Seq(Version)
    BY <1>7, <1>9
  <2>2. documents \in [Ids -> Seq(Version)]
    BY <1>1 DEF TypeOK
  <2> QED
    BY <2>1, <2>2, <1>6
<1>13. ASSUME NEW u \in LoadedRows
       PROVE  /\ urlToDocId'[u] = RowRead(u).id
              /\ documents'[RowRead(u).id] = <<LoadedVersion(u, RowRead(u))>>
              /\ RowRead(u) \in index'
  BY <1>2, <1>3, <1>5, <1>6, <1>8, <1>10 DEF WriteIndexes
<1>14. ASSUME NEW u \in Urls \ LoadedRows
       PROVE  /\ Keeps(u)
              /\ \A e \in index : e.id = urlToDocId[u] => e \in index'
  <2>1. urlToDocId'[u] = urlToDocId[u]
    BY <1>5
  <2>2. \A v \in LoadedRows : RowRead(v).id # urlToDocId[u]
    BY <1>2, <1>3, <1>4 DEF Claims
  <2>3. Known(u) => documents'[urlToDocId[u]] = documents[urlToDocId[u]]
    BY <2>2, <1>1, <1>6 DEF Known, TypeOK
  <2> QED
    BY <2>1, <2>2, <2>3, <1>10 DEF Keeps, WriteIndexes
<1> QED
  BY <1>2, <1>11, <1>12, <1>13, <1>14

-----------------------------------------------------------------------------
(* Types are preserved.                                                    *)

LEMMA IngestType ==
    ASSUME DocInv, NEW r \in Requests, NEW u \in Urls, NEW t \in Texts, Ingest(r, u, t)
    PROVE  TypeOK'
<1>1. PICK id \in Ids, n \in Nat : IngestOutcome(r, u, t, id, n)
  BY IngestOutcomes
<1>2. TypeOK
  BY DEF DocInv
<1>3. /\ request' \in [Requests -> RequestStates]
      /\ load' \in LoadStates
      /\ unsynced' \subseteq Urls /\ disturbed' \subseteq Urls
      /\ table' \in [Urls -> Row \cup {NoRow}]
  BY <1>1, <1>2, AwaitPersistType DEF IngestOutcome, TypeOK
<1>4. Entry(id, n, t) \in Row
  BY DEF Entry, Row
<1>5. index' \subseteq Row /\ issued' \subseteq Row
  BY <1>1, <1>2, <1>4 DEF IngestOutcome, TypeOK, WriteIndexes
<1>6. urlToDocId' \in [Urls -> Ids \cup {NoDoc}]
  BY <1>1, <1>2 DEF IngestOutcome, TypeOK
<1>7. documents' \in [Ids -> Seq(Version)]
  BY <1>1, <1>2 DEF IngestOutcome, TypeOK
<1> QED
  BY <1>3, <1>5, <1>6, <1>7 DEF TypeOK

LEMMA PersistType ==
    ASSUME TypeOK, NEW r \in Requests, PersistCommits(r) \/ PersistFails(r)
    PROVE  TypeOK'
<1>1. Done \in RequestStates
  BY DEF RequestStates
<1>2. /\ request[r].url \in Urls /\ request[r].id \in Ids
      /\ request[r].version \in Nat /\ request[r].text \in Texts
  BY PersistingType DEF PersistCommits, PersistFails
<1>3. CASE PersistCommits(r)
  <2> DEFINE row == table[request[r].url]
  <2>1. row \in Row \cup {NoRow}
    BY <1>2 DEF TypeOK
  <2>2. Upsert(row, request[r]) \in Row
    BY <2>1, <1>2 DEF Upsert, Entry, Row
  <2>3. table' \in [Urls -> Row \cup {NoRow}]
    BY <1>3, <2>2 DEF PersistCommits, TypeOK
  <2>4. request' \in [Requests -> RequestStates]
    BY <1>1, <1>3 DEF PersistCommits, TypeOK
  <2> QED
    BY <1>3, <2>3, <2>4 DEF PersistCommits, TypeOK
<1>4. CASE PersistFails(r)
  <2>1. request' \in [Requests -> RequestStates]
    BY <1>1, <1>4 DEF PersistFails, TypeOK
  <2> QED
    BY <1>2, <1>4, <2>1 DEF PersistFails, TypeOK, Disturb
<1> QED
  BY <1>3, <1>4

LEMMA LoadType ==
    ASSUME DocInv, StartServices \/ LoadFetches \/ LoadApplies \/ LoadFails
    PROVE  TypeOK'
<1>1. TypeOK
  BY DEF DocInv
<1>2. CASE StartServices
  BY <1>1, <1>2 DEF StartServices, StartedLoad, TypeOK, LoadStates
<1>3. CASE LoadFetches
  BY <1>1, <1>3 DEF LoadFetches, TypeOK, LoadStates
<1>4. CASE LoadApplies
  <2>1. {load.rows[u] : u \in LoadedRows} \subseteq Row
    BY <1>1, <1>4, FetchedType DEF LoadApplies, LoadedRows
  <2>2. index' \subseteq Row /\ issued' \subseteq Row /\ load' \in LoadStates
    BY <1>1, <1>4, <2>1 DEF LoadApplies, WriteIndexes, TypeOK, LoadStates
  <2> QED
    BY <1>1, <1>4, <2>2, LoadOutcome DEF LoadApplies, TypeOK
<1>5. CASE LoadFails
  BY <1>1, <1>5 DEF LoadFails, TypeOK, LoadStates, Disturb
<1> QED
  BY <1>2, <1>3, <1>4, <1>5

LEMMA RestartType == ASSUME TypeOK, Restart PROVE TypeOK'
<1>1. documents' \in [Ids -> Seq(Version)]
  BY EmptySeq DEF Restart, NothingIn
<1>2. urlToDocId' \in [Urls -> Ids \cup {NoDoc}] /\ load' \in LoadStates
  BY DEF Restart, NothingIn, LoadStates
<1>3. request' \in [Requests -> RequestStates]
  BY DEF Restart, TypeOK, RequestStates
<1>4. disturbed' \subseteq Urls
  BY PersistingType DEF Restart, TypeOK
<1> QED
  BY <1>1, <1>2, <1>3, <1>4 DEF Restart, TypeOK

\* The actions, with the branches of index_document as one.
LEMMA Steps ==
    ASSUME [Next]_vars
    PROVE  \/ \E r \in Requests, u \in Urls, t \in Texts : Ingest(r, u, t)
           \/ \E r \in Requests : PersistCommits(r) \/ PersistFails(r)
           \/ StartServices \/ LoadFetches \/ LoadApplies \/ LoadFails
           \/ Restart
           \/ UNCHANGED vars
  BY DEF Next, Ingest

LEMMA TypeStep == DocInv /\ [Next]_vars => TypeOK'
<1> SUFFICES ASSUME DocInv, [Next]_vars
             PROVE  TypeOK'
  OBVIOUS
<1>1. TypeOK
  BY DEF DocInv
<1>2. CASE UNCHANGED vars
  BY <1>1, <1>2 DEF vars, TypeOK
<1> QED
  BY <1>1, <1>2, Steps, IngestType, PersistType, LoadType, RestartType

-----------------------------------------------------------------------------
(* No id is ever claimed by two URLs.                                      *)

LEMMA OldClaims ==
    ASSUME OneOwner, issued \subseteq issued',
           \A v \in Urls, i \in Ids : Claims(v, i)' => Claims(v, i)
    PROVE  OneOwner'
  BY DEF OneOwner

\* Only the URL just indexed may have a new claim, and to its own id.
LEMMA IngestClaims ==
    ASSUME DocInv, NEW r \in Requests, NEW u \in Urls, NEW t \in Texts,
           NEW id \in Ids, NEW n \in Nat, IngestOutcome(r, u, t, id, n),
           NEW v \in Urls, NEW i \in Ids, Claims(v, i)'
    PROVE  Claims(v, i) \/ (v = u /\ i = id)
<1>1. TypeOK
  BY DEF DocInv
<1>2. CASE urlToDocId'[v] = i
  BY <1>1, <1>2 DEF IngestOutcome, Claims, TypeOK
<1>3. CASE table'[v] # NoRow /\ table'[v].id = i
  BY <1>3 DEF IngestOutcome, AwaitPersist, Claims
<1>4. CASE load'.pc = "fetched" /\ load'.rows[v] # NoRow /\ load'.rows[v].id = i
  BY <1>4 DEF IngestOutcome, AwaitPersist, StartedLoad, Claims
<1>5. CASE \E q \in Requests : Persisting(q, v)' /\ request'[q].id = i
  <2>1. PICK q \in Requests : Persisting(q, v)' /\ request'[q].id = i
    BY <1>5
  <2>2. CASE q = r
    BY <1>1, <2>1, <2>2 DEF IngestOutcome, AwaitPersist, Persisting, TypeOK
  <2>3. CASE q # r
    BY <1>1, <2>1, <2>3 DEF IngestOutcome, AwaitPersist, Persisting, TypeOK, Claims
  <2> QED
    BY <2>2, <2>3
<1> QED
  BY <1>2, <1>3, <1>4, <1>5 DEF Claims

LEMMA IngestOneOwner ==
    ASSUME DocInv, NEW r \in Requests, NEW u \in Urls, NEW t \in Texts, Ingest(r, u, t)
    PROVE  OneOwner'
<1>1. PICK id \in Ids, n \in Nat : IngestOutcome(r, u, t, id, n)
  BY IngestOutcomes
<1>2. \A v \in Urls, i \in Ids : Claims(v, i)' => Claims(v, i) \/ (v = u /\ i = id)
  BY <1>1, IngestClaims
<1>3. OneOwner /\ issued \subseteq issued'
  BY <1>1 DEF DocInv, IngestOutcome
<1>4. CASE Known(u)
  <2>1. Claims(u, id)
    BY <1>1, <1>4 DEF IngestOutcome, Claims
  <2> QED
    BY <1>2, <1>3, <2>1, OldClaims
<1>5. CASE ~Known(u)
  <2>1. (\A e \in issued : e.id # id) /\ Entry(id, n, t) \in issued'
    BY <1>1, <1>5 DEF IngestOutcome
  <2>2. \A v \in Urls : ~Claims(v, id)
    BY <1>3, <2>1 DEF OneOwner
  <2>3. \A v \in Urls, i \in Ids : Claims(v, i)' => \E e \in issued' : e.id = i
    BY <1>2, <1>3, <2>1 DEF OneOwner, Entry
  <2>4. \A v, w \in Urls, i \in Ids : Claims(v, i)' /\ Claims(w, i)' => v = w
    BY <1>2, <1>3, <2>2 DEF OneOwner
  <2> QED
    BY <2>3, <2>4 DEF OneOwner
<1> QED
  BY <1>4, <1>5

LEMMA PersistOneOwner ==
    ASSUME DocInv, NEW r \in Requests, PersistCommits(r) \/ PersistFails(r)
    PROVE  OneOwner'
<1>1. TypeOK /\ OneOwner /\ request[r].pc = "persisting"
  BY DEF DocInv, PersistCommits, PersistFails
<1>2. /\ issued' = issued /\ urlToDocId' = urlToDocId /\ load' = load
      /\ request' = [request EXCEPT ![r] = Done]
  BY DEF PersistCommits, PersistFails
<1>3. \A q \in Requests, v \in Urls :
        Persisting(q, v)' => Persisting(q, v) /\ request'[q].id = request[q].id
  BY <1>1, <1>2 DEF Persisting, TypeOK, Done
<1>4. request[r].url \in Urls
  BY <1>1, PersistingType
<1>5. ASSUME NEW v \in Urls, NEW i \in Ids, table'[v] # NoRow, table'[v].id = i
      PROVE  Claims(v, i)
  <2>1. CASE table'[v] = table[v]
    BY <1>5, <2>1 DEF Claims
  <2>2. CASE table'[v] # table[v]
    <3>1. PersistCommits(r) /\ v = request[r].url /\ table'[v] = Upsert(table[v], request[r])
      BY <1>1, <1>4, <2>2 DEF PersistCommits, PersistFails, TypeOK
    <3> QED
      BY <1>1, <1>5, <3>1 DEF Upsert, Entry, Claims, Persisting
  <2> QED
    BY <2>1, <2>2
<1>6. \A v \in Urls, i \in Ids : Claims(v, i)' => Claims(v, i)
  BY <1>2, <1>3, <1>5 DEF Claims
<1> QED
  BY <1>1, <1>2, <1>6, OldClaims

LEMMA LoadOneOwner ==
    ASSUME DocInv, StartServices \/ LoadFetches \/ LoadApplies \/ LoadFails
    PROVE  OneOwner'
<1>1. TypeOK /\ OneOwner
  BY DEF DocInv
<1>2. table' = table /\ request' = request /\ issued \subseteq issued'
  BY DEF StartServices, LoadFetches, LoadApplies, LoadFails
<1>3. ASSUME NEW v \in Urls, NEW i \in Ids, urlToDocId'[v] = i
      PROVE  Claims(v, i)
  <2>1. CASE LoadApplies /\ v \in LoadedRows
    BY <1>3, <2>1, LoadOutcome DEF LoadApplies, LoadedRows, RowRead, Claims
  <2>2. CASE ~(LoadApplies /\ v \in LoadedRows)
    <3>1. urlToDocId'[v] = urlToDocId[v]
      BY <2>2 DEF StartServices, LoadFetches, LoadApplies, LoadFails
    <3> QED
      BY <1>3, <3>1 DEF Claims
  <2> QED
    BY <2>1, <2>2
<1>4. load'.pc = "fetched" => load'.rows = table
  BY DEF StartServices, StartedLoad, LoadFetches, LoadApplies, LoadFails, Done
<1>5. \A v \in Urls, i \in Ids : Claims(v, i)' => Claims(v, i)
  BY <1>2, <1>3, <1>4 DEF Claims, Persisting
<1> QED
  BY <1>1, <1>2, <1>5, OldClaims

LEMMA RestartOneOwner == ASSUME DocInv, Restart PROVE OneOwner'
<1>1. TypeOK /\ OneOwner
  BY DEF DocInv
<1>2. /\ table' = table /\ issued' = issued /\ load'.pc # "fetched"
      /\ \A v \in Urls : urlToDocId'[v] = NoDoc
      /\ \A q \in Requests, v \in Urls : ~Persisting(q, v)'
  BY DEF Restart, NothingIn, Persisting, Done
<1>3. \A v \in Urls, i \in Ids : Claims(v, i)' => Claims(v, i)
  BY <1>2 DEF Claims
<1> QED
  BY <1>1, <1>2, <1>3, OldClaims

LEMMA OneOwnerStep == DocInv /\ [Next]_vars => OneOwner'
<1> SUFFICES ASSUME DocInv, [Next]_vars
             PROVE  OneOwner'
  OBVIOUS
<1>1. CASE UNCHANGED vars
  BY <1>1 DEF vars, DocInv, OneOwner, Claims, Persisting
<1> QED
  BY <1>1, Steps, IngestOneOwner, PersistOneOwner, LoadOneOwner, RestartOneOwner

-----------------------------------------------------------------------------
(* The latest version can be found.                                        *)

LEMMA SearchableKept ==
    ASSUME NEW v \in Urls, Searchable(v), Keeps(v),
           \A e \in index : e.id = urlToDocId[v] => e \in index'
    PROVE  Searchable(v)'
<1>1. /\ Known(v)' <=> Known(v)
      /\ Known(v) => Latest(v)' = Latest(v) /\ LatestVersion(v)' = LatestVersion(v)
  BY KeptLatest
<1>2. ASSUME Known(v)
      PROVE  Entry(urlToDocId[v], LatestVersion(v), Latest(v).text) \in index'
  BY <1>2 DEF Searchable, Entry
<1> QED
  BY <1>1, <1>2 DEF Searchable, Keeps

\* Indexing u leaves every other URL and its entries alone ...
LEMMA IngestOthers ==
    ASSUME DocInv, NEW r \in Requests, NEW u \in Urls, NEW t \in Texts,
           NEW id \in Ids, NEW n \in Nat, IngestOutcome(r, u, t, id, n),
           NEW v \in Urls, v # u
    PROVE  /\ Keeps(v)
           /\ \A e \in index : e.id = urlToDocId[v] => e \in index'
<1>1. TypeOK /\ OneOwner
  BY DEF DocInv
<1>2. urlToDocId[v] # id
  <2>1. CASE Known(u)
    BY <1>1, <2>1 DEF IngestOutcome, OneOwner, Claims
  <2>2. CASE ~Known(u)
    BY <1>1, <2>2 DEF IngestOutcome, OneOwner, Claims
  <2> QED
    BY <2>1, <2>2
<1>3. Keeps(v)
  BY <1>1, <1>2 DEF IngestOutcome, Keeps, Known, TypeOK
<1>4. \A e \in index : e.id = urlToDocId[v] => e \in index'
  BY <1>2 DEF IngestOutcome, WriteIndexes, Entry
<1> QED
  BY <1>3, <1>4

\* ... and makes the version it persists the latest of u.
LEMMA IngestLatest ==
    ASSUME DocInv, NEW r \in Requests, NEW u \in Urls, NEW t \in Texts,
           NEW id \in Ids, NEW n \in Nat, IngestOutcome(r, u, t, id, n)
    PROVE  /\ Known(u)' /\ urlToDocId'[u] = id
           /\ documents'[id] # <<>>
           /\ LatestVersion(u)' = n
           /\ Latest(u)'.text = t /\ Latest(u)'.hash \in {t, Loaded}
<1>1. TypeOK
  BY DEF DocInv
<1>2. PICK versions \in Seq(Version) :
          /\ versions # <<>>
          /\ Last(versions).version = n
          /\ Last(versions).text = t
          /\ Last(versions).hash \in {t, Loaded}
          /\ documents' = [documents EXCEPT ![id] = versions]
  BY DEF IngestOutcome
<1>3. urlToDocId'[u] = id /\ documents'[id] = versions
  BY <1>1, <1>2 DEF IngestOutcome, TypeOK
<1>4. Latest(u)' = Last(versions)
  BY <1>3 DEF Latest
<1> QED
  BY <1>2, <1>3, <1>4 DEF Known, LatestVersion

LEMMA IngestSearchable ==
    ASSUME DocInv, NEW r \in Requests, NEW u \in Urls, NEW t \in Texts, Ingest(r, u, t),
           NEW v \in Urls
    PROVE  Searchable(v)'
<1>1. PICK id \in Ids, n \in Nat : IngestOutcome(r, u, t, id, n)
  BY IngestOutcomes
<1>2. CASE v = u
  <2>1. /\ Known(u)' /\ urlToDocId'[u] = id
        /\ documents'[id] # <<>>
        /\ LatestVersion(u)' = n
        /\ Latest(u)'.text = t /\ Latest(u)'.hash \in {t, Loaded}
    BY <1>1, IngestLatest
  <2>2. Entry(id, n, t) \in index'
    BY <1>1 DEF IngestOutcome
  <2>3. Searchable(u)'
    BY <2>1, <2>2 DEF Searchable
  <2> QED
    BY <1>2, <2>3
<1>3. CASE v # u
  BY <1>1, <1>3, IngestOthers, SearchableKept DEF DocInv
<1> QED
  BY <1>2, <1>3

\* A row applied is what its URL is known by.
LEMMA LoadedLatest ==
    ASSUME DocInv, LoadApplies, NEW v \in LoadedRows
    PROVE  /\ RowRead(v) \in Row
           /\ Known(v)' /\ urlToDocId'[v] = RowRead(v).id
           /\ documents'[RowRead(v).id] # <<>>
           /\ LatestVersion(v)' = RowRead(v).version
           /\ Latest(v)'.text = RowRead(v).text /\ Latest(v)'.hash = Loaded
<1>1. /\ RowRead(v) \in Row
      /\ urlToDocId'[v] = RowRead(v).id
      /\ documents'[RowRead(v).id] = <<LoadedVersion(v, RowRead(v))>>
  BY LoadOutcome
<1>2. Latest(v)' = LoadedVersion(v, RowRead(v)) /\ documents'[RowRead(v).id] # <<>>
  BY <1>1, LastOfOne DEF Latest
<1>3. Known(v)'
  BY <1>1 DEF Known, Row
<1> QED
  BY <1>1, <1>2, <1>3 DEF LatestVersion, LoadedVersion

LEMMA LoadAppliesSearchable ==
    ASSUME DocInv, LoadApplies, NEW v \in Urls
    PROVE  Searchable(v)'
<1>1. CASE v \in LoadedRows
  <2>1. RowRead(v) \in index' /\ RowRead(v) \in Row
    BY <1>1, LoadOutcome
  <2>2. Entry(RowRead(v).id, RowRead(v).version, RowRead(v).text) = RowRead(v)
    BY <2>1 DEF Entry, Row
  <2> QED
    BY <1>1, <2>1, <2>2, LoadedLatest DEF Searchable
<1>2. CASE v \notin LoadedRows
  BY <1>2, LoadOutcome, SearchableKept DEF DocInv
<1> QED
  BY <1>1, <1>2

LEMMA SearchableStep ==
    ASSUME DocInv, [Next]_vars, NEW v \in Urls
    PROVE  Searchable(v)'
<1>1. ASSUME UNCHANGED <<urlToDocId, documents, index>>
      PROVE  Searchable(v)'
  BY <1>1 DEF DocInv, Searchable, Known, Latest, LatestVersion
<1>2. ASSUME NEW r \in Requests, PersistCommits(r) \/ PersistFails(r)
      PROVE  Searchable(v)'
  BY <1>1, <1>2 DEF PersistCommits, PersistFails
<1>3. CASE StartServices \/ LoadFetches \/ LoadFails
  BY <1>1, <1>3 DEF StartServices, LoadFetches, LoadFails
<1>4. CASE Restart
  BY <1>4 DEF Restart, NothingIn, Searchable, Known
<1>5. CASE UNCHANGED vars
  BY <1>1, <1>5 DEF vars
<1> QED
  BY <1>2, <1>3, <1>4, <1>5, Steps, IngestSearchable, LoadAppliesSearchable

-----------------------------------------------------------------------------
(* Memory and table agree.                                                 *)

LEMMA InSyncKept ==
    ASSUME NEW v \in Urls, InSync(v), Keeps(v), table'[v] = table[v],
           load'.pc = "done" <=> load.pc = "done",
           load'.pc = "fetched" => load.pc = "fetched" /\ load'.rows = load.rows,
           \A q \in Requests : Persisting(q, v)' <=> Persisting(q, v),
           \A q \in Requests : Persisting(q, v) => request'[q] = request[q]
    PROVE  InSync(v)'
<1>1. /\ Known(v)' <=> Known(v)
      /\ Known(v) => Latest(v)' = Latest(v) /\ LatestVersion(v)' = LatestVersion(v)
  BY KeptLatest
<1>2. NoWrite(v)' <=> NoWrite(v)
  BY DEF NoWrite
<1>3. ASSUME NEW q \in Requests, Persisting(q, v), WriteInSync(q, v)
      PROVE  WriteInSync(q, v)'
  BY <1>1, <1>3 DEF WriteInSync, Keeps
<1>4. RowInSync(v) => RowInSync(v)'
  BY <1>1 DEF RowInSync, Keeps
<1> QED
  BY <1>1, <1>2, <1>3, <1>4 DEF InSync

LEMMA IngestInSync ==
    ASSUME DocInv, NEW r \in Requests, NEW u \in Urls, NEW t \in Texts, Ingest(r, u, t),
           NEW v \in Urls, v \notin unsynced'
    PROVE  InSync(v)'
<1>1. PICK id \in Ids, n \in Nat : IngestOutcome(r, u, t, id, n)
  BY IngestOutcomes
<1>2. TypeOK
  BY DEF DocInv
<1> DEFINE write == [pc |-> "persisting", url |-> u, id |-> id, version |-> n, text |-> t]
<1>3. /\ request[r] = Idle
      /\ request'[r] = write
      /\ \A q \in Requests : q # r => request'[q] = request[q]
      /\ load' = StartedLoad /\ table' = table
      /\ unsynced \subseteq unsynced'
      /\ load.pc # "done" \/ (\E q \in Requests : Persisting(q, u)) => u \in unsynced'
  BY <1>1, <1>2 DEF IngestOutcome, AwaitPersist, Disturb, TypeOK
<1>4. InSync(v)
  BY <1>3 DEF DocInv
<1>5. CASE v # u
  <2>1. Keeps(v)
    BY <1>1, <1>5, IngestOthers
  <2>2. \A q \in Requests : /\ Persisting(q, v)' <=> Persisting(q, v)
                            /\ Persisting(q, v) => request'[q] = request[q]
    BY <1>3, <1>5 DEF Persisting, Idle
  <2>3. /\ load'.pc = "done" <=> load.pc = "done"
        /\ load'.pc = "fetched" => load.pc = "fetched" /\ load'.rows = load.rows
    BY <1>3 DEF StartedLoad
  <2> QED
    BY <1>3, <1>4, <2>1, <2>2, <2>3, InSyncKept
<1>6. CASE v = u
  <2>1. load.pc = "done" /\ NoWrite(u)
    BY <1>3, <1>6 DEF NoWrite
  <2>2. RowInSync(u)
    BY <1>4, <1>6, <2>1 DEF InSync
  <2>3. \A q \in Requests : Persisting(q, u)' => q = r
    BY <1>3, <2>1 DEF Persisting, NoWrite
  <2>4. /\ Known(u)' /\ urlToDocId'[u] = id
        /\ LatestVersion(u)' = n /\ Latest(u)'.text = t
    BY <1>1, IngestLatest
  <2>5. table[u] # NoRow => table[u].id = id /\ table[u].version + 1 >= n
    <3>1. ASSUME table[u] # NoRow
          PROVE  table[u].id = id /\ table[u].version + 1 >= n
      <4>1. Known(u) /\ table[u].id = urlToDocId[u] /\ table[u].version >= LatestVersion(u)
        BY <2>2, <3>1 DEF RowInSync
      <4>2. id = urlToDocId[u] /\ n \in {LatestVersion(u), LatestVersion(u) + 1}
        BY <1>1, <4>1 DEF IngestOutcome
      <4>3. table[u].version \in Nat /\ LatestVersion(u) \in Nat
        BY <1>2, <3>1, <4>1, LatestType DEF TypeOK, Row, DocInv
      <4> QED
        BY <4>1, <4>2, <4>3
    <3> QED
      BY <3>1
  <2>6. WriteInSync(r, u)'
    BY <1>3, <2>3, <2>4, <2>5 DEF WriteInSync
  <2>7. load'.pc = "done"
    BY <1>3, <2>1 DEF StartedLoad
  <2>8. ~NoWrite(u)'
    BY <1>3 DEF NoWrite, Persisting
  <2> QED
    BY <1>6, <2>3, <2>6, <2>7, <2>8 DEF InSync
<1> QED
  BY <1>5, <1>6

LEMMA PersistInSync ==
    ASSUME DocInv, NEW r \in Requests, PersistCommits(r) \/ PersistFails(r),
           NEW v \in Urls, v \notin unsynced'
    PROVE  InSync(v)'
<1>1. TypeOK /\ request[r].pc = "persisting"
  BY DEF DocInv, PersistCommits, PersistFails
<1> DEFINE u == request[r].url
<1>2. u \in Urls /\ request[r].version \in Nat /\ Persisting(r, u)
  BY <1>1, PersistingType DEF Persisting
<1>3. /\ request'[r] = Done
      /\ \A q \in Requests : q # r => request'[q] = request[q]
      /\ load' = load /\ unsynced \subseteq unsynced'
      /\ urlToDocId' = urlToDocId /\ documents' = documents
      /\ \A w \in Urls : w # u => table'[w] = table[w]
  BY <1>1 DEF PersistCommits, PersistFails, Disturb, TypeOK
<1>4. InSync(v) /\ Keeps(v)
  BY <1>3 DEF DocInv, Keeps
<1>5. CASE v # u
  <2>1. \A q \in Requests : /\ Persisting(q, v)' <=> Persisting(q, v)
                            /\ Persisting(q, v) => request'[q] = request[q]
    BY <1>3, <1>5 DEF Persisting, Done
  <2> QED
    BY <1>3, <1>4, <1>5, <2>1, InSyncKept
<1>6. CASE v = u
  <2>1. PersistCommits(r)
    BY <1>6 DEF PersistFails, Disturb
  <2>2. load.pc = "done" /\ WriteInSync(r, v)
    BY <1>2, <1>4, <1>6 DEF InSync, NoWrite
  <2>3. NoWrite(v)'
    BY <1>3, <2>2 DEF NoWrite, Persisting, WriteInSync, Done
  <2>4. table'[v] = Upsert(table[v], request[r])
    BY <1>1, <1>2, <1>6, <2>1 DEF PersistCommits, TypeOK
  <2>5. /\ Known(v)' /\ Latest(v)' = Latest(v) /\ LatestVersion(v)' = LatestVersion(v)
        /\ urlToDocId'[v] = urlToDocId[v]
    BY <1>3, <2>2 DEF WriteInSync, Known, Latest, LatestVersion
  <2>6. /\ table'[v] \in Row
        /\ table'[v].id = urlToDocId[v]
        /\ table'[v].text = Latest(v).text
        /\ table'[v].version >= LatestVersion(v)
    <3>1. request[r].id \in Ids /\ request[r].text \in Texts
      BY <1>1, PersistingType
    <3>2. CASE table[v] = NoRow
      BY <1>2, <2>2, <2>4, <3>1, <3>2 DEF Upsert, Entry, Row, WriteInSync
    <3>3. CASE table[v] # NoRow
      <4>1. table[v] \in Row
        BY <1>1, <1>2, <3>3 DEF TypeOK
      <4> QED
        BY <1>2, <2>2, <2>4, <3>1, <3>3, <4>1 DEF Upsert, Entry, Row, WriteInSync
    <3> QED
      BY <3>2, <3>3
  <2>7. RowInSync(v)'
    BY <2>5, <2>6 DEF RowInSync
  <2> QED
    BY <1>3, <1>6, <2>2, <2>3, <2>7 DEF InSync, NoWrite
<1> QED
  BY <1>5, <1>6

LEMMA LoadInSync ==
    ASSUME DocInv, StartServices \/ LoadFetches \/ LoadApplies \/ LoadFails,
           NEW v \in Urls, v \notin unsynced'
    PROVE  InSync(v)'
<1>1. TypeOK /\ table' = table /\ request' = request
  BY DEF DocInv, StartServices, LoadFetches, LoadApplies, LoadFails
<1>2. ~LoadFails /\ InSync(v)
  BY DEF DocInv, StartServices, LoadFetches, LoadApplies, LoadFails, Disturb
<1>3. \A q \in Requests : /\ Persisting(q, v)' <=> Persisting(q, v)
                          /\ Persisting(q, v) => request'[q] = request[q]
  BY <1>1 DEF Persisting
<1>4. CASE StartServices
  BY <1>1, <1>2, <1>3, <1>4, InSyncKept DEF StartServices, StartedLoad, Keeps
<1>5. CASE LoadFetches
  <2>1. load.pc # "done" /\ load' = [pc |-> "fetched", rows |-> table]
    BY <1>5 DEF LoadFetches
  <2>2. ~Known(v)' /\ NoWrite(v)'
    BY <1>2, <1>3, <1>5, <2>1 DEF InSync, NoWrite, LoadFetches, Known
  <2> QED
    BY <1>1, <2>1, <2>2 DEF InSync
<1>6. CASE LoadApplies
  <2>1. load.pc = "fetched" /\ load'.pc = "done"
    BY <1>6 DEF LoadApplies, Done
  <2>2. ~Known(v) /\ NoWrite(v)' /\ RowRead(v) = table[v]
    BY <1>2, <1>3, <2>1 DEF InSync, NoWrite, RowRead
  <2>3. RowInSync(v)'
    <3>1. CASE v \in LoadedRows
      <4>1. table'[v] \in Row /\ table'[v] = RowRead(v)
        BY <1>1, <1>6, <2>2, <3>1, LoadedLatest
      <4>2. /\ Known(v)' /\ urlToDocId'[v] = RowRead(v).id
            /\ LatestVersion(v)' = RowRead(v).version
            /\ Latest(v)'.text = RowRead(v).text
        BY <1>6, <3>1, LoadedLatest
      <4>3. table'[v] # NoRow /\ table'[v].version \in Nat
        BY <4>1 DEF Row
      <4> QED
        BY <4>1, <4>2, <4>3 DEF RowInSync
    <3>2. CASE v \notin LoadedRows
      <4>1. ~Known(v)'
        BY <1>6, <2>2, <3>2, LoadOutcome, KeptLatest
      <4>2. table'[v] = NoRow
        BY <1>1, <2>2, <3>2 DEF LoadedRows, RowRead
      <4> QED
        BY <4>1, <4>2 DEF RowInSync
    <3> QED
      BY <3>1, <3>2
  <2> QED
    BY <2>1, <2>2, <2>3 DEF InSync, NoWrite
<1> QED
  BY <1>2, <1>4, <1>5, <1>6

LEMMA InSyncStep ==
    ASSUME DocInv, [Next]_vars, NEW v \in Urls, v \notin unsynced'
    PROVE  InSync(v)'
<1>1. CASE Restart
  BY <1>1 DEF Restart, NothingIn, InSync, Known, NoWrite, Persisting, Done
<1>2. CASE UNCHANGED vars
  <2>1. InSync(v) /\ Keeps(v)
    BY <1>2 DEF DocInv, vars, Keeps
  <2> QED
    BY <1>2, <2>1, InSyncKept DEF vars, Persisting
<1> QED
  BY <1>1, <1>2, Steps, IngestInSync, PersistInSync, LoadInSync

-----------------------------------------------------------------------------
(* Hits are genuine.                                                       *)

(* HitsAreGenuine needs more: every document is of one URL, its versions   *)
(* grow, and each index entry of a URL in sync has its version there.      *)
UrlOf(id) == documents[id][1].url

Ordered(s) ==
    /\ \A i \in 1..Len(s) : s[i].url = s[1].url
    /\ \A i, k \in 1..Len(s) : i < k => s[i].version < s[k].version

Has(s, e) == \E i \in 1..Len(s) : s[i].version = e.version /\ s[i].text = e.text

\* Only the load takes an id from its URL, and what it takes is out of sync.
Current(id) ==
    documents[id] # <<>> /\ (UrlOf(id) \notin unsynced \/ load.pc # "done")
        => urlToDocId[UrlOf(id)] = id

EntryKept(e) ==
    /\ e \in issued
    /\ documents[e.id] # <<>>
    /\ UrlOf(e.id) \notin unsynced => Has(documents[e.id], e)

HitInv ==
    /\ \A id \in Ids : Ordered(documents[id]) /\ Current(id)
    /\ \A u \in Urls : Known(u) => UrlOf(urlToDocId[u]) = u
    /\ \A e \in index : EntryKept(e)

LEMMA OrderedAppend ==
    ASSUME NEW s \in Seq(Version), s # <<>>, Ordered(s), NEW x \in Version,
           x.url = s[1].url, x.version = Last(s).version + 1
    PROVE  /\ Ordered(Append(s, x))
           /\ Append(s, x)[1].url = s[1].url
           /\ \A e : Has(s, e) => Has(Append(s, x), e)
           /\ \A e : e.version = x.version /\ e.text = x.text => Has(Append(s, x), e)
<1> DEFINE t == Append(s, x)
<1>1. /\ Len(s) \in Nat /\ Len(t) = Len(s) + 1
      /\ \A i \in 1..Len(s) : t[i] = s[i]
      /\ t[Len(s) + 1] = x
  BY AppendProperties, LenProperties
<1>2. Len(s) >= 1 /\ 1 \in 1..Len(s) /\ Len(s) \in 1..Len(s)
  BY <1>1, EmptySeq
<1>3. \A i \in 1..Len(s) : s[i].version \in Nat
  <2>1. \A i \in 1..Len(s) : s[i] \in Version
    OBVIOUS
  <2> QED
    BY <2>1 DEF Version
<1> HIDE DEF t
<1>4. \A i \in 1..Len(t) : i \in 1..Len(s) \/ i = Len(s) + 1
  BY <1>1
<1>5. \A i \in 1..Len(s) : i \in 1..Len(t)
  BY <1>1
<1>6. Len(s) + 1 \in 1..Len(t)
  BY <1>1
<1>7. t[1] = s[1]
  BY <1>1, <1>2
<1>8. \A i \in 1..Len(s) : s[i].version < x.version
  <2>1. Last(s) = s[Len(s)]
    BY DEF Last
  <2>2. \A i \in 1..Len(s) : i < Len(s) \/ i = Len(s)
    BY <1>1
  <2>3. \A i \in 1..Len(s) : s[i].version < s[Len(s)].version \/ i = Len(s)
    BY <1>2, <2>2 DEF Ordered
  <2> QED
    BY <1>2, <1>3, <2>1, <2>3
<1>9. \A i \in 1..Len(t) : t[i].url = t[1].url
  BY <1>1, <1>4, <1>7 DEF Ordered
<1>10. \A i, k \in 1..Len(t) : i < k => t[i].version < t[k].version
  <2> SUFFICES ASSUME NEW i \in 1..Len(t), NEW k \in 1..Len(t), i < k
               PROVE  t[i].version < t[k].version
    OBVIOUS
  <2>1. i \in 1..Len(s)
    BY <1>1
  <2> QED
    BY <1>1, <1>4, <1>8, <2>1 DEF Ordered
<1>11. \A e : Has(s, e) => Has(t, e)
  BY <1>1, <1>5 DEF Has
<1>12. \A e : e.version = x.version /\ e.text = x.text => Has(t, e)
  BY <1>1, <1>6 DEF Has
<1> QED
  BY <1>7, <1>9, <1>10, <1>11, <1>12 DEF t, Ordered

LEMMA OrderedOne ==
    ASSUME NEW x
    PROVE  /\ Ordered(<<x>>) /\ <<x>> # <<>> /\ <<x>>[1] = x
           /\ \A e : e.version = x.version /\ e.text = x.text => Has(<<x>>, e)
<1>1. Len(<<x>>) = 1 /\ <<x>>[1] = x /\ 1..Len(<<x>>) = {1}
  OBVIOUS
<1> QED
  BY <1>1 DEF Ordered, Has

LEMMA UrlOfType ==
    ASSUME TypeOK, NEW id \in Ids, documents[id] # <<>>
    PROVE  UrlOf(id) \in Urls
<1>1. documents[id] \in Seq(Version) /\ 1 \in 1..Len(documents[id])
  BY EmptySeq, LenProperties DEF TypeOK
<1>2. documents[id][1] \in Version
  BY <1>1
<1> QED
  BY <1>2 DEF UrlOf, Version

\* Nothing of the memory changes, and URLs can only get out of sync.
LEMMA HitKept ==
    ASSUME HitInv, UNCHANGED <<urlToDocId, documents, index>>,
           issued \subseteq issued', unsynced \subseteq unsynced',
           load'.pc # "done" => load.pc # "done"
    PROVE  HitInv'
<1>1. \A id \in Ids : Ordered(documents[id])' /\ Current(id)'
  BY DEF HitInv, Ordered, Current, UrlOf
<1>2. \A u \in Urls : Known(u)' => UrlOf(urlToDocId[u])' = u
  BY DEF HitInv, Known, UrlOf
<1>3. \A e \in index' : EntryKept(e)'
  BY DEF HitInv, EntryKept, UrlOf, Has
<1> QED
  BY <1>1, <1>2, <1>3 DEF HitInv

LEMMA HitIngest ==
    ASSUME DocInv, HitInv, NEW r \in Requests, NEW u \in Urls, NEW t \in Texts,
           Ingest(r, u, t)
    PROVE  HitInv'
<1>1. PICK id \in Ids, n \in Nat : IngestOutcome(r, u, t, id, n)
  BY IngestOutcomes
<1>2. TypeOK /\ Searchable(u)
  BY DEF DocInv
<1>3. /\ unsynced \subseteq unsynced'
      /\ load'.pc # "done" <=> load.pc # "done"
      /\ issued \subseteq issued'
  BY <1>1 DEF IngestOutcome, AwaitPersist, Disturb, StartedLoad
<1>4. /\ urlToDocId' = [urlToDocId EXCEPT ![u] = id]
      /\ urlToDocId'[u] = id
      /\ \A v \in Urls : v # u => urlToDocId'[v] = urlToDocId[v]
  BY <1>1, <1>2 DEF IngestOutcome, TypeOK
<1>5. \A v \in Urls : v # u => Keeps(v)
  BY <1>1, IngestOthers
<1>6. CASE IngestEffect(u, t, id, n) /\ UNCHANGED <<documents, index, issued>> /\ id = urlToDocId[u]
  <2>1. urlToDocId' = urlToDocId
    BY <1>2, <1>4, <1>6 DEF TypeOK
  <2> QED
    BY <1>3, <1>6, <2>1, HitKept
<1>7. ASSUME NEW s \in Seq(Version), s # <<>>, Ordered(s), s[1].url = u,
             documents' = [documents EXCEPT ![id] = s],
             index' = WriteIndexes({Entry(id, n, t)}),
             Entry(id, n, t) \in issued',
             \A e : e.version = n /\ e.text = t => Has(s, e),
             \A e \in index : e.id = id => UrlOf(id) = u /\ (Has(documents[id], e) => Has(s, e)),
             \A i \in Ids : i # id /\ urlToDocId[u] = i => FALSE
      PROVE  HitInv'
  <2>1. /\ documents'[id] = s
        /\ \A i \in Ids : i # id => documents'[i] = documents[i]
    BY <1>2, <1>7 DEF TypeOK
  <2>2. UrlOf(id)' = u /\ \A i \in Ids : i # id => UrlOf(i)' = UrlOf(i)
    BY <1>7, <2>1 DEF UrlOf
  <2>3. ASSUME NEW i \in Ids
        PROVE  Ordered(documents[i])' /\ Current(i)'
    <3>1. CASE i = id
      BY <1>4, <1>7, <2>1, <2>2, <3>1 DEF Ordered, Current
    <3>2. CASE i # id
      <4>1. Ordered(documents[i])'
        BY <2>1, <3>2 DEF HitInv, Ordered
      <4>2. Current(i)'
        <5> SUFFICES ASSUME documents[i] # <<>>,
                            UrlOf(i) \notin unsynced \/ load.pc # "done"
                     PROVE  urlToDocId'[UrlOf(i)] = i
          BY <1>3, <2>1, <2>2, <3>2 DEF Current
        <5>1. urlToDocId[UrlOf(i)] = i /\ UrlOf(i) \in Urls
          BY <1>2, UrlOfType DEF HitInv, Current
        <5>2. UrlOf(i) # u
          BY <1>7, <3>2, <5>1
        <5> QED
          BY <1>4, <5>1, <5>2
      <4> QED
        BY <4>1, <4>2
    <3> QED
      BY <3>1, <3>2
  <2>4. ASSUME NEW v \in Urls, Known(v)'
        PROVE  UrlOf(urlToDocId[v])' = v
    <3>1. CASE v = u
      BY <1>4, <2>2, <3>1
    <3>2. CASE v # u
      <4>1. Keeps(v) /\ Known(v) /\ UrlOf(urlToDocId[v]) = v
        BY <1>5, <2>4, <3>2, KeptLatest DEF HitInv
      <4> QED
        BY <4>1 DEF Keeps, UrlOf
    <3> QED
      BY <3>1, <3>2
  <2>5. ASSUME NEW e \in index'
        PROVE  EntryKept(e)'
    <3>1. CASE e = Entry(id, n, t)
      <4>1. e.id = id /\ e.version = n /\ e.text = t
        BY <3>1 DEF Entry
      <4> QED
        BY <1>7, <2>1, <3>1, <4>1 DEF EntryKept
    <3>2. CASE e \in index
      <4>1. e.id \in Ids /\ EntryKept(e)
        BY <1>2, <3>2 DEF HitInv, TypeOK, Row
      <4>2. CASE e.id # id
        BY <1>3, <2>1, <2>2, <4>1, <4>2 DEF EntryKept
      <4>3. CASE e.id = id
        BY <1>3, <1>7, <2>1, <2>2, <3>2, <4>1, <4>3 DEF EntryKept
      <4> QED
        BY <4>2, <4>3
    <3> QED
      BY <1>7, <3>1, <3>2 DEF WriteIndexes
  <2> QED
    BY <2>3, <2>4, <2>5 DEF HitInv
<1>8. CASE /\ Known(u) /\ id = urlToDocId[u] /\ n = LatestVersion(u) + 1
           /\ documents' = [documents EXCEPT ![id] = Append(@, NewVersion(u, n, t))]
           /\ index' = WriteIndexes({Entry(id, n, t)})
           /\ issued' = issued \cup {Entry(id, n, t)}
  <2> DEFINE d == documents[id]  x == NewVersion(u, n, t)  s == Append(d, x)
  <2>1. /\ d \in Seq(Version) /\ d # <<>> /\ Ordered(d)
        /\ d[1].url = u /\ UrlOf(id) = u /\ Last(d).version = LatestVersion(u)
    BY <1>2, <1>8 DEF TypeOK, Searchable, HitInv, UrlOf, LatestVersion, Latest
  <2>2. x \in Version /\ x.url = u /\ x.version = n /\ x.text = t
    BY DEF NewVersion, Version
  <2>3. documents' = [documents EXCEPT ![id] = s]
    BY <1>8
  <2> HIDE DEF d, x
  <2>4. /\ Ordered(s) /\ s[1].url = d[1].url
        /\ \A e : Has(d, e) => Has(s, e)
        /\ \A e : e.version = x.version /\ e.text = x.text => Has(s, e)
    BY <1>8, <2>1, <2>2, OrderedAppend
  <2>5. s \in Seq(Version) /\ s # <<>>
    BY <2>1, <2>2, AppendedLast
  <2> HIDE DEF s
  <2>6. \A e \in index : e.id = id => UrlOf(id) = u /\ (Has(documents[id], e) => Has(s, e))
    BY <2>1, <2>4 DEF d
  <2>7. \A i \in Ids : i # id /\ urlToDocId[u] = i => FALSE
    BY <1>8
  <2>8. index' = WriteIndexes({Entry(id, n, t)}) /\ Entry(id, n, t) \in issued'
    BY <1>8
  <2>9. s[1].url = u /\ \A e : e.version = n /\ e.text = t => Has(s, e)
    BY <2>1, <2>2, <2>4
  <2> QED
    BY <1>7, <2>3, <2>4, <2>5, <2>6, <2>7, <2>8, <2>9
<1>9. CASE /\ ~Known(u) /\ n = 1
           /\ \A e \in issued : e.id # id
           /\ documents' = [documents EXCEPT ![id] = <<NewVersion(u, n, t)>>]
           /\ index' = WriteIndexes({Entry(id, n, t)})
           /\ issued' = issued \cup {Entry(id, n, t)}
  <2> DEFINE x == NewVersion(u, n, t)  s == <<x>>
  <2>1. x \in Version /\ x.url = u /\ x.version = n /\ x.text = t
    BY DEF NewVersion, Version
  <2>2. s \in Seq(Version)
    BY <2>1
  <2>3. documents' = [documents EXCEPT ![id] = s]
    BY <1>9
  <2> HIDE DEF x
  <2>4. /\ Ordered(s) /\ s # <<>> /\ s[1] = x
        /\ \A e : e.version = x.version /\ e.text = x.text => Has(s, e)
    BY OrderedOne
  <2>5. \A e \in index : e.id # id
    BY <1>9 DEF HitInv, EntryKept
  <2>6. \A i \in Ids : urlToDocId[u] # i
    BY <1>9 DEF Known
  <2> HIDE DEF s
  <2> QED
    BY <1>7, <1>9, <2>1, <2>2, <2>3, <2>4, <2>5, <2>6
<1> QED
  BY <1>1, <1>6, <1>8, <1>9 DEF IngestOutcome, IngestEffect

LEMMA HitLoadApplies ==
    ASSUME DocInv, HitInv, LoadApplies
    PROVE  HitInv'
<1>1. /\ TypeOK /\ OneOwner /\ load.pc = "fetched" /\ load'.pc = "done"
      /\ unsynced' = unsynced
  BY DEF DocInv, LoadApplies, Done
\* Whatever the process holds already was ingested before the load.
<1>2. ASSUME NEW id \in Ids, documents[id] # <<>>
      PROVE  UrlOf(id) \in unsynced /\ Claims(UrlOf(id), id)
  <2>1. UrlOf(id) \in Urls /\ urlToDocId[UrlOf(id)] = id
    BY <1>1, <1>2, UrlOfType DEF HitInv, Current
  <2>2. Known(UrlOf(id))
    BY <2>1 DEF Known
  <2> QED
    BY <1>1, <2>1, <2>2 DEF DocInv, InSync, Claims
<1>3. ASSUME NEW u \in LoadedRows
      PROVE  /\ u \in Urls /\ RowRead(u) \in Row /\ RowRead(u).id \in Ids
             /\ urlToDocId'[u] = RowRead(u).id
             /\ documents'[RowRead(u).id] = <<LoadedVersion(u, RowRead(u))>>
             /\ Claims(u, RowRead(u).id)
  <2>1. /\ RowRead(u) \in Row
        /\ urlToDocId'[u] = RowRead(u).id
        /\ documents'[RowRead(u).id] = <<LoadedVersion(u, RowRead(u))>>
    BY <1>3, LoadOutcome
  <2> QED
    BY <1>1, <1>3, <2>1 DEF Claims, LoadedRows, RowRead, Row
<1>4. ASSUME NEW id \in Ids, \A u \in LoadedRows : RowRead(u).id # id
      PROVE  documents'[id] = documents[id]
  BY <1>4 DEF LoadApplies, RowRead
<1>5. ASSUME NEW u \in LoadedRows
      PROVE  /\ documents'[RowRead(u).id] # <<>>
             /\ documents'[RowRead(u).id][1].url = u
             /\ Ordered(documents'[RowRead(u).id])
             /\ Has(documents'[RowRead(u).id], RowRead(u))
  <2> DEFINE x == LoadedVersion(u, RowRead(u))
  <2>1. x.url = u /\ x.version = RowRead(u).version /\ x.text = RowRead(u).text
    BY DEF LoadedVersion
  <2>2. documents'[RowRead(u).id] = <<x>>
    BY <1>3, <1>5
  <2> HIDE DEF x
  <2>3. /\ Ordered(<<x>>) /\ <<x>> # <<>> /\ <<x>>[1] = x
        /\ \A e : e.version = x.version /\ e.text = x.text => Has(<<x>>, e)
    BY OrderedOne
  <2>4. Has(<<x>>, RowRead(u)) /\ <<x>>[1].url = u
    BY <2>1, <2>3
  <2> QED
    BY <2>2, <2>3, <2>4
<1>6. ASSUME NEW id \in Ids
      PROVE  Ordered(documents[id])' /\ Current(id)'
  <2>1. ASSUME NEW u \in LoadedRows, RowRead(u).id = id
        PROVE  Ordered(documents[id])' /\ Current(id)'
    BY <1>3, <1>5, <2>1 DEF Current, UrlOf, Ordered
  <2>2. CASE \A u \in LoadedRows : RowRead(u).id # id
    BY <1>1, <1>2, <1>4, <2>2 DEF HitInv, Current, Ordered, UrlOf
  <2> QED
    BY <2>1, <2>2
<1>7. ASSUME NEW v \in Urls, Known(v)'
      PROVE  UrlOf(urlToDocId[v])' = v
  <2>1. CASE v \in LoadedRows
    BY <1>3, <1>5, <2>1 DEF UrlOf
  <2>2. CASE v \notin LoadedRows
    <3>1. Keeps(v) /\ Known(v)
      BY <1>7, <2>2, LoadOutcome, KeptLatest
    <3> QED
      BY <3>1 DEF HitInv, Keeps, UrlOf
  <2> QED
    BY <2>1, <2>2
<1>8. ASSUME NEW e \in index'
      PROVE  EntryKept(e)'
  <2>1. issued' = issued \cup {RowRead(u) : u \in LoadedRows}
    BY DEF LoadApplies, RowRead
  <2>2. ASSUME NEW u \in LoadedRows, e = RowRead(u)
        PROVE  EntryKept(e)'
    BY <1>5, <2>1, <2>2 DEF EntryKept, UrlOf
  <2>3. CASE e \in index
    <3>1. e \in issued' /\ e.id \in Ids /\ documents[e.id] # <<>>
      BY <1>1, <2>1, <2>3 DEF HitInv, EntryKept, TypeOK, Row
    <3>2. UrlOf(e.id) \in unsynced /\ Claims(UrlOf(e.id), e.id) /\ UrlOf(e.id) \in Urls
      BY <1>1, <1>2, <3>1, UrlOfType
    <3>3. ASSUME NEW u \in LoadedRows, RowRead(u).id = e.id
          PROVE  EntryKept(e)'
      <4>1. u \in unsynced
        BY <1>1, <1>3, <3>1, <3>2, <3>3 DEF OneOwner
      <4> QED
        BY <1>1, <1>5, <3>1, <3>3, <4>1 DEF EntryKept, UrlOf
    <3>4. CASE \A u \in LoadedRows : RowRead(u).id # e.id
      <4>1. documents'[e.id] = documents[e.id] /\ UrlOf(e.id)' = UrlOf(e.id)
        BY <1>4, <3>1, <3>4 DEF UrlOf
      <4> QED
        BY <1>1, <3>1, <3>2, <4>1 DEF EntryKept
    <3> QED
      BY <3>3, <3>4
  <2>4. e \in index \/ \E u \in LoadedRows : e = RowRead(u)
    BY DEF LoadApplies, WriteIndexes, RowRead
  <2> QED
    BY <2>2, <2>3, <2>4
<1> QED
  BY <1>6, <1>7, <1>8 DEF HitInv

LEMMA HitStep == DocInv /\ HitInv /\ [Next]_vars => HitInv'
<1> SUFFICES ASSUME DocInv, HitInv, [Next]_vars
             PROVE  HitInv'
  OBVIOUS
<1>1. ASSUME NEW r \in Requests, PersistCommits(r) \/ PersistFails(r)
      PROVE  HitInv'
  <2>1. /\ UNCHANGED <<urlToDocId, documents, index>>
        /\ issued \subseteq issued' /\ unsynced \subseteq unsynced'
        /\ load'.pc # "done" => load.pc # "done"
    BY <1>1 DEF PersistCommits, PersistFails, Disturb
  <2> QED
    BY <2>1, HitKept
<1>2. CASE StartServices \/ LoadFetches \/ LoadFails
  <2>1. /\ UNCHANGED <<urlToDocId, documents, index>>
        /\ issued \subseteq issued' /\ unsynced \subseteq unsynced'
        /\ load'.pc # "done" => load.pc # "done"
    BY <1>2 DEF StartServices, LoadFetches, LoadFails, Disturb, Done
  <2> QED
    BY <2>1, HitKept
<1>3. CASE Restart
  <2>1. /\ index' = {}
        /\ \A u \in Urls : ~Known(u)'
        /\ \A id \in Ids : documents'[id] = <<>>
    BY <1>3 DEF Restart, NothingIn, Known
  <2>2. Len(<<>>) = 0
    BY EmptySeq
  <2>3. \A id \in Ids : Ordered(documents[id])' /\ Current(id)'
    BY <2>1, <2>2 DEF Ordered, Current
  <2> QED
    BY <2>1, <2>3 DEF HitInv
<1>4. CASE UNCHANGED vars
  BY <1>4, HitKept DEF vars
<1> QED
  BY <1>1, <1>2, <1>3, <1>4, Steps, HitIngest, HitLoadApplies

LEMMA HitInvInit == Init => HitInv
<1> SUFFICES ASSUME Init
             PROVE  HitInv
  OBVIOUS
<1>1. /\ index = {}
      /\ \A u \in Urls : ~Known(u)
      /\ \A id \in Ids : documents[id] = <<>>
  BY DEF Init, NothingIn, Known
<1>2. Len(<<>>) = 0
  BY EmptySeq
<1>3. \A id \in Ids : Ordered(documents[id]) /\ Current(id)
  BY <1>1, <1>2 DEF Ordered, Current
<1> QED
  BY <1>1, <1>3 DEF HitInv

LEMMA HitsFollow ==
    ASSUME TypeOK, HitInv
    PROVE  HitsAreGenuine
<1> SUFFICES ASSUME NEW e \in index, Resolve(e).url \notin unsynced
             PROVE  /\ e.id = urlToDocId[Resolve(e).url]
                    /\ Resolve(e).version = e.version
                    /\ Resolve(e).text = e.text
  BY Zenon DEF HitsAreGenuine
<1> DEFINE s == documents[e.id]
           exact == {i \in DOMAIN s : s[i].version = e.version}
           first == CHOOSE i \in exact : \A j \in exact : i <= j
<1>1. /\ e.id \in Ids /\ s \in Seq(Version) /\ s # <<>> /\ Ordered(s)
      /\ EntryKept(e) /\ Current(e.id)
  BY DEF TypeOK, Row, HitInv, EntryKept
<1>2. DOMAIN s = 1..Len(s) /\ Len(s) \in Nat /\ Len(s) >= 1
  BY <1>1, EmptySeq, LenProperties
<1>3. Resolve(e) = IF exact # {} THEN s[first] ELSE Last(s)
  BY DEF Resolve
<1>4. \A i \in 1..Len(s) : s[i].version \in Nat
  <2>1. \A i \in 1..Len(s) : s[i] \in Version
    BY <1>1
  <2> QED
    BY <2>1 DEF Version
<1>5. \A i, j \in exact : i = j
  <2> SUFFICES ASSUME NEW i \in 1..Len(s), NEW j \in 1..Len(s),
                      s[i].version = s[j].version
               PROVE  i = j
    BY <1>2
  <2>1. ~(i < j) /\ ~(j < i)
    BY <1>1, <1>4 DEF Ordered
  <2> QED
    BY <2>1
<1>6. exact # {} => first \in exact
  <2>1. ASSUME NEW i \in exact
        PROVE  first \in exact
    <3>1. i \in Nat /\ \A j \in exact : i <= j
      BY <1>2, <1>5
    <3> QED
      BY <3>1
  <2> QED
    BY <2>1
<1>7. Resolve(e).url = UrlOf(e.id)
  <2>1. \A i \in 1..Len(s) : s[i].url = UrlOf(e.id)
    BY <1>1 DEF Ordered, UrlOf
  <2>2. Last(s) = s[Len(s)] /\ Len(s) \in 1..Len(s)
    BY <1>2 DEF Last
  <2> QED
    BY <1>2, <1>3, <1>6, <2>1, <2>2
<1>8. PICK i \in 1..Len(s) : s[i].version = e.version /\ s[i].text = e.text
  BY <1>1, <1>7 DEF EntryKept, Has
<1>9. i \in exact
  BY <1>2, <1>8
<1>10. first = i
  BY <1>5, <1>6, <1>9
<1>11. Resolve(e) = s[i]
  BY <1>3, <1>9, <1>10
<1> QED
  BY <1>1, <1>7, <1>8, <1>11 DEF Current

-----------------------------------------------------------------------------
(* A version names one text.                                               *)

IssuedUpTo(entries, id, n, t) ==
    \A e \in entries : e.id = id => e.version <= n /\ (e.version = n => e.text = t)

OneText(entries, id) ==
    \A d, e \in entries :
        d.id = id /\ e.id = id /\ d.version = e.version => d.text = e.text

(* VersionNamesOneText needs that nothing beyond the latest version, in    *)
(* memory or in the row that the next process loads, was ever issued.      *)
Settled(u) ==
    /\ Known(u) =>
          /\ OneText(issued, urlToDocId[u])
          /\ IssuedUpTo(issued, urlToDocId[u], LatestVersion(u), Latest(u).text)
    /\ table[u] # NoRow /\ NoWrite(u) =>
          /\ OneText(issued, table[u].id)
          /\ IssuedUpTo(issued, table[u].id, table[u].version, table[u].text)

VersionInv ==
    /\ unsynced \subseteq disturbed
    /\ \A u \in Urls \ disturbed : Settled(u)

\* Entries of other documents change nothing.
LEMMA OtherEntries ==
    ASSUME NEW S, NEW T, NEW id, \A e \in T : e.id = id => e \in S
    PROVE  /\ OneText(S, id) => OneText(T, id)
           /\ \A n, t : IssuedUpTo(S, id, n, t) => IssuedUpTo(T, id, n, t)
  BY DEF OneText, IssuedUpTo

\* The next version of a document has one text: there was none beyond.
LEMMA NextVersion ==
    ASSUME NEW S, S \subseteq Row, NEW id \in Ids, NEW n \in Nat, NEW s, NEW t \in Texts,
           OneText(S, id), IssuedUpTo(S, id, n, s),
           NEW T, T = S \cup {Entry(id, n + 1, t)}
    PROVE  OneText(T, id) /\ IssuedUpTo(T, id, n + 1, t)
<1> DEFINE x == Entry(id, n + 1, t)
<1>1. x.id = id /\ x.version = n + 1 /\ x.text = t /\ T = S \cup {x}
  BY DEF Entry
<1>2. \A e \in S : e.version \in Nat
  BY DEF Row
<1> HIDE DEF x
<1>3. \A e \in S : e.id = id => e.version < n + 1
  BY <1>2 DEF IssuedUpTo
<1>4. \A e \in S : e.id = id => e.version # n + 1
  BY <1>2, <1>3
<1> QED
  BY <1>1, <1>2, <1>3, <1>4 DEF OneText, IssuedUpTo

LEMMA SettledKept ==
    ASSUME NEW v \in Urls, Settled(v), Keeps(v), table'[v] = table[v],
           NoWrite(v)' => NoWrite(v),
           \A e \in issued' :
               \/ e \in issued
               \/ /\ e.id # urlToDocId[v]
                  /\ table[v] # NoRow => e.id # table[v].id
    PROVE  Settled(v)'
<1>1. /\ Known(v)' <=> Known(v)
      /\ Known(v) => Latest(v)' = Latest(v) /\ LatestVersion(v)' = LatestVersion(v)
  BY KeptLatest
<1>2. Known(v) =>
          /\ OneText(issued', urlToDocId[v])
          /\ IssuedUpTo(issued', urlToDocId[v], LatestVersion(v), Latest(v).text)
  BY OtherEntries DEF Settled
<1>3. ASSUME table[v] # NoRow, NoWrite(v)
      PROVE  /\ OneText(issued', table[v].id)
             /\ IssuedUpTo(issued', table[v].id, table[v].version, table[v].text)
  <2>1. /\ OneText(issued, table[v].id)
        /\ IssuedUpTo(issued, table[v].id, table[v].version, table[v].text)
    BY <1>3 DEF Settled
  <2>2. \A e \in issued' : e.id = table[v].id => e \in issued
    BY <1>3
  <2> QED
    BY <2>1, <2>2, OtherEntries
<1> QED
  BY <1>1, <1>2, <1>3 DEF Settled, Keeps

LEMMA VersionIngest ==
    ASSUME DocInv, VersionInv, NEW r \in Requests, NEW u \in Urls, NEW t \in Texts,
           Ingest(r, u, t)
    PROVE  VersionInv'
<1>1. PICK id \in Ids, n \in Nat : IngestOutcome(r, u, t, id, n)
  BY IngestOutcomes
<1>2. TypeOK /\ OneOwner
  BY DEF DocInv
<1> DEFINE write == [pc |-> "persisting", url |-> u, id |-> id, version |-> n, text |-> t]
<1>3. /\ request'[r] = write
      /\ request[r] = Idle
      /\ \A q \in Requests : q # r => request'[q] = request[q]
      /\ table' = table
      /\ disturbed \subseteq disturbed' /\ unsynced' \subseteq disturbed'
      /\ load.pc # "done" \/ (\E q \in Requests : Persisting(q, u)) => u \in disturbed'
  BY <1>1, <1>2 DEF IngestOutcome, AwaitPersist, Disturb, TypeOK, VersionInv
<1>4. \A e \in issued' : e \in issued \/ e = Entry(id, n, t)
  BY <1>1 DEF IngestOutcome
<1>5. ASSUME NEW v \in Urls, v \notin disturbed', v # u
      PROVE  Settled(v)'
  <2>1. Settled(v) /\ Keeps(v)
    BY <1>1, <1>3, <1>5, IngestOthers DEF VersionInv
  <2>2. ~Claims(v, id)
    <3>1. CASE Known(u)
      BY <1>1, <1>2, <1>5, <3>1 DEF IngestOutcome, OneOwner, Claims
    <3>2. CASE ~Known(u)
      BY <1>1, <1>2, <1>5, <3>2 DEF IngestOutcome, OneOwner
    <3> QED
      BY <3>1, <3>2
  <2>3. urlToDocId[v] # id /\ (table[v] # NoRow => table[v].id # id)
    BY <2>2 DEF Claims
  <2>4. NoWrite(v)' => NoWrite(v)
    BY <1>3, <1>5 DEF NoWrite, Persisting, Idle
  <2>5. \A e \in issued' :
            \/ e \in issued
            \/ e.id # urlToDocId[v] /\ (table[v] # NoRow => e.id # table[v].id)
    BY <1>4, <2>3 DEF Entry
  <2> QED
    BY <1>3, <2>1, <2>4, <2>5, SettledKept
<1>6. ASSUME u \notin disturbed'
      PROVE  Settled(u)'
  <2>1. Settled(u)
    BY <1>3, <1>6 DEF VersionInv
  <2>2. /\ Known(u)' /\ urlToDocId'[u] = id
        /\ LatestVersion(u)' = n /\ Latest(u)'.text = t
    BY <1>1, IngestLatest
  <2>3. ~NoWrite(u)'
    BY <1>3 DEF NoWrite, Persisting
  <2>4. OneText(issued', id) /\ IssuedUpTo(issued', id, n, t)
    <3>1. CASE Known(u) /\ id = urlToDocId[u] /\ n = LatestVersion(u)
                 /\ t = Latest(u).text /\ issued' = issued
      BY <2>1, <3>1 DEF Settled
    <3>2. CASE Known(u) /\ id = urlToDocId[u] /\ n = LatestVersion(u) + 1
                 /\ issued' = issued \cup {Entry(id, n, t)}
      <4>1. LatestVersion(u) \in Nat /\ issued \subseteq Row
        BY <1>2, <3>2, LatestType DEF DocInv, TypeOK
      <4>2. OneText(issued, id) /\ IssuedUpTo(issued, id, LatestVersion(u), Latest(u).text)
        BY <2>1, <3>2 DEF Settled
      <4> QED
        BY <3>2, <4>1, <4>2, NextVersion
    <3>3. CASE (\A e \in issued : e.id # id) /\ issued' = issued \cup {Entry(id, n, t)}
      BY <3>3 DEF OneText, IssuedUpTo, Entry
    <3> QED
      BY <1>1, <3>1, <3>2, <3>3 DEF IngestOutcome, IngestEffect
  <2> QED
    BY <2>2, <2>3, <2>4 DEF Settled
<1> QED
  BY <1>3, <1>5, <1>6 DEF VersionInv

LEMMA VersionPersist ==
    ASSUME DocInv, VersionInv, NEW r \in Requests, PersistCommits(r) \/ PersistFails(r)
    PROVE  VersionInv'
<1>1. TypeOK /\ request[r].pc = "persisting" /\ TypeOK'
  BY PersistType DEF DocInv, PersistCommits, PersistFails
<1> DEFINE u == request[r].url
<1>2. u \in Urls /\ Persisting(r, u)
  BY <1>1, PersistingType DEF Persisting
<1>3. /\ request'[r] = Done
      /\ \A q \in Requests : q # r => request'[q] = request[q]
      /\ issued' = issued
      /\ urlToDocId' = urlToDocId /\ documents' = documents
      /\ \A w \in Urls : w # u => table'[w] = table[w]
      /\ disturbed \subseteq disturbed' /\ unsynced' \subseteq disturbed'
  BY <1>1 DEF PersistCommits, PersistFails, Disturb, TypeOK, VersionInv
<1>4. ASSUME NEW v \in Urls, v \notin disturbed', v # u
      PROVE  Settled(v)'
  <2>1. Settled(v) /\ Keeps(v)
    BY <1>3, <1>4 DEF VersionInv, Keeps
  <2>2. NoWrite(v)' => NoWrite(v)
    BY <1>3, <1>4 DEF NoWrite, Persisting
  <2> QED
    BY <1>3, <1>4, <2>1, <2>2, SettledKept
<1>5. ASSUME NEW v \in Urls, v \notin disturbed', v = u
      PROVE  Settled(v)'
  <2>1. /\ Settled(v) /\ PersistCommits(r) /\ Persisting(r, v)
        /\ v \notin unsynced' /\ v \notin unsynced
    BY <1>2, <1>3, <1>5 DEF VersionInv, PersistFails, Disturb
  <2>2. load.pc = "done" /\ WriteInSync(r, v) /\ load' = load
    BY <1>2, <2>1 DEF DocInv, InSync, NoWrite, PersistCommits
  <2>3. NoWrite(v)'
    BY <1>3, <2>2 DEF NoWrite, Persisting, WriteInSync, Done
  <2>4. RowInSync(v)'
    BY <1>2, <2>1, <2>2, <2>3, PersistInSync DEF InSync
  <2>5. /\ Known(v) /\ Known(v)' /\ Latest(v)' = Latest(v) /\ LatestVersion(v)' = LatestVersion(v)
        /\ urlToDocId'[v] = urlToDocId[v]
    BY <1>3, <2>2 DEF WriteInSync, Known, Latest, LatestVersion
  <2>6. /\ OneText(issued, urlToDocId[v])
        /\ IssuedUpTo(issued, urlToDocId[v], LatestVersion(v), Latest(v).text)
    BY <2>1, <2>5 DEF Settled
  <2>7. /\ table'[v].id = urlToDocId[v] /\ table'[v].text = Latest(v).text
        /\ table'[v].version >= LatestVersion(v) /\ table'[v] # NoRow
    BY <2>4, <2>5 DEF RowInSync
  <2>8. table'[v].version \in Nat /\ LatestVersion(v) \in Nat
    <3>1. table'[v] \in Row
      BY <1>1, <1>2, <2>7 DEF TypeOK
    <3> QED
      BY <1>1, <1>2, <2>5, <3>1, LatestType DEF DocInv, Row
  <2>9. IssuedUpTo(issued, urlToDocId[v], table'[v].version, Latest(v).text)
    <3>1. \A e \in issued : e.version \in Nat
      BY <1>1 DEF TypeOK, Row
    <3> QED
      BY <2>6, <2>7, <2>8, <3>1 DEF IssuedUpTo
  <2> QED
    BY <1>3, <2>5, <2>6, <2>7, <2>9 DEF Settled
<1> QED
  BY <1>3, <1>4, <1>5 DEF VersionInv

LEMMA VersionLoadApplies ==
    ASSUME DocInv, VersionInv, LoadApplies
    PROVE  VersionInv'
<1>1. /\ TypeOK /\ OneOwner /\ load.pc = "fetched"
      /\ UNCHANGED <<table, request, unsynced, disturbed>>
      /\ issued' = issued \cup {RowRead(u) : u \in LoadedRows}
  BY DEF DocInv, LoadApplies, RowRead
<1>2. ASSUME NEW v \in Urls, v \notin disturbed
      PROVE  Settled(v)'
  <2>1. ~Known(v) /\ NoWrite(v) /\ RowRead(v) = table[v] /\ Settled(v)
    BY <1>1, <1>2 DEF VersionInv, DocInv, InSync, RowRead
  <2>2. CASE v \in LoadedRows
    <3>1. /\ RowRead(v) \in Row /\ urlToDocId'[v] = table[v].id
          /\ LatestVersion(v)' = table[v].version /\ Latest(v)'.text = table[v].text
      BY <2>1, <2>2, LoadedLatest
    <3>2. table[v] # NoRow
      BY <2>1, <3>1
    <3>3. \A u \in LoadedRows : RowRead(u).id = table[v].id => u = v
      <4>1. ASSUME NEW u \in LoadedRows, RowRead(u).id = table[v].id
            PROVE  u = v
        <5>1. u \in Urls /\ Claims(u, RowRead(u).id) /\ Claims(v, RowRead(u).id)
          BY <1>1, <3>2, <4>1 DEF LoadedRows, RowRead, Claims
        <5>2. RowRead(u).id \in Ids
          BY <2>1, <3>1, <4>1 DEF Row
        <5> QED
          BY <1>1, <5>1, <5>2 DEF OneOwner
      <4> QED
        BY <4>1
    <3>4. OneText(issued, table[v].id)
             /\ IssuedUpTo(issued, table[v].id, table[v].version, table[v].text)
      BY <2>1, <3>2 DEF Settled
    <3>5. \A e \in issued' : e.id = table[v].id => e \in issued \/ e = table[v]
      BY <1>1, <2>1, <3>3
    <3>6. OneText(issued', table[v].id)
             /\ IssuedUpTo(issued', table[v].id, table[v].version, table[v].text)
      <4>1. table[v].version <= table[v].version
        BY <2>1, <3>1 DEF Row
      <4> QED
        BY <3>4, <3>5, <4>1 DEF OneText, IssuedUpTo
    <3> QED
      BY <1>1, <3>1, <3>6 DEF Settled
  <2>3. CASE v \notin LoadedRows
    <3>1. ~Known(v)'
      BY <2>1, <2>3, LoadOutcome, KeptLatest
    <3>2. table'[v] = NoRow
      BY <1>1, <2>1, <2>3 DEF LoadedRows, RowRead
    <3> QED
      BY <3>1, <3>2 DEF Settled
  <2> QED
    BY <2>2, <2>3
<1> QED
  BY <1>1, <1>2 DEF VersionInv

LEMMA VersionRestart ==
    ASSUME DocInv, VersionInv, Restart
    PROVE  VersionInv'
<1>1. /\ UNCHANGED <<table, issued>> /\ unsynced' = {}
      /\ \A u \in Urls : ~Known(u)'
  BY DEF Restart, NothingIn, Known
<1>2. /\ disturbed \subseteq disturbed'
      /\ \A q \in Requests : request[q].pc = "persisting" => request[q].url \in disturbed'
  BY DEF Restart
<1>3. ASSUME NEW v \in Urls, v \notin disturbed'
      PROVE  Settled(v)'
  <2>1. NoWrite(v) /\ Settled(v)
    BY <1>2, <1>3 DEF VersionInv, NoWrite, Persisting
  <2> QED
    BY <1>1, <2>1 DEF Settled
<1> QED
  BY <1>1, <1>3 DEF VersionInv

LEMMA VersionStep == DocInv /\ VersionInv /\ [Next]_vars => VersionInv'
<1> SUFFICES ASSUME DocInv, VersionInv, [Next]_vars
             PROVE  VersionInv'
  OBVIOUS
<1>1. ASSUME UNCHANGED <<urlToDocId, documents, table, request, issued, unsynced, disturbed>>
      PROVE  VersionInv'
  <2>1. \A v \in Urls \ disturbed : Settled(v) /\ Keeps(v) /\ NoWrite(v)' = NoWrite(v)
    BY <1>1 DEF VersionInv, Keeps, NoWrite, Persisting
  <2>2. \A v \in Urls \ disturbed' : Settled(v)'
    BY <1>1, <2>1, SettledKept
  <2> QED
    BY <1>1, <2>2 DEF VersionInv
<1>2. CASE StartServices \/ LoadFetches
  BY <1>1, <1>2 DEF StartServices, LoadFetches
<1>3. CASE LoadFails
  BY <1>3 DEF LoadFails, Disturb, VersionInv
<1>4. CASE UNCHANGED vars
  BY <1>1, <1>4 DEF vars
<1> QED
  BY <1>2, <1>3, <1>4, Steps, VersionIngest, VersionPersist, VersionLoadApplies, VersionRestart

LEMMA VersionInvInit == Init => VersionInv
<1> SUFFICES ASSUME Init
             PROVE  VersionInv
  OBVIOUS
<1>1. unsynced = {} /\ \A u \in Urls : ~Known(u) /\ table[u] = NoRow
  BY DEF Init, NothingIn, Known
<1> QED
  BY <1>1 DEF VersionInv, Settled

-----------------------------------------------------------------------------
(* The theorems.                                                           *)

LEMMA DocInvInit == Init => DocInv
<1> SUFFICES ASSUME Init
             PROVE  DocInv
  OBVIOUS
<1>1. \A u \in Urls : ~Known(u) /\ NoWrite(u) /\ table[u] = NoRow
  BY DEF Init, NothingIn, Known, NoWrite, Persisting, Idle
<1>2. load.pc = "unstarted"
  BY DEF Init
<1>3. \A u \in Urls, id \in Ids : ~Claims(u, id)
  BY <1>1, <1>2 DEF Claims, NoWrite, Known
<1> QED
  BY <1>1, <1>2, <1>3, TypeInit DEF DocInv, OneOwner, Searchable, InSync

LEMMA DocInvCorrect == Spec => []DocInv
<1>1. DocInv /\ [Next]_vars => DocInv'
  BY TypeStep, OneOwnerStep, SearchableStep, InSyncStep DEF DocInv
<1> QED
  BY <1>1, DocInvInit, PTL DEF Spec

(* TypeOK holds in every reachable state of the document store.            *)
THEOREM TypeCorrect == Spec => []TypeOK
<1>1. DocInv => TypeOK
  BY DEF DocInv
<1> QED
  BY <1>1, DocInvCorrect, PTL

(* The latest version of every known URL is in the index under its text,   *)
(* however the load at startup, ingests and restarts interleave.           *)
THEOREM LatestIsSearchableCorrect == Spec => []LatestIsSearchable
<1>1. DocInv => LatestIsSearchable
  BY DEF DocInv, Searchable, LatestIsSearchable
<1> QED
  BY <1>1, DocInvCorrect, PTL

(* Without a lost write, writes of one URL under way together and ingests  *)
(* before the load, memory and table have one id and text for a URL, and   *)
(* the table's version is not behind: nothing else makes them differ.      *)
THEOREM MemoryMatchesTableCorrect == Spec => []MemoryMatchesTable
<1>1. DocInv => MemoryMatchesTable
  BY DEF DocInv, InSync, RowInSync, NoWrite, MemoryMatchesTable
<1> QED
  BY <1>1, DocInvCorrect, PTL

(* A search hit on a URL in sync is of the URL's one document and carries  *)
(* the version whose text it matched, however many versions are indexed.   *)
THEOREM HitsAreGenuineCorrect == Spec => []HitsAreGenuine
<1>1. TypeOK /\ HitInv => HitsAreGenuine
  BY HitsFollow
<1> QED
  BY <1>1, HitInvInit, HitStep, DocInvCorrect, TypeCorrect, PTL DEF Spec

(* A version number of a URL, once issued, names one text for good, across *)
(* restarts and reloads too, as long as nothing disturbed the URL.         *)
THEOREM VersionNamesOneTextCorrect == Spec => []VersionNamesOneText
<1>1. VersionInv => VersionNamesOneText
  BY DEF VersionInv, Settled, OneText, VersionNamesOneText
<1> QED
  BY <1>1, VersionInvInit, VersionStep, DocInvCorrect, PTL DEF Spec

=============================================================================
