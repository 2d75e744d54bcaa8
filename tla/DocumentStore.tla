---------------------------- MODULE DocumentStore ----------------------------
(***************************************************************************)
(* The documents of one gateway process: IndexerService.index_document     *)
(* keeps them in memory, with their index entries; POST /v1/index then     *)
(* writes them behind to PostgreSQL; and a process that starts reads the   *)
(* table back while it already serves requests.  All of it runs on one     *)
(* event loop: index_document and the application of the rows read have no *)
(* await in them and are one step each, the database answers in its own.   *)
(***************************************************************************)
EXTENDS Integers, SequencesExt

CONSTANTS
    Urls,           \* source URLs
    Texts,          \* cleaned texts; a text stands for its SHA-256 as well
    Ids,            \* document ids, fresh ones being drawn by uuid4
    Requests,       \* POST /v1/index calls
    Loaded,         \* "loaded", the content_hash given to a row read back
    NoDoc, NoRow

ASSUME ConstantsAssumption ==
    /\ Loaded \notin Texts
    /\ NoDoc \notin Ids

Version == [url : Urls, version : Nat, text : Texts, hash : Texts \cup {Loaded}]

Row == [id : Ids, version : Nat, text : Texts]

ASSUME NoRowAssumption == NoRow \notin Row

VARIABLES
    urlToDocId,     \* _url_to_doc_id
    documents,      \* _documents: the versions of each id, oldest first
    index,          \* entries of the vector and of the lexical index
    table,          \* table[u]: the row of u in the documents table
    load,           \* _load_persisted_documents: position and rows read
    request,        \* request[r]: what the call has still to persist
    issued,         \* history: versions that were ever in a process's memory
    unsynced,       \* history: URLs something went wrong with, since the start
    disturbed       \* history: the same, since ever

vars == <<urlToDocId, documents, index, table, load, request, issued,
          unsynced, disturbed>>

Idle == [pc |-> "idle"]

Done == [pc |-> "done"]

RequestStates ==
    {Idle, Done}
    \cup [pc : {"persisting"}, url : Urls, id : Ids, version : Nat, text : Texts]

LoadStates ==
    {[pc |-> "unstarted"], [pc |-> "querying"], Done}
    \cup [pc : {"fetched"}, rows : [Urls -> Row \cup {NoRow}]]

TypeOK ==
    /\ urlToDocId \in [Urls -> Ids \cup {NoDoc}]
    /\ documents \in [Ids -> Seq(Version)]
    /\ index \subseteq Row
    /\ table \in [Urls -> Row \cup {NoRow}]
    /\ load \in LoadStates
    /\ request \in [Requests -> RequestStates]
    /\ issued \subseteq Row
    /\ unsynced \subseteq Urls
    /\ disturbed \subseteq Urls

NothingIn(S, nothing) == [x \in S |-> nothing]

Init ==
    /\ urlToDocId = NothingIn(Urls, NoDoc)
    /\ documents = NothingIn(Ids, <<>>)
    /\ index = {}
    /\ table = NothingIn(Urls, NoRow)
    /\ load = [pc |-> "unstarted"]
    /\ request = [r \in Requests |-> Idle]
    /\ issued = {}
    /\ unsynced = {}
    /\ disturbed = {}

Disturb(urls) ==
    /\ unsynced' = unsynced \cup urls
    /\ disturbed' = disturbed \cup urls

-----------------------------------------------------------------------------
(* index_document                                                          *)

Known(u) == urlToDocId[u] # NoDoc

Latest(u) == Last(documents[urlToDocId[u]])

LatestVersion(u) == Latest(u).version

NewVersionHashesUrl(u, n, t) == [url |-> u, version |-> n, text |-> t, hash |-> u]

NewVersion(u, n, t) == [url |-> u, version |-> n, text |-> t, hash |-> t]

Entry(id, n, t) == [id |-> id, version |-> n, text |-> t]

\* Both indexes are dictionaries keyed by document id and version.
WriteIndexes(entries) ==
    {e \in index : ~\E f \in entries : f.id = e.id /\ f.version = e.version}
        \cup entries

SameHash(u, t) == Latest(u).hash = t

\* _get_services: the first request of the process schedules the load.
StartedLoad == IF load.pc = "unstarted" THEN [pc |-> "querying"] ELSE load

Persisting(r, u) == request[r].pc = "persisting" /\ request[r].url = u

(* What follows index_document in the handler: await _persist_document.    *)
(* The URL is disturbed if the rows are not loaded yet, or if another call *)
(* is still persisting it.                                                 *)
AwaitPersist(r, u, id, n, t) ==
    /\ request' = [request EXCEPT ![r] =
                      [pc |-> "persisting", url |-> u, id |-> id, version |-> n, text |-> t]]
    /\ load' = StartedLoad
    /\ Disturb(IF load.pc # "done" \/ \E q \in Requests : Persisting(q, u)
               THEN {u} ELSE {})
    /\ UNCHANGED table

\* Step 5: the content is the latest version's; only last_seen_at changes.
IngestSame(r, u, t) ==
    /\ request[r] = Idle
    /\ Known(u)
    /\ SameHash(u, t)
    /\ AwaitPersist(r, u, urlToDocId[u], LatestVersion(u), t)
    /\ UNCHANGED <<urlToDocId, documents, index, issued>>

IngestChangedSameVersion(r, u, t) ==
    LET id == urlToDocId[u]
        n == LatestVersion(u)
    IN  /\ request[r] = Idle
        /\ Known(u)
        /\ ~SameHash(u, t)
        /\ documents' = [documents EXCEPT ![id] = Append(@, NewVersion(u, n, t))]
        /\ index' = WriteIndexes({Entry(id, n, t)})
        /\ issued' = issued \cup {Entry(id, n, t)}
        /\ AwaitPersist(r, u, id, n, t)
        /\ UNCHANGED urlToDocId

\* Step 6: the next version.
IngestChanged(r, u, t) ==
    LET id == urlToDocId[u]
        n == LatestVersion(u) + 1
    IN  /\ request[r] = Idle
        /\ Known(u)
        /\ ~SameHash(u, t)
        /\ documents' = [documents EXCEPT ![id] = Append(@, NewVersion(u, n, t))]
        /\ index' = WriteIndexes({Entry(id, n, t)})
        /\ issued' = issued \cup {Entry(id, n, t)}
        /\ AwaitPersist(r, u, id, n, t)
        /\ UNCHANGED urlToDocId

\* Step 4: a document id of its own and version 1.
IngestNew(r, u, t, id) ==
    /\ request[r] = Idle
    /\ ~Known(u)
    /\ \A e \in issued : e.id # id
    /\ urlToDocId' = [urlToDocId EXCEPT ![u] = id]
    /\ documents' = [documents EXCEPT ![id] = <<NewVersion(u, 1, t)>>]
    /\ index' = WriteIndexes({Entry(id, 1, t)})
    /\ issued' = issued \cup {Entry(id, 1, t)}
    /\ AwaitPersist(r, u, id, 1, t)

-----------------------------------------------------------------------------
(* _persist_document                                                       *)

UpsertIgnores(row, q) ==
    IF row = NoRow THEN Entry(q.id, q.version, q.text) ELSE row

UpsertKeepsVersion(row, q) ==
    IF row = NoRow
    THEN Entry(q.id, q.version, q.text)
    ELSE Entry(row.id, row.version, q.text)

\* INSERT ... ON CONFLICT (source_url) DO UPDATE
Upsert(row, q) ==
    IF row = NoRow
    THEN Entry(q.id, q.version, q.text)
    ELSE Entry(row.id, row.version + 1, q.text)

PersistCommits(r) ==
    /\ request[r].pc = "persisting"
    /\ table' = [table EXCEPT ![request[r].url] = Upsert(@, request[r])]
    /\ request' = [request EXCEPT ![r] = Done]
    /\ UNCHANGED <<urlToDocId, documents, index, load, issued, unsynced, disturbed>>

\* "except Exception: pass": the call answers 201 all the same.
PersistFails(r) ==
    /\ request[r].pc = "persisting"
    /\ request' = [request EXCEPT ![r] = Done]
    /\ Disturb({request[r].url})
    /\ UNCHANGED <<urlToDocId, documents, index, table, load, issued>>

-----------------------------------------------------------------------------
(* _load_persisted_documents                                               *)

\* A request that indexes nothing is the first of the process.
StartServices ==
    /\ load.pc = "unstarted"
    /\ load' = StartedLoad
    /\ UNCHANGED <<urlToDocId, documents, index, table, request, issued,
                   unsynced, disturbed>>

LoadFetches ==
    /\ load.pc = "querying"
    /\ load' = [pc |-> "fetched", rows |-> table]
    /\ UNCHANGED <<urlToDocId, documents, index, table, request, issued,
                   unsynced, disturbed>>

LoadedVersion(u, row) ==
    [url |-> u, version |-> row.version, text |-> row.text, hash |-> Loaded]

LoadedRows == {u \in Urls : load.rows[u] # NoRow}

LoadAppliesDocumentsOnly ==
    /\ load.pc = "fetched"
    /\ urlToDocId' = [u \in Urls |->
                         IF u \in LoadedRows THEN load.rows[u].id ELSE urlToDocId[u]]
    /\ documents' = [id \in Ids |->
                        IF \E u \in LoadedRows : load.rows[u].id = id
                        THEN LET u == CHOOSE u \in LoadedRows : load.rows[u].id = id
                             IN  <<LoadedVersion(u, load.rows[u])>>
                        ELSE documents[id]]
    /\ load' = Done
    /\ UNCHANGED <<index, table, request, issued, unsynced, disturbed>>

(* Each row read replaces whatever the process holds for its URL and id.   *)
LoadApplies ==
    LET rows == {load.rows[u] : u \in LoadedRows}
    IN  /\ load.pc = "fetched"
        /\ urlToDocId' = [u \in Urls |->
                             IF u \in LoadedRows THEN load.rows[u].id ELSE urlToDocId[u]]
        /\ documents' = [id \in Ids |->
                            IF \E u \in LoadedRows : load.rows[u].id = id
                            THEN LET u == CHOOSE u \in LoadedRows : load.rows[u].id = id
                                 IN  <<LoadedVersion(u, load.rows[u])>>
                            ELSE documents[id]]
        /\ index' = WriteIndexes(rows)
        /\ issued' = issued \cup rows
        /\ load' = Done
        /\ UNCHANGED <<table, request, unsynced, disturbed>>

\* "except Exception: pass": the process goes on without the rows.
LoadFails ==
    /\ load.pc \in {"querying", "fetched"}
    /\ load' = Done
    /\ Disturb(Urls)
    /\ UNCHANGED <<urlToDocId, documents, index, table, request, issued>>

-----------------------------------------------------------------------------
(* The process restarts: its memory and the writes it awaits are gone.     *)
Restart ==
    LET lost == {r \in Requests : request[r].pc = "persisting"}
    IN  /\ urlToDocId' = NothingIn(Urls, NoDoc)
        /\ documents' = NothingIn(Ids, <<>>)
        /\ index' = {}
        /\ load' = [pc |-> "unstarted"]
        /\ request' = [r \in Requests |-> IF r \in lost THEN Done ELSE request[r]]
        /\ unsynced' = {}
        /\ disturbed' = disturbed \cup {request[r].url : r \in lost}
        /\ UNCHANGED <<table, issued>>

Next ==
    \/ \E r \in Requests :
         \/ \E u \in Urls, t \in Texts :
              \/ IngestSame(r, u, t)
              \/ IngestChanged(r, u, t)
              \/ \E id \in Ids : IngestNew(r, u, t, id)
         \/ PersistCommits(r)
         \/ PersistFails(r)
    \/ StartServices
    \/ LoadFetches
    \/ LoadApplies
    \/ LoadFails
    \/ Restart

Spec == Init /\ [][Next]_vars

-----------------------------------------------------------------------------
\* RetrieverService._get_document_version: the version an entry stands for,
\* or the latest one of its document.
Resolve(e) ==
    LET versions == documents[e.id]
        exact == {i \in DOMAIN versions : versions[i].version = e.version}
    IN  IF exact # {} THEN versions[CHOOSE i \in exact : \A j \in exact : i <= j]
        ELSE Last(versions)

(* Memory and table drift apart for three reasons only: a write that was   *)
(* lost, two writes of one URL under way at once, and an ingest before the *)
(* rows have been loaded.  Otherwise, once no write of a URL is under way, *)
(* both have one id and one text for it, and the table's version is not    *)
(* behind, so that a restart never takes a version back (R2.3).            *)
MemoryMatchesTable ==
    load.pc = "done" =>
        \A u \in Urls \ unsynced :
            (\A r \in Requests : ~Persisting(r, u)) =>
                /\ Known(u) <=> table[u] # NoRow
                /\ Known(u) =>
                      /\ table[u].id = urlToDocId[u]
                      /\ table[u].text = Latest(u).text
                      /\ table[u].version >= LatestVersion(u)

(* However loading and ingesting interleave, the latest version of every   *)
(* known URL can be found, under its own text (R2.1).                      *)
LatestIsSearchable ==
    \A u \in Urls :
        Known(u) => Entry(urlToDocId[u], LatestVersion(u), Latest(u).text) \in index

(* A hit on an undisturbed URL is of the URL's one document and carries    *)
(* the version whose text it matched: the retriever's fallback to the      *)
(* latest version never serves it.                                         *)
HitsAreGenuine ==
    \A e \in index :
        LET v == Resolve(e)
        IN  v.url \notin unsynced =>
                /\ e.id = urlToDocId[v.url]
                /\ v.version = e.version
                /\ v.text = e.text

(* A version once issued names one text for good, across restarts too, for *)
(* every URL that nothing ever disturbed (R2.3, R2.4).                     *)
VersionNamesOneText ==
    \A u \in Urls \ disturbed : Known(u) =>
        \A d, e \in issued :
            d.id = urlToDocId[u] /\ e.id = d.id /\ d.version = e.version
                => d.text = e.text

(* "document_id is assigned at first ingest and never changes": as long as *)
(* the process runs, a URL keeps the id it was given.                      *)
DocumentIdNeverChanges ==
    [][\A u \in Urls : Known(u) /\ urlToDocId'[u] # NoDoc
          => urlToDocId'[u] = urlToDocId[u]]_vars

=============================================================================
