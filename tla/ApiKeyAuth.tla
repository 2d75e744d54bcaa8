----------------------------- MODULE ApiKeyAuth -----------------------------
(***************************************************************************)
(* API key authentication and rotation: AuthService.authenticate with its  *)
(* per-process TTL cache in front of the api_keys table, and               *)
(* KeyManagementService.create_key and rotate_key.  Each gateway process   *)
(* is one asyncio event loop with a cache and a wall clock of its own; the *)
(* table is shared.  A step is the code between two awaits.  A prefix is   *)
(* random, so the table has at most one row for it: a key stands for its   *)
(* prefix, its row and its token.                                          *)
(***************************************************************************)
EXTENDS Integers, FiniteSets

CONSTANTS
    Keys,           \* API keys, created or not
    Processes,      \* gateway processes
    Requests,       \* request tasks, each used again and again
    ProcOf,         \* the process each request task runs in
    Rotations,      \* rotate_key calls under way, likewise
    Skew,           \* Skew[p]: how far p's wall clock is ahead of real time
    TTL,            \* cache_ttl_seconds
    MaxFetch,       \* command_timeout: the age at which an answer is given up
    MaxEntries,     \* max_size of the cache
    Graces,         \* values of rotation_grace_seconds passed by callers
    Expiries,       \* values of expires_at passed to create_key, or Never
    MaxTime,        \* bound: the clock stops here
    Never, NoRow, NoEntry

ASSUME ConstantsAssumption ==
    /\ ProcOf \in [Requests -> Processes]
    /\ Skew \in [Processes -> Nat]
    /\ TTL \in Nat /\ MaxFetch \in Nat
    /\ MaxEntries \in Nat \ {0}
    /\ MaxTime \in Nat
    /\ Graces \subseteq Nat
    /\ Expiries \subseteq Nat \cup {Never}
    /\ Never \notin Nat
    /\ IsFiniteSet(Keys)

\* A row of api_keys, as far as authenticate and rotate_key read it.
Row == [revoked : Nat \cup {Never}, grace : Graces, expires : Nat \cup {Never}]

Entry == [row : Row \cup {NoRow}, expires : Nat]

ASSUME SentinelAssumption == NoRow \notin Row /\ NoEntry \notin Entry

VARIABLES
    clock,          \* real time; time.monotonic of every process
    db,             \* db[k]: the row of k, or NoRow
    cache,          \* cache[p][k]: _TTLCache._store of process p
    request,        \* request[q]: position and data of authenticate
    rotation,       \* rotation[o]: position and data of rotate_key
    changed,        \* history: the time at which db[k] last changed
    successors      \* history: the keys rotate_key created in place of k

vars == <<clock, db, cache, request, rotation, changed, successors>>

Idle == [pc |-> "idle"]

\* Past _get_candidates a request carries the row found and the time of
\* the read ("fetched") or of the decision ("decided").
RequestStates ==
    {Idle}
    \cup [pc : {"fetching"}, key : Keys, genuine : BOOLEAN]
    \cup [pc : {"fetched", "decided"}, key : Keys, genuine : BOOLEAN,
          row : Row \cup {NoRow}, at : Nat]

RotationStates ==
    {Idle}
    \cup [pc : {"begun"}, proc : Processes, key : Keys,
          now : Nat, grace : Graces]
    \cup [pc : {"committed"}, proc : Processes, key : Keys]

TypeOK ==
    /\ clock \in Nat
    /\ db \in [Keys -> Row \cup {NoRow}]
    /\ cache \in [Processes -> [Keys -> Entry \cup {NoEntry}]]
    /\ request \in [Requests -> RequestStates]
    /\ rotation \in [Rotations -> RotationStates]
    /\ changed \in [Keys -> Nat]
    /\ successors \in [Keys -> SUBSET Keys]

Init ==
    /\ clock = 0
    /\ db = [k \in Keys |-> NoRow]
    /\ cache = [p \in Processes |-> [k \in Keys |-> NoEntry]]
    /\ request = [q \in Requests |-> Idle]
    /\ rotation = [o \in Rotations |-> Idle]
    /\ changed = [k \in Keys |-> 0]
    /\ successors = [k \in Keys |-> {}]

\* datetime.now(timezone.utc) in process p at time t
Wall(p, t) == t + Skew[p]

-----------------------------------------------------------------------------
(* The verdict of authenticate on the row it looked up (steps e to i).     *)

Expired(row, now) == row.expires # Never /\ now > row.expires

GraceOver(row, now) == row.revoked # Never /\ now > row.revoked + row.grace

OutcomeIgnoringGrace(row, genuine, now) ==
    IF row = NoRow \/ ~genuine  THEN "invalid_token"
    ELSE IF Expired(row, now)   THEN "expired_token"
    ELSE IF row.revoked # Never THEN "revoked_token"
    ELSE "accepted"

Outcome(row, genuine, now) ==
    IF row = NoRow \/ ~genuine  THEN "invalid_token"
    ELSE IF Expired(row, now)   THEN "expired_token"
    ELSE IF GraceOver(row, now) THEN "revoked_token"
    ELSE "accepted"

Decided(k, genuine, row) ==
    [pc |-> "decided", key |-> k, genuine |-> genuine, row |-> row, at |-> clock]

OutcomeOf(q) ==
    Outcome(request[q].row, request[q].genuine, Wall(ProcOf[q], request[q].at))

-----------------------------------------------------------------------------
(* authenticate, from the lookup on: a request without a bearer token or   *)
(* without a prefix in it is rejected before and touches nothing here.     *)

LiveNoExpiry(p, k) == cache[p][k] # NoEntry

\* A genuine token is one that create_key or rotate_key has handed out; any
\* other token with the prefix of k fails the hash check.
CanPresent(k, genuine) == genuine => db[k] # NoRow

\* _TTLCache.get finds an entry that has not expired.
Live(p, k) == cache[p][k] # NoEntry /\ clock <= cache[p][k].expires

AuthenticateHitSliding(q, k, genuine) ==
    LET p == ProcOf[q]
    IN  /\ request[q] = Idle
        /\ CanPresent(k, genuine)
        /\ Live(p, k)
        /\ cache' = [cache EXCEPT ![p][k].expires = clock + TTL]
        /\ request' = [request EXCEPT ![q] = Decided(k, genuine, cache[p][k].row)]
        /\ UNCHANGED <<clock, db, rotation, changed, successors>>

AuthenticateHit(q, k, genuine) ==
    LET p == ProcOf[q]
    IN  /\ request[q] = Idle
        /\ CanPresent(k, genuine)
        /\ Live(p, k)
        /\ request' = [request EXCEPT ![q] = Decided(k, genuine, cache[p][k].row)]
        /\ UNCHANGED <<clock, db, cache, rotation, changed, successors>>

(* No entry, or one that get finds expired and deletes: await the query.   *)
AuthenticateMiss(q, k, genuine) ==
    LET p == ProcOf[q]
    IN  /\ request[q] = Idle
        /\ CanPresent(k, genuine)
        /\ ~Live(p, k)
        /\ cache' = [cache EXCEPT ![p][k] = NoEntry]
        /\ request' = [request EXCEPT ![q] =
                          [pc |-> "fetching", key |-> k, genuine |-> genuine]]
        /\ UNCHANGED <<clock, db, rotation, changed, successors>>

\* The database evaluates the SELECT.
Fetch(q) ==
    /\ request[q].pc = "fetching"
    /\ request' = [request EXCEPT ![q] =
                      [pc |-> "fetched", key |-> @.key, genuine |-> @.genuine,
                       row |-> db[@.key], at |-> clock]]
    /\ UNCHANGED <<clock, db, cache, rotation, changed, successors>>

\* The connection or the command failed: authenticate raises.
FetchFails(q) ==
    /\ request[q].pc \in {"fetching", "fetched"}
    /\ request' = [request EXCEPT ![q] = Idle]
    /\ UNCHANGED <<clock, db, cache, rotation, changed, successors>>

Size(p) == Cardinality({k \in Keys : cache[p][k] # NoEntry})

PutRowsOnly(p, k, row) == cache' = [cache EXCEPT ![p][k] = row]

(* _TTLCache.put.  A full cache gives up the entry inserted first; here it *)
(* may be any, so what holds does so for every eviction order.             *)
Put(p, k, row) ==
    LET entry == [row |-> row, expires |-> clock + TTL]
    IN  IF Size(p) >= MaxEntries /\ cache[p][k] = NoEntry
        THEN \E victim \in Keys :
                /\ cache[p][victim] # NoEntry
                /\ cache' = [cache EXCEPT ![p][victim] = NoEntry, ![p][k] = entry]
        ELSE cache' = [cache EXCEPT ![p][k] = entry]

\* The query returns: put, verify and decide without another await.
FetchReturns(q) ==
    /\ request[q].pc = "fetched"
    /\ Put(ProcOf[q], request[q].key, request[q].row)
    /\ request' = [request EXCEPT ![q] = Decided(@.key, @.genuine, @.row)]
    /\ UNCHANGED <<clock, db, rotation, changed, successors>>

(* The response, or for a rejection first the auth_failure audit entry,    *)
(* whose loss changes nothing here.                                        *)
Respond(q) ==
    /\ request[q].pc = "decided"
    /\ request' = [request EXCEPT ![q] = Idle]
    /\ UNCHANGED <<clock, db, cache, rotation, changed, successors>>

(* invalidate_cache_for_prefix or revoke_key, called by a propagation      *)
(* mechanism outside this code.                                            *)
InvalidateCacheForPrefix(p, k) ==
    /\ cache[p][k] # NoEntry
    /\ cache' = [cache EXCEPT ![p][k] = NoEntry]
    /\ UNCHANGED <<clock, db, request, rotation, changed, successors>>

-----------------------------------------------------------------------------
(* create_key and rotate_key                                               *)

FreshRow(grace, expires) ==
    [revoked |-> Never, grace |-> grace, expires |-> expires]

RevokedRow(row, now, grace) ==
    [revoked |-> now, grace |-> grace, expires |-> row.expires]

CreateKey(k, grace, expires) ==
    /\ db[k] = NoRow
    /\ db' = [db EXCEPT ![k] = FreshRow(grace, expires)]
    /\ changed' = [changed EXCEPT ![k] = clock]
    /\ UNCHANGED <<clock, cache, request, rotation, successors>>

(* Validation, key generation and "now", then the wait for a connection.   *)
(* The key is named by its tenant and its prefix; with the tenant_id of    *)
(* another tenant, or a prefix that no key has, the UPDATE would match no  *)
(* row and the call fail.                                                  *)
RotateBegin(o, p, k, grace) ==
    /\ rotation[o] = Idle
    /\ db[k] # NoRow
    /\ rotation' = [rotation EXCEPT ![o] =
                       [pc |-> "begun", proc |-> p, key |-> k,
                        now |-> Wall(p, clock), grace |-> grace]]
    /\ UNCHANGED <<clock, db, cache, request, changed, successors>>

\* What the UPDATE of rotate_key matches.
RotatableIfRevoked(o) == db[rotation[o].key] # NoRow

Rotatable(o) ==
    /\ db[rotation[o].key] # NoRow
    /\ db[rotation[o].key].revoked = Never

RotateCommitNoInsert(o, new) ==
    LET old == rotation[o].key
    IN  /\ rotation[o].pc = "begun"
        /\ Rotatable(o)
        /\ db[new] = NoRow
        /\ db' = [db EXCEPT ![old] = RevokedRow(@, rotation[o].now, rotation[o].grace)]
        /\ changed' = [changed EXCEPT ![old] = clock]
        /\ rotation' = [rotation EXCEPT ![o] =
                           [pc |-> "committed", proc |-> @.proc, key |-> @.key]]
        /\ UNCHANGED <<clock, cache, request, successors>>

(* The transaction: the UPDATE keeps the row locked until the commit, so   *)
(* its condition still holds then.                                         *)
RotateCommit(o, new) ==
    LET old == rotation[o].key
    IN  /\ rotation[o].pc = "begun"
        /\ Rotatable(o)
        /\ db[new] = NoRow
        /\ db' = [db EXCEPT
                     ![old] = RevokedRow(@, rotation[o].now, rotation[o].grace),
                     ![new] = FreshRow(rotation[o].grace, Never)]
        /\ changed' = [changed EXCEPT ![old] = clock, ![new] = clock]
        /\ successors' = [successors EXCEPT ![old] = @ \cup {new}]
        /\ rotation' = [rotation EXCEPT ![o] =
                           [pc |-> "committed", proc |-> @.proc, key |-> @.key]]
        /\ UNCHANGED <<clock, cache, request>>

\* "UPDATE 0" (KeyNotFoundError), or the transaction failed and rolled back.
RotateFails(o) ==
    /\ rotation[o].pc = "begun"
    /\ rotation' = [rotation EXCEPT ![o] = Idle]
    /\ UNCHANGED <<clock, db, cache, request, changed, successors>>

\* The connection was released: invalidate the old prefix and return.
RotateReturns(o) ==
    LET p == rotation[o].proc
        k == rotation[o].key
    IN  /\ rotation[o].pc = "committed"
        /\ cache' = [cache EXCEPT ![p][k] = NoEntry]
        /\ rotation' = [rotation EXCEPT ![o] = Idle]
        /\ UNCHANGED <<clock, db, request, changed, successors>>

\* The answer to the commit was lost: rotate_key raises before step 4.
RotateAnswerLost(o) ==
    /\ rotation[o].pc = "committed"
    /\ rotation' = [rotation EXCEPT ![o] = Idle]
    /\ UNCHANGED <<clock, db, cache, request, changed, successors>>

-----------------------------------------------------------------------------
(* Time passes.  An answer older than the command timeout is given up, so  *)
(* time does not pass it.                                                  *)
Tick ==
    /\ clock < MaxTime
    /\ \A q \in Requests :
          request[q].pc = "fetched" => clock < request[q].at + MaxFetch
    /\ clock' = clock + 1
    /\ UNCHANGED <<db, cache, request, rotation, changed, successors>>

Next ==
    \/ Tick
    \/ \E q \in Requests :
         \/ \E k \in Keys, genuine \in BOOLEAN :
              AuthenticateHit(q, k, genuine) \/ AuthenticateMiss(q, k, genuine)
         \/ Fetch(q)
         \/ FetchFails(q)
         \/ FetchReturns(q)
         \/ Respond(q)
    \/ \E p \in Processes, k \in Keys : InvalidateCacheForPrefix(p, k)
    \/ \E k \in Keys, grace \in Graces, expires \in Expiries :
         CreateKey(k, grace, expires)
    \/ \E o \in Rotations :
         \/ \E p \in Processes, k \in Keys, grace \in Graces :
              RotateBegin(o, p, k, grace)
         \/ \E new \in Keys : RotateCommit(o, new)
         \/ RotateFails(o)
         \/ RotateReturns(o)
         \/ RotateAnswerLost(o)

Spec == Init /\ [][Next]_vars

-----------------------------------------------------------------------------
\* The time by which every process has noticed the last change of k's row.
NoticedBy(k) == changed[k] + MaxFetch + TTL

(* A cached row that the table no longer has is gone from the cache within *)
(* the TTL and the time one query takes, whatever order reads, writes of   *)
(* the cache and invalidations come in (R13.4; AuthService promises the    *)
(* TTL alone, which a read under way at the change exceeds).               *)
StaleEntriesExpire ==
    \A p \in Processes, k \in Keys :
        cache[p][k] # NoEntry /\ cache[p][k].row # db[k]
            => cache[p][k].expires <= NoticedBy(k)

Decision(q) == request[q].pc = "decided"

(* A key is accepted only before its expiry, and after the end of its      *)
(* grace period only until the rotation has been noticed (R13.4, R13.5).   *)
AcceptedOnlyWhileValid ==
    \A q \in Requests :
        Decision(q) /\ OutcomeOf(q) = "accepted" =>
            LET row == db[request[q].key]
                now == Wall(ProcOf[q], request[q].at)
            IN  /\ request[q].genuine
                /\ row # NoRow
                /\ ~Expired(row, now)
                /\ GraceOver(row, now) => request[q].at <= NoticedBy(request[q].key)

(* The holder of a key is turned away only for a reason: revoked_token     *)
(* means the grace period of its one rotation is over on this process's    *)
(* clock, expired_token that its expiry is past, and invalid_token that    *)
(* the row is too new to have been noticed (R13.5).                        *)
RejectedOnlyWhenDue ==
    \A q \in Requests :
        Decision(q) /\ request[q].genuine =>
            LET row == db[request[q].key]
                now == Wall(ProcOf[q], request[q].at)
            IN  /\ row # NoRow
                /\ OutcomeOf(q) = "invalid_token" =>
                      request[q].at <= NoticedBy(request[q].key)
                /\ OutcomeOf(q) = "expired_token" => Expired(row, now)
                /\ OutcomeOf(q) = "revoked_token" => GraceOver(row, now)

(* However rotations of one key race, fail or are tried again, a key that  *)
(* is revoked has been replaced by one new key, and only such a key is     *)
(* revoked: the UPDATE and the INSERT are one transaction.                 *)
RevokedHasOneSuccessor ==
    \A k \in Keys :
        Cardinality(successors[k]) =
            IF db[k] # NoRow /\ db[k].revoked # Never THEN 1 ELSE 0

(* A grace period once begun is neither extended, cut short nor undone.    *)
GraceIsFixed ==
    [][\A k \in Keys :
          db[k] # NoRow /\ db[k].revoked # Never => db'[k] = db[k]]_vars

(* rotate_key's documentation: both keys authenticate during the grace     *)
(* window, so the window is still open when the new key comes into being.  *)
HandoverInsideGrace ==
    [][\A o \in Rotations :
          rotation[o].pc = "begun" /\ rotation'[o].pc = "committed"
              => Wall(rotation[o].proc, clock) <= rotation[o].now + rotation[o].grace]_vars

=============================================================================
