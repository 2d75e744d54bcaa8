-------------------------- MODULE ApiKeyAuthProofs --------------------------
(* What ApiKeyAuth guarantees for all keys, processes, requests and        *)
(* rotations, every clock skew, cache lifetime, cache size, query timeout  *)
(* and grace period.                                                       *)
EXTENDS ApiKeyAuth, FiniteSetTheorems, TLAPS

USE ConstantsAssumption, SentinelAssumption DEF ConstantsAssumption

-----------------------------------------------------------------------------
(* Types.                                                                  *)

LEMMA TypeInit == Init => TypeOK
  BY DEF Init, TypeOK, RequestStates, RotationStates, Idle

\* put stores the row with a full lifetime and leaves or drops the rest.
LEMMA PutEffect ==
    ASSUME TypeOK, NEW p \in Processes, NEW k \in Keys, NEW row \in Row \cup {NoRow},
           Put(p, k, row)
    PROVE  /\ cache' \in [Processes -> [Keys -> Entry \cup {NoEntry}]]
           /\ cache'[p][k] = [row |-> row, expires |-> clock + TTL]
           /\ \A r \in Processes, j \in Keys :
                 \/ cache'[r][j] = cache[r][j]
                 \/ cache'[r][j] = NoEntry
                 \/ r = p /\ j = k
<1> DEFINE entry == [row |-> row, expires |-> clock + TTL]
<1>1. entry \in Entry
  BY DEF TypeOK, Entry
<1>2. cache \in [Processes -> [Keys -> Entry \cup {NoEntry}]]
  BY DEF TypeOK
<1>3. \/ cache' = [cache EXCEPT ![p][k] = entry]
      \/ \E victim \in Keys :
            cache' = [cache EXCEPT ![p][victim] = NoEntry, ![p][k] = entry]
  BY DEF Put
<1> HIDE DEF entry
<1>4. CASE cache' = [cache EXCEPT ![p][k] = entry]
  BY <1>1, <1>2, <1>4 DEF entry
<1>5. ASSUME NEW victim \in Keys,
             cache' = [cache EXCEPT ![p][victim] = NoEntry, ![p][k] = entry]
      PROVE  /\ cache' \in [Processes -> [Keys -> Entry \cup {NoEntry}]]
             /\ cache'[p][k] = entry
             /\ \A r \in Processes, j \in Keys :
                   \/ cache'[r][j] = cache[r][j]
                   \/ cache'[r][j] = NoEntry
                   \/ r = p /\ j = k
  BY <1>1, <1>2, <1>5
<1> QED
  BY <1>3, <1>4, <1>5 DEF entry

LEMMA RequestType ==
    ASSUME TypeOK, NEW q \in Requests
    PROVE  /\ request[q].pc \in {"fetching", "fetched", "decided"} =>
                 request[q].key \in Keys /\ request[q].genuine \in BOOLEAN
           /\ request[q].pc \in {"fetched", "decided"} =>
                 request[q].row \in Row \cup {NoRow} /\ request[q].at \in Nat
  BY DEF TypeOK, RequestStates, Idle

LEMMA RotationType ==
    ASSUME TypeOK, NEW o \in Rotations
    PROVE  /\ rotation[o].pc \in {"begun", "committed"} =>
                 rotation[o].key \in Keys /\ rotation[o].proc \in Processes
           /\ rotation[o].pc = "begun" =>
                 rotation[o].now \in Nat /\ rotation[o].grace \in Graces
  BY DEF TypeOK, RotationStates, Idle

LEMMA TypeRequests ==
    ASSUME TypeOK, NEW q \in Requests,
           \/ \E k \in Keys, genuine \in BOOLEAN :
                AuthenticateHit(q, k, genuine) \/ AuthenticateMiss(q, k, genuine)
           \/ Fetch(q)
           \/ FetchFails(q)
           \/ FetchReturns(q)
           \/ Respond(q)
    PROVE  TypeOK'
<1>1. ASSUME NEW k \in Keys, NEW genuine \in BOOLEAN, AuthenticateHit(q, k, genuine)
      PROVE  TypeOK'
  <2>1. cache[ProcOf[q]][k].row \in Row \cup {NoRow}
    BY <1>1 DEF AuthenticateHit, Live, TypeOK, Entry
  <2> QED
    BY <1>1, <2>1 DEF AuthenticateHit, Decided, TypeOK, RequestStates
<1>2. ASSUME NEW k \in Keys, NEW genuine \in BOOLEAN, AuthenticateMiss(q, k, genuine)
      PROVE  TypeOK'
  BY <1>2 DEF AuthenticateMiss, TypeOK, RequestStates
<1>3. CASE Fetch(q)
  BY <1>3, RequestType DEF Fetch, TypeOK, RequestStates
<1>4. CASE FetchFails(q)
  BY <1>4 DEF FetchFails, TypeOK, RequestStates
<1>5. CASE FetchReturns(q)
  <2>1. /\ request[q].key \in Keys /\ request[q].genuine \in BOOLEAN
        /\ request[q].row \in Row \cup {NoRow}
    BY <1>5, RequestType DEF FetchReturns
  <2>2. cache' \in [Processes -> [Keys -> Entry \cup {NoEntry}]]
    BY <1>5, <2>1, PutEffect DEF FetchReturns
  <2> QED
    BY <1>5, <2>1, <2>2 DEF FetchReturns, Decided, TypeOK, RequestStates
<1>6. CASE Respond(q)
  BY <1>6 DEF Respond, TypeOK, RequestStates
<1> QED
  BY <1>1, <1>2, <1>3, <1>4, <1>5, <1>6

LEMMA CommitRows ==
    ASSUME TypeOK, NEW o \in Rotations, NEW new \in Keys, RotateCommit(o, new)
    PROVE  LET old == rotation[o].key
           IN  /\ old \in Keys /\ old # new
               /\ db[old] \in Row /\ db[old].revoked = Never /\ db[new] = NoRow
               /\ db'[old] = RevokedRow(db[old], rotation[o].now, rotation[o].grace)
               /\ db'[new] = FreshRow(rotation[o].grace, Never)
               /\ \A k \in Keys \ {old, new} : db'[k] = db[k]
               /\ db' \in [Keys -> Row \cup {NoRow}]
<1> DEFINE old == rotation[o].key
<1>1. /\ old \in Keys
      /\ rotation[o].now \in Nat /\ rotation[o].grace \in Graces
  BY RotationType DEF RotateCommit
<1>2. /\ db[old] # NoRow /\ db[new] = NoRow /\ db[old].revoked = Never
      /\ db' = [db EXCEPT ![old] = RevokedRow(@, rotation[o].now, rotation[o].grace),
                          ![new] = FreshRow(rotation[o].grace, Never)]
  BY DEF RotateCommit, Rotatable
<1> HIDE DEF old
<1>3. db \in [Keys -> Row \cup {NoRow}] /\ db[old] \in Row /\ old # new
  BY <1>1, <1>2 DEF TypeOK
<1>4. RevokedRow(db[old], rotation[o].now, rotation[o].grace) \in Row
  BY <1>1, <1>3 DEF Row, RevokedRow
<1>5. /\ db'[old] = RevokedRow(db[old], rotation[o].now, rotation[o].grace)
      /\ db'[new] = FreshRow(rotation[o].grace, Never)
      /\ \A k \in Keys \ {old, new} : db'[k] = db[k]
  BY <1>1, <1>2, <1>3
<1>6. db'[old] \in Row /\ db'[new] \in Row
  BY <1>1, <1>4, <1>5 DEF Row, FreshRow
<1>7. db' \in [Keys -> Row \cup {NoRow}]
  BY <1>1, <1>2, <1>3, <1>5, <1>6
<1> QED
  BY <1>1, <1>2, <1>3, <1>5, <1>7 DEF old

LEMMA TypeKeys ==
    ASSUME TypeOK,
           \/ \E p \in Processes, k \in Keys : InvalidateCacheForPrefix(p, k)
           \/ \E k \in Keys, grace \in Graces, expires \in Expiries :
                CreateKey(k, grace, expires)
           \/ \E o \in Rotations :
                \/ \E p \in Processes, k \in Keys, grace \in Graces :
                     RotateBegin(o, p, k, grace)
                \/ \E new \in Keys : RotateCommit(o, new)
                \/ RotateFails(o)
                \/ RotateReturns(o)
                \/ RotateAnswerLost(o)
    PROVE  TypeOK'
<1>1. ASSUME NEW p \in Processes, NEW k \in Keys, InvalidateCacheForPrefix(p, k)
      PROVE  TypeOK'
  BY <1>1 DEF InvalidateCacheForPrefix, TypeOK
<1>2. ASSUME NEW k \in Keys, NEW grace \in Graces, NEW expires \in Expiries,
             CreateKey(k, grace, expires)
      PROVE  TypeOK'
  <2>1. FreshRow(grace, expires) \in Row
    BY DEF FreshRow, Row
  <2> QED
    BY <1>2, <2>1 DEF CreateKey, TypeOK
<1>3. ASSUME NEW o \in Rotations, NEW p \in Processes, NEW k \in Keys,
             NEW grace \in Graces, RotateBegin(o, p, k, grace)
      PROVE  TypeOK'
  <2>1. Wall(p, clock) \in Nat
    BY DEF Wall, TypeOK
  <2> QED
    BY <1>3, <2>1 DEF RotateBegin, TypeOK, RotationStates
<1>4. ASSUME NEW o \in Rotations, NEW new \in Keys, RotateCommit(o, new)
      PROVE  TypeOK'
  <2>1. db' \in [Keys -> Row \cup {NoRow}] /\ rotation[o].key \in Keys
    BY <1>4, CommitRows
  <2>2. changed' \in [Keys -> Nat] /\ successors' \in [Keys -> SUBSET Keys]
    BY <1>4, <2>1 DEF RotateCommit, TypeOK
  <2>3. rotation' \in [Rotations -> RotationStates]
    BY <1>4, RotationType DEF RotateCommit, TypeOK, RotationStates
  <2> QED
    BY <1>4, <2>1, <2>2, <2>3 DEF RotateCommit, TypeOK
<1>5. ASSUME NEW o \in Rotations, RotateFails(o) \/ RotateAnswerLost(o)
      PROVE  TypeOK'
  BY <1>5 DEF RotateFails, RotateAnswerLost, TypeOK, RotationStates
<1>6. ASSUME NEW o \in Rotations, RotateReturns(o)
      PROVE  TypeOK'
  BY <1>6, RotationType DEF RotateReturns, TypeOK, RotationStates
<1> QED
  BY <1>1, <1>2, <1>3, <1>4, <1>5, <1>6

LEMMA TypeStep == TypeOK /\ [Next]_vars => TypeOK'
<1> SUFFICES ASSUME TypeOK, [Next]_vars
             PROVE  TypeOK'
  OBVIOUS
<1>1. CASE Tick
  BY <1>1 DEF Tick, TypeOK
<1>2. CASE UNCHANGED vars
  BY <1>2 DEF vars, TypeOK
<1> QED
  BY <1>1, <1>2, TypeRequests, TypeKeys DEF Next

(* TypeOK holds in every reachable state.                                  *)
THEOREM TypeCorrect == Spec => []TypeOK
  BY TypeInit, TypeStep, PTL DEF Spec

-----------------------------------------------------------------------------
(* What a step may do to a row, to a cached entry and to the clock.        *)

\* A row is left alone, created, or revoked for the first time.
RowStep(k) ==
    \/ db'[k] = db[k] /\ changed'[k] = changed[k]
    \/ /\ clock' = clock /\ changed'[k] = clock /\ db'[k] # NoRow
       /\ db[k] # NoRow => db[k].revoked = Never /\ db'[k].expires = db[k].expires

LEMMA RowSteps ==
    ASSUME TypeOK, [Next]_vars, NEW k \in Keys
    PROVE  RowStep(k)
<1>1. ASSUME NEW j \in Keys, NEW grace \in Graces, NEW expires \in Expiries,
             CreateKey(j, grace, expires)
      PROVE  RowStep(k)
  <2>1. FreshRow(grace, expires) \in Row
    BY DEF FreshRow, Row
  <2>2. db \in [Keys -> Row \cup {NoRow}] /\ changed \in [Keys -> Nat]
    BY DEF TypeOK
  <2>3. CASE j = k
    BY <1>1, <2>1, <2>2, <2>3 DEF CreateKey, RowStep
  <2>4. CASE j # k
    BY <1>1, <2>2, <2>4 DEF CreateKey, RowStep
  <2> QED
    BY <2>3, <2>4
<1>2. ASSUME NEW o \in Rotations, NEW new \in Keys, RotateCommit(o, new)
      PROVE  RowStep(k)
  <2> DEFINE old == rotation[o].key
  <2>1. /\ old \in Keys /\ old # new
        /\ db[old] \in Row /\ db[old].revoked = Never /\ db[new] = NoRow
        /\ db'[old] = RevokedRow(db[old], rotation[o].now, rotation[o].grace)
        /\ db'[new] = FreshRow(rotation[o].grace, Never)
        /\ \A j \in Keys \ {old, new} : db'[j] = db[j]
        /\ db' \in [Keys -> Row \cup {NoRow}]
    BY <1>2, CommitRows
  <2>2. /\ clock' = clock /\ changed'[old] = clock /\ changed'[new] = clock
        /\ \A j \in Keys \ {old, new} : changed'[j] = changed[j]
    BY <1>2, <2>1 DEF RotateCommit, TypeOK
  <2>3. /\ rotation[o].now \in Nat /\ rotation[o].grace \in Graces
    BY <1>2, RotationType DEF RotateCommit
  <2>4. db'[old] # NoRow /\ db'[new] # NoRow /\ db'[old].expires = db[old].expires
    BY <2>1, <2>3 DEF RevokedRow, FreshRow, Row
  <2> HIDE DEF old
  <2> QED
    BY <2>1, <2>2, <2>4 DEF RowStep
<1>3. CASE UNCHANGED <<db, changed>>
  BY <1>3 DEF RowStep
<1> QED
  BY <1>1, <1>2, <1>3 DEF Next, vars, Tick, AuthenticateHit, AuthenticateMiss, Fetch,
     FetchFails, FetchReturns, Respond, InvalidateCacheForPrefix, RotateBegin,
     RotateFails, RotateReturns, RotateAnswerLost

\* A cached entry is left alone, removed, or put by a request that fetched it.
EntryStep(p, k) ==
    \/ cache'[p][k] = cache[p][k]
    \/ cache'[p][k] = NoEntry
    \/ \E q \in Requests :
         /\ request[q].pc = "fetched" /\ request[q].key = k
         /\ cache'[p][k] = [row |-> request[q].row, expires |-> clock + TTL]
         /\ UNCHANGED <<clock, db, changed>>

LEMMA EntrySteps ==
    ASSUME TypeOK, [Next]_vars, NEW p \in Processes, NEW k \in Keys
    PROVE  EntryStep(p, k)
<1>1. ASSUME NEW q \in Requests, FetchReturns(q)
      PROVE  EntryStep(p, k)
  <2> DEFINE j == request[q].key
  <2>1. j \in Keys /\ request[q].row \in Row \cup {NoRow} /\ ProcOf[q] \in Processes
    BY <1>1, RequestType DEF FetchReturns
  <2>2. Put(ProcOf[q], j, request[q].row) /\ UNCHANGED <<clock, db, changed>>
        /\ request[q].pc = "fetched"
    BY <1>1 DEF FetchReturns
  <2>3. /\ cache'[ProcOf[q]][j] = [row |-> request[q].row, expires |-> clock + TTL]
        /\ \/ cache'[p][k] = cache[p][k]
           \/ cache'[p][k] = NoEntry
           \/ p = ProcOf[q] /\ k = j
    <3> HIDE DEF j
    <3> QED
      BY <2>1, <2>2, PutEffect
  <2> QED
    BY <2>2, <2>3 DEF EntryStep
<1>2. ASSUME NEW r \in Processes, NEW j \in Keys, cache' = [cache EXCEPT ![r][j] = NoEntry]
      PROVE  EntryStep(p, k)
  BY <1>2 DEF EntryStep, TypeOK
<1>3. ASSUME NEW o \in Rotations, RotateReturns(o)
      PROVE  EntryStep(p, k)
  BY <1>2, <1>3, RotationType DEF RotateReturns
<1>4. ASSUME NEW q \in Requests, NEW j \in Keys, NEW genuine \in BOOLEAN,
             AuthenticateMiss(q, j, genuine)
      PROVE  EntryStep(p, k)
  BY <1>2, <1>4 DEF AuthenticateMiss
<1>5. ASSUME NEW r \in Processes, NEW j \in Keys, InvalidateCacheForPrefix(r, j)
      PROVE  EntryStep(p, k)
  BY <1>2, <1>5 DEF InvalidateCacheForPrefix
<1>6. CASE UNCHANGED cache
  BY <1>6 DEF EntryStep
<1> QED
  BY <1>1, <1>3, <1>4, <1>5, <1>6 DEF Next, vars, Tick, AuthenticateHit, Fetch,
     FetchFails, Respond, CreateKey, RotateBegin, RotateCommit, RotateFails,
     RotateAnswerLost

LEMMA ClockSteps ==
    ASSUME TypeOK, [Next]_vars
    PROVE  clock' = clock \/ (Tick /\ clock' = clock + 1)
  BY DEF Next, vars, Tick, AuthenticateHit, AuthenticateMiss, Fetch, FetchFails,
     FetchReturns, Respond, InvalidateCacheForPrefix, CreateKey, RotateBegin,
     RotateCommit, RotateFails, RotateReturns, RotateAnswerLost

-----------------------------------------------------------------------------
(* The inductive invariant.  Every copy of a row, in a cache or in a       *)
(* request, is an earlier version of the row in the table; one that is no  *)
(* longer current was read before the last change, and its age is bounded  *)
(* by the query timeout while it is under way and by the TTL once cached.  *)

\* row is the current row or an earlier version of it.
Version(row, current) ==
    row # NoRow =>
        /\ current # NoRow
        /\ row.expires = current.expires
        /\ row.revoked # Never => row = current

EntryInv(p, k) ==
    cache[p][k] # NoEntry =>
        /\ cache[p][k].expires <= clock + TTL
        /\ Version(cache[p][k].row, db[k])
        /\ cache[p][k].row # db[k] => cache[p][k].expires <= NoticedBy(k)

FetchedInv(q) ==
    request[q].pc = "fetched" =>
        /\ request[q].at <= clock
        /\ clock <= request[q].at + MaxFetch
        /\ Version(request[q].row, db[request[q].key])
        /\ request[q].row # db[request[q].key]
              => request[q].at <= changed[request[q].key]

DecidedInv(q) ==
    request[q].pc = "decided" =>
        /\ request[q].at <= clock
        /\ Version(request[q].row, db[request[q].key])
        /\ request[q].row # db[request[q].key]
              => request[q].at <= NoticedBy(request[q].key)

GenuineInv(q) ==
    request[q].pc # "idle" /\ request[q].genuine => db[request[q].key] # NoRow

RequestInv(q) == FetchedInv(q) /\ DecidedInv(q) /\ GenuineInv(q)

AuthInv ==
    /\ TypeOK
    /\ \A p \in Processes, k \in Keys : EntryInv(p, k)
    /\ \A q \in Requests : RequestInv(q)

LEMMA AuthInvInit == Init => AuthInv
<1> SUFFICES ASSUME Init
             PROVE  AuthInv
  OBVIOUS
<1>1. \A p \in Processes, k \in Keys : EntryInv(p, k)
  BY DEF Init, EntryInv
<1>2. \A q \in Requests : RequestInv(q)
  BY DEF Init, Idle, RequestInv, FetchedInv, DecidedInv, GenuineInv
<1> QED
  BY <1>1, <1>2, TypeInit DEF AuthInv

\* A version of a row remains one, whatever the step does to the row.
LEMMA VersionStays ==
    ASSUME TypeOK, NEW k \in Keys, RowStep(k), NEW row \in Row \cup {NoRow},
           Version(row, db[k])
    PROVE  Version(row, db'[k])
<1>1. CASE db'[k] = db[k]
  BY <1>1
<1>2. CASE db'[k] # db[k]
  <2>1. /\ db'[k] # NoRow
        /\ db[k] # NoRow => db[k].revoked = Never /\ db'[k].expires = db[k].expires
    BY <1>2 DEF RowStep
  <2> QED
    BY <2>1 DEF Version
<1> QED
  BY <1>1, <1>2

LEMMA EntryPreserved ==
    ASSUME AuthInv, TypeOK', [Next]_vars, NEW p \in Processes, NEW k \in Keys
    PROVE  EntryInv(p, k)'
<1> USE DEF NoticedBy
<1>1. RowStep(k) /\ EntryStep(p, k) /\ EntryInv(p, k)
  BY RowSteps, EntrySteps DEF AuthInv
<1>2. /\ clock \in Nat /\ clock' \in Nat /\ changed[k] \in Nat /\ changed'[k] \in Nat
      /\ clock <= clock' /\ cache[p][k] \in Entry \cup {NoEntry}
  BY ClockSteps DEF AuthInv, TypeOK
<1>3. CASE cache'[p][k] = NoEntry
  BY <1>3 DEF EntryInv
<1>4. CASE cache'[p][k] = cache[p][k] /\ cache[p][k] # NoEntry
  <2>1. cache[p][k].row \in Row \cup {NoRow} /\ cache[p][k].expires \in Nat
    BY <1>2, <1>4 DEF Entry
  <2>2. cache[p][k].expires <= clock' + TTL
    BY <1>1, <1>2, <1>4, <2>1 DEF EntryInv
  <2>3. Version(cache[p][k].row, db'[k])
    BY <1>1, <1>4, <2>1, VersionStays DEF EntryInv, AuthInv
  <2>4. ASSUME cache[p][k].row # db'[k]
        PROVE  cache[p][k].expires <= changed'[k] + MaxFetch + TTL
    BY <1>1, <1>2, <1>4, <2>1, <2>4 DEF EntryInv, RowStep
  <2> QED
    BY <1>4, <2>2, <2>3, <2>4 DEF EntryInv
<1>5. ASSUME NEW q \in Requests,
             request[q].pc = "fetched", request[q].key = k,
             cache'[p][k] = [row |-> request[q].row, expires |-> clock + TTL],
             UNCHANGED <<clock, db, changed>>
      PROVE  EntryInv(p, k)'
  <2>1. FetchedInv(q) /\ request[q].at \in Nat
    BY <1>5, RequestType DEF AuthInv, RequestInv
  <2>2. /\ cache'[p][k].row = request[q].row
        /\ cache'[p][k].expires = clock + TTL
    BY <1>5
  <2>3. request[q].row # db[k] => clock + TTL <= changed[k] + MaxFetch + TTL
    BY <1>2, <1>5, <2>1 DEF FetchedInv
  <2> QED
    BY <1>2, <1>5, <2>1, <2>2, <2>3 DEF EntryInv, FetchedInv
<1> QED
  BY <1>1, <1>3, <1>4, <1>5 DEF EntryStep

\* A request that does not move: only rows and the clock may change.
LEMMA RestingRequest ==
    ASSUME AuthInv, TypeOK', [Next]_vars, NEW q \in Requests, request'[q] = request[q]
    PROVE  RequestInv(q)'
<1> USE DEF NoticedBy
<1> DEFINE k == request[q].key
<1>1. /\ request[q].pc # "idle" => k \in Keys
      /\ request[q].pc \in {"fetched", "decided"} =>
            request[q].row \in Row \cup {NoRow} /\ request[q].at \in Nat
  BY DEF AuthInv, TypeOK, RequestStates, Idle
<1>2. k \in Keys => RowStep(k)
  BY RowSteps DEF AuthInv
<1>3. /\ clock \in Nat /\ clock' \in Nat /\ clock <= clock'
      /\ k \in Keys => changed[k] \in Nat /\ changed'[k] \in Nat
  BY ClockSteps DEF AuthInv, TypeOK
<1>4. RequestInv(q)
  BY DEF AuthInv
<1>5. GenuineInv(q)'
  BY <1>1, <1>2, <1>4 DEF RequestInv, GenuineInv, RowStep
<1>6. ASSUME request[q].pc = "fetched"
      PROVE  FetchedInv(q)'
  <2>1. clock' <= request[q].at + MaxFetch
    <3>1. clock <= request[q].at + MaxFetch
      BY <1>4, <1>6 DEF RequestInv, FetchedInv
    <3>2. Tick => clock < request[q].at + MaxFetch
      BY <1>6 DEF Tick
    <3> QED
      BY <1>1, <1>3, <1>6, <3>1, <3>2, ClockSteps DEF AuthInv
  <2>2. Version(request[q].row, db'[k])
    BY <1>1, <1>2, <1>4, <1>6, VersionStays DEF RequestInv, FetchedInv, AuthInv
  <2>3. request[q].row # db'[k] => request[q].at <= changed'[k]
    BY <1>1, <1>2, <1>3, <1>4, <1>6 DEF RequestInv, FetchedInv, RowStep
  <2> QED
    BY <1>1, <1>3, <1>4, <1>6, <2>1, <2>2, <2>3 DEF FetchedInv, RequestInv
<1>7. ASSUME request[q].pc = "decided"
      PROVE  DecidedInv(q)'
  <2>1. Version(request[q].row, db'[k])
    BY <1>1, <1>2, <1>4, <1>7, VersionStays DEF RequestInv, DecidedInv, AuthInv
  <2>2. request[q].row # db'[k] => request[q].at <= changed'[k] + MaxFetch + TTL
    BY <1>1, <1>2, <1>3, <1>4, <1>7 DEF RequestInv, DecidedInv, RowStep
  <2> QED
    BY <1>1, <1>3, <1>4, <1>7, <2>1, <2>2 DEF DecidedInv, RequestInv
<1> QED
  BY <1>5, <1>6, <1>7 DEF RequestInv, FetchedInv, DecidedInv

LEMMA RequestPreserved ==
    ASSUME AuthInv, TypeOK', [Next]_vars, NEW q \in Requests
    PROVE  RequestInv(q)'
<1> USE DEF NoticedBy
<1>0. TypeOK
  BY DEF AuthInv
<1>1. ASSUME NEW k \in Keys, NEW genuine \in BOOLEAN, AuthenticateHit(q, k, genuine)
      PROVE  RequestInv(q)'
  <2> DEFINE e == cache[ProcOf[q]][k]
  <2>1. /\ request'[q] = Decided(k, genuine, e.row)
        /\ e # NoEntry /\ clock <= e.expires /\ CanPresent(k, genuine)
        /\ UNCHANGED <<clock, db, changed>>
    BY <1>0, <1>1 DEF AuthenticateHit, Live, TypeOK
  <2>2. EntryInv(ProcOf[q], k) /\ e \in Entry /\ clock \in Nat /\ changed[k] \in Nat
    BY <2>1 DEF AuthInv, TypeOK
  <2>3. Version(e.row, db[k]) /\ (e.row # db[k] => clock <= changed[k] + MaxFetch + TTL)
    BY <2>1, <2>2 DEF EntryInv, Entry
  <2>4. /\ request'[q].pc = "decided" /\ request'[q].key = k /\ request'[q].genuine = genuine
        /\ request'[q].row = e.row /\ request'[q].at = clock
    BY <2>1 DEF Decided
  <2> HIDE DEF e
  <2> QED
    BY <2>1, <2>2, <2>3, <2>4 DEF RequestInv, FetchedInv, DecidedInv, GenuineInv, CanPresent
<1>2. ASSUME NEW k \in Keys, NEW genuine \in BOOLEAN, AuthenticateMiss(q, k, genuine)
      PROVE  RequestInv(q)'
  BY <1>0, <1>2 DEF AuthenticateMiss, CanPresent, TypeOK, RequestInv, FetchedInv, DecidedInv,
     GenuineInv
<1>3. CASE Fetch(q)
  <2>1. request[q].key \in Keys /\ clock \in Nat
    BY <1>0, <1>3, RequestType DEF Fetch, TypeOK
  <2>2. /\ request'[q].pc = "fetched" /\ request'[q].key = request[q].key
        /\ request'[q].genuine = request[q].genuine
        /\ request'[q].row = db[request[q].key] /\ request'[q].at = clock
        /\ UNCHANGED <<clock, db, changed>>
    BY <1>0, <1>3 DEF Fetch, TypeOK
  <2>3. GenuineInv(q)'
    BY <1>3, <2>2 DEF AuthInv, RequestInv, GenuineInv, Fetch
  <2> QED
    BY <2>1, <2>2, <2>3 DEF RequestInv, FetchedInv, DecidedInv, Version
<1>4. CASE FetchFails(q) \/ Respond(q)
  BY <1>0, <1>4 DEF FetchFails, Respond, TypeOK, RequestInv, FetchedInv, DecidedInv, GenuineInv,
     Idle
<1>5. CASE FetchReturns(q)
  <2> DEFINE k == request[q].key
  <2>1. /\ k \in Keys /\ clock \in Nat /\ changed[k] \in Nat /\ request[q].at \in Nat
        /\ request[q].pc = "fetched"
    BY <1>0, <1>5, RequestType DEF FetchReturns, TypeOK
  <2>2. /\ request'[q].pc = "decided" /\ request'[q].key = k
        /\ request'[q].genuine = request[q].genuine
        /\ request'[q].row = request[q].row /\ request'[q].at = clock
        /\ UNCHANGED <<clock, db, changed>>
    BY <1>0, <1>5 DEF FetchReturns, Decided, TypeOK
  <2>3. FetchedInv(q) /\ GenuineInv(q)
    BY DEF AuthInv, RequestInv
  <2>4. request[q].row # db[k] => clock <= changed[k] + MaxFetch + TTL
    BY <2>1, <2>3 DEF FetchedInv
  <2> QED
    BY <2>1, <2>2, <2>3, <2>4 DEF RequestInv, FetchedInv, DecidedInv, GenuineInv
<1>6. CASE request'[q] = request[q]
  BY <1>6, RestingRequest
<1>7. ASSUME NEW r \in Requests, r # q,
             \/ \E k \in Keys, genuine \in BOOLEAN :
                  AuthenticateHit(r, k, genuine) \/ AuthenticateMiss(r, k, genuine)
             \/ Fetch(r)
             \/ FetchFails(r)
             \/ FetchReturns(r)
             \/ Respond(r)
      PROVE  request'[q] = request[q]
  BY <1>0, <1>7 DEF AuthenticateHit, AuthenticateMiss, Fetch, FetchFails, FetchReturns,
     Respond, TypeOK
<1>8. CASE UNCHANGED request
  BY <1>6, <1>8
<1> QED
  BY <1>1, <1>2, <1>3, <1>4, <1>5, <1>6, <1>7, <1>8 DEF Next, vars, Tick,
     InvalidateCacheForPrefix, CreateKey, RotateBegin, RotateCommit, RotateFails,
     RotateReturns, RotateAnswerLost

LEMMA AuthInvCorrect == Spec => []AuthInv
<1>1. AuthInv /\ TypeOK' /\ [Next]_vars => AuthInv'
  BY EntryPreserved, RequestPreserved DEF AuthInv
<1> QED
  BY <1>1, AuthInvInit, TypeCorrect, PTL DEF Spec

(* A stale cache entry expires within TTL and query timeout of the change. *)
THEOREM StaleEntriesExpireCorrect == Spec => []StaleEntriesExpire
<1>1. AuthInv => StaleEntriesExpire
  BY DEF AuthInv, EntryInv, StaleEntriesExpire
<1> QED
  BY <1>1, AuthInvCorrect, PTL

(* An accepted key is within its expiry, and past its grace period only    *)
(* until the rotation has been noticed (R13.4, R13.5).                     *)
THEOREM AcceptedOnlyWhileValidCorrect == Spec => []AcceptedOnlyWhileValid
<1>1. AuthInv => AcceptedOnlyWhileValid
  <2> SUFFICES ASSUME AuthInv, NEW q \in Requests, Decision(q), OutcomeOf(q) = "accepted"
               PROVE  LET row == db[request[q].key]
                          now == Wall(ProcOf[q], request[q].at)
                      IN  /\ request[q].genuine
                          /\ row # NoRow
                          /\ ~Expired(row, now)
                          /\ GraceOver(row, now)
                               => request[q].at <= NoticedBy(request[q].key)
    BY DEF AcceptedOnlyWhileValid
  <2> DEFINE now == Wall(ProcOf[q], request[q].at)
  <2>1. DecidedInv(q) /\ request[q].pc = "decided"
    BY DEF AuthInv, RequestInv, Decision
  <2>2. /\ request[q].row # NoRow /\ request[q].genuine
        /\ ~Expired(request[q].row, now) /\ ~GraceOver(request[q].row, now)
    BY DEF OutcomeOf, Outcome
  <2> HIDE DEF now
  <2>3. Version(request[q].row, db[request[q].key])
    BY <2>1 DEF DecidedInv
  <2>4. ~Expired(db[request[q].key], now)
    BY <2>2, <2>3 DEF Version, Expired
  <2>5. GraceOver(db[request[q].key], now) => request[q].row # db[request[q].key]
    BY <2>2
  <2> QED
    BY <2>1, <2>2, <2>3, <2>4, <2>5 DEF DecidedInv, Version, now
<1> QED
  BY <1>1, AuthInvCorrect, PTL

(* A genuine key is rejected only for the reason given, or while it is too *)
(* new to have been noticed (R13.5).                                       *)
THEOREM RejectedOnlyWhenDueCorrect == Spec => []RejectedOnlyWhenDue
<1>1. AuthInv => RejectedOnlyWhenDue
  <2> SUFFICES ASSUME AuthInv, NEW q \in Requests, Decision(q), request[q].genuine
               PROVE  LET row == db[request[q].key]
                          now == Wall(ProcOf[q], request[q].at)
                      IN  /\ row # NoRow
                          /\ OutcomeOf(q) = "invalid_token" =>
                                request[q].at <= NoticedBy(request[q].key)
                          /\ OutcomeOf(q) = "expired_token" => Expired(row, now)
                          /\ OutcomeOf(q) = "revoked_token" => GraceOver(row, now)
    BY DEF RejectedOnlyWhenDue
  <2> DEFINE now == Wall(ProcOf[q], request[q].at)
             row == request[q].row
             current == db[request[q].key]
  <2>1. DecidedInv(q) /\ GenuineInv(q) /\ request[q].pc = "decided"
    BY DEF AuthInv, RequestInv, Decision
  <2>2. current # NoRow /\ Version(row, current)
    BY <2>1 DEF DecidedInv, GenuineInv
  <2>3. OutcomeOf(q) = "invalid_token" => row = NoRow
    BY DEF OutcomeOf, Outcome
  <2>4. OutcomeOf(q) = "expired_token" => row # NoRow /\ Expired(row, now)
    BY DEF OutcomeOf, Outcome
  <2>5. OutcomeOf(q) = "revoked_token" => row # NoRow /\ GraceOver(row, now)
    BY DEF OutcomeOf, Outcome
  <2>6. OutcomeOf(q) = "invalid_token" => request[q].at <= NoticedBy(request[q].key)
    BY <2>1, <2>2, <2>3 DEF DecidedInv
  <2> HIDE DEF now, row, current
  <2>7. OutcomeOf(q) = "expired_token" => Expired(current, now)
    BY <2>2, <2>4 DEF Version, Expired
  <2>8. OutcomeOf(q) = "revoked_token" => GraceOver(current, now)
    BY <2>2, <2>5 DEF Version, GraceOver
  <2> QED
    BY <2>2, <2>6, <2>7, <2>8 DEF now, current
<1> QED
  BY <1>1, AuthInvCorrect, PTL

-----------------------------------------------------------------------------
(* Rotation.                                                               *)

(* A revoked row never changes: concurrent and repeated rotations do not   *)
(* move the end of a grace period.                                         *)
THEOREM GraceIsFixedCorrect == Spec => GraceIsFixed
<1>1. TypeOK /\ [Next]_vars =>
        [\A k \in Keys : db[k] # NoRow /\ db[k].revoked # Never => db'[k] = db[k]]_vars
  BY RowSteps DEF RowStep
<1> QED
  BY <1>1, TypeCorrect, PTL DEF Spec, GraceIsFixed

SuccessorInv ==
    \A k \in Keys :
        IF db[k] # NoRow /\ db[k].revoked # Never
        THEN \E new \in Keys : successors[k] = {new}
        ELSE successors[k] = {}

LEMMA SuccessorCommit ==
    ASSUME TypeOK, SuccessorInv, NEW o \in Rotations, NEW new \in Keys, RotateCommit(o, new)
    PROVE  SuccessorInv'
<1> DEFINE old == rotation[o].key
<1>1. /\ old \in Keys /\ old # new
      /\ db[old] \in Row /\ db[old].revoked = Never /\ db[new] = NoRow
      /\ db'[old] = RevokedRow(db[old], rotation[o].now, rotation[o].grace)
      /\ db'[new] = FreshRow(rotation[o].grace, Never)
      /\ \A k \in Keys \ {old, new} : db'[k] = db[k]
      /\ db' \in [Keys -> Row \cup {NoRow}]
  BY CommitRows
<1>2. /\ rotation[o].now \in Nat /\ rotation[o].grace \in Graces
      /\ successors' = [successors EXCEPT ![old] = @ \cup {new}]
      /\ successors \in [Keys -> SUBSET Keys]
  BY RotationType DEF RotateCommit, TypeOK
<1> HIDE DEF old
<1>3. successors[old] = {} /\ successors[new] = {}
  BY <1>1 DEF SuccessorInv
<1>4. /\ successors'[old] = {new} /\ successors'[new] = {}
      /\ \A k \in Keys \ {old, new} : successors'[k] = successors[k]
  BY <1>1, <1>2, <1>3
<1>5. db'[old].revoked # Never /\ db'[old] # NoRow
  BY <1>1, <1>2 DEF RevokedRow, Row
<1>6. db'[new].revoked = Never
  BY <1>1 DEF FreshRow
<1> QED
  BY <1>1, <1>4, <1>5, <1>6 DEF SuccessorInv

(* A revoked key has one successor and no other key has any: revoking and  *)
(* replacing are one transaction, and a key is rotated once.               *)
THEOREM RevokedHasOneSuccessorCorrect == Spec => []RevokedHasOneSuccessor
<1>1. Init => SuccessorInv
  BY DEF Init, SuccessorInv
<1>2. TypeOK /\ SuccessorInv /\ [Next]_vars => SuccessorInv'
  <2> SUFFICES ASSUME TypeOK, SuccessorInv, [Next]_vars
               PROVE  SuccessorInv'
    OBVIOUS
  <2>1. ASSUME NEW k \in Keys, NEW grace \in Graces, NEW expires \in Expiries,
               CreateKey(k, grace, expires)
        PROVE  SuccessorInv'
    <3>1. db'[k].revoked = Never /\ \A j \in Keys \ {k} : db'[j] = db[j]
      BY <2>1 DEF CreateKey, FreshRow, TypeOK
    <3> QED
      BY <2>1, <3>1 DEF CreateKey, SuccessorInv
  <2>2. CASE UNCHANGED <<db, successors>>
    BY <2>2 DEF SuccessorInv
  <2> QED
    BY <2>1, <2>2, SuccessorCommit DEF Next, vars, Tick, AuthenticateHit, AuthenticateMiss,
       Fetch, FetchFails, FetchReturns, Respond, InvalidateCacheForPrefix, RotateBegin,
       RotateFails, RotateReturns, RotateAnswerLost
<1>3. SuccessorInv => RevokedHasOneSuccessor
  BY FS_EmptySet, FS_Singleton DEF SuccessorInv, RevokedHasOneSuccessor
<1> QED
  BY <1>1, <1>2, <1>3, TypeCorrect, PTL DEF Spec

=============================================================================
