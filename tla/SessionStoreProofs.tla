------------------------- MODULE SessionStoreProofs -------------------------
(* What SessionStore guarantees for every set of callers, tenants and      *)
(* items, every retention and every size of the deques.                    *)
EXTENDS SessionStore, SequenceTheorems, WellFoundedInduction, NaturalsInduction, TLAPS

USE SessionAssumption DEF SessionAssumption

-----------------------------------------------------------------------------
(* The deques.                                                             *)

LEMMA ToSetOfSeq ==
    ASSUME NEW S, NEW s \in Seq(S)
    PROVE  /\ ToSet(s) \subseteq S
           /\ \A x : x \in ToSet(s) <=> \E i \in 1..Len(s) : s[i] = x
<1>1. DOMAIN s = 1..Len(s) /\ \A i \in 1..Len(s) : s[i] \in S
  OBVIOUS
<1> QED
  BY <1>1 DEF ToSet

LEMMA ToSetEmpty == ToSet(<<>>) = {} /\ Len(<<>>) = 0
  BY DEF ToSet

LEMMA PushKeeps ==
    ASSUME NEW S, NEW q \in Seq(S), NEW x \in S, NEW n \in Nat \ {0}, Len(q) <= n
    PROVE  /\ Push(q, x, n) \in Seq(S) /\ Len(Push(q, x, n)) <= n
           /\ ToSet(Push(q, x, n)) \subseteq ToSet(q) \cup {x}
<1> DEFINE r == Append(q, x)
<1>1. /\ r \in Seq(S) /\ Len(r) = Len(q) + 1 /\ Len(q) \in Nat
      /\ \A i \in 1..Len(q) : r[i] = q[i]
      /\ r[Len(q) + 1] = x
  BY AppendProperties, LenProperties
<1> HIDE DEF r
<1>2. \A i \in 1..Len(r) : r[i] \in ToSet(q) \cup {x}
  <2>1. \A i \in 1..Len(r) : i \in 1..Len(q) \/ i = Len(q) + 1
    BY <1>1
  <2> QED
    BY <1>1, <2>1, ToSetOfSeq
<1>3. ToSet(r) \subseteq ToSet(q) \cup {x}
  BY <1>1, <1>2, ToSetOfSeq
<1>4. CASE ~(Len(r) > n)
  BY <1>1, <1>3, <1>4 DEF Push, r
<1>5. CASE Len(r) > n
  <2>1. Push(q, x, n) = Tail(r)
    BY <1>5 DEF Push, r
  <2>2. r # <<>>
    BY <1>1, EmptySeq
  <2>3. /\ Tail(r) \in Seq(S) /\ Len(Tail(r)) = Len(r) - 1
        /\ \A i \in 1..Len(Tail(r)) : Tail(r)[i] = r[i + 1]
    BY <1>1, <2>2, HeadTailProperties
  <2>4. \A i \in 1..Len(Tail(r)) : i + 1 \in 1..Len(r)
    BY <1>1, <2>3
  <2>5. \A i \in 1..Len(Tail(r)) : Tail(r)[i] \in ToSet(q) \cup {x}
    BY <1>2, <2>3, <2>4
  <2>6. ToSet(Tail(r)) \subseteq ToSet(q) \cup {x}
    <3> DEFINE t == Tail(r)
    <3>1. t \in Seq(S) /\ \A i \in 1..Len(t) : t[i] \in ToSet(q) \cup {x}
      BY <2>3, <2>5
    <3> HIDE DEF t
    <3>2. ToSet(t) \subseteq ToSet(q) \cup {x}
      BY <3>1, ToSetOfSeq
    <3> QED
      BY <3>2 DEF t
  <2> QED
    BY <1>1, <2>1, <2>3, <2>6
<1> QED
  BY <1>4, <1>5

LEMMA Least ==
    ASSUME NEW T \in SUBSET Nat, T # {}
    PROVE  \E n \in T : \A m \in T : n <= m
<1> DEFINE Less == {p \in Nat \X Nat : p[1] < p[2]}
<1>1. IsWellFoundedOn(Less, Nat)
  BY NatLessThanWellFounded DEF OpToRel
<1> HIDE DEF Less
<1>2. PICK n \in T : \A m \in T : ~ (<<m, n>> \in Less)
  BY <1>1, WFMin
<1>3. \A m \in T : ~ (m < n)
  BY <1>2 DEF Less
<1> QED
  BY <1>3

LEMMA RemoveFirstKeeps ==
    ASSUME NEW S, NEW q \in Seq(S), NEW x
    PROVE  /\ RemoveFirst(q, x) \in Seq(S) /\ Len(RemoveFirst(q, x)) <= Len(q)
           /\ ToSet(RemoveFirst(q, x)) \subseteq ToSet(q)
<1>1. Len(q) \in Nat
  BY LenProperties
<1>2. CASE ~ \E i \in 1..Len(q) : q[i] = x
  BY <1>1, <1>2 DEF RemoveFirst
<1>3. CASE \E i \in 1..Len(q) : q[i] = x
  <2> DEFINE I == {i \in 1..Len(q) : q[i] = x}
             k == Min(I)
  <2>1. I # {} /\ I \subseteq Nat /\ I \subseteq 1..Len(q)
    BY <1>3
  <2> HIDE DEF I
  <2>2. \E n \in I : \A m \in I : n <= m
    BY <2>1, Least
  <2>3. k \in I
    BY <2>2 DEF Min
  <2>4. RemoveFirst(q, x) = RemoveAt(q, k)
    BY <1>3, <2>1 DEF RemoveFirst, SelectInSeq, I
  <2>5. k \in 1..Len(q)
    BY <2>1, <2>3
  <2> HIDE DEF k
  <2> DEFINE a == SubSeq(q, 1, k - 1)  b == SubSeq(q, k + 1, Len(q))
  <2>6. /\ a \in Seq(S) /\ Len(a) = k - 1
        /\ \A i \in 1..Len(a) : a[i] = q[i]
    BY <1>1, <2>5, SubSeqProperties
  <2>7. /\ b \in Seq(S) /\ Len(b) = Len(q) - k
        /\ \A i \in 1..Len(b) : b[i] = q[k + i]
    BY <1>1, <2>5, SubSeqProperties
  <2>8. RemoveAt(q, k) = a \o b
    BY DEF RemoveAt
  <2> HIDE DEF a, b
  <2> DEFINE r == a \o b
  <2>9. /\ r \in Seq(S) /\ Len(r) = Len(a) + Len(b)
        /\ \A i \in 1..Len(r) : r[i] = IF i <= Len(a) THEN a[i] ELSE b[i - Len(a)]
    <3>1. /\ a \in Seq(S) /\ b \in Seq(S)
          /\ Len(a) \in Nat /\ Len(b) \in Nat
      BY <2>6, <2>7, LenProperties
    <3>2. /\ r \in Seq(S) /\ Len(r) = Len(a) + Len(b)
          /\ \A i \in 1..Len(a) + Len(b) : r[i] =
                IF i <= Len(a) THEN a[i] ELSE b[i - Len(a)]
      BY <3>1, ConcatProperties
    <3> HIDE DEF r
    <3> QED
      BY <3>2
  <2> HIDE DEF r
  <2>10. \A i \in 1..Len(r) : r[i] \in ToSet(q)
    <3> SUFFICES ASSUME NEW i \in 1..Len(r)
                 PROVE  r[i] \in ToSet(q)
      OBVIOUS
    <3>1. CASE i <= Len(a)
      <4>1. i \in 1..Len(q) /\ r[i] = q[i]
        BY <1>1, <2>5, <2>6, <2>9, <3>1
      <4> QED
        BY <4>1, ToSetOfSeq
    <3>2. CASE ~(i <= Len(a))
      <4>1. i - Len(a) \in 1..Len(b) /\ k + (i - Len(a)) \in 1..Len(q)
        BY <1>1, <2>5, <2>6, <2>7, <2>9, <3>2
      <4>2. r[i] = q[k + (i - Len(a))]
        BY <2>7, <2>9, <3>2, <4>1
      <4> QED
        BY <4>1, <4>2, ToSetOfSeq
    <3> QED
      BY <3>1, <3>2
  <2>11. ToSet(r) \subseteq ToSet(q)
    BY <2>9, <2>10, ToSetOfSeq
  <2>12. Len(r) <= Len(q)
    BY <1>1, <2>5, <2>6, <2>7, <2>9
  <2> QED
    BY <2>4, <2>8, <2>9, <2>11, <2>12 DEF r
<1> QED
  BY <1>2, <1>3

-----------------------------------------------------------------------------
(* Types, and whose the memory is.                                         *)

Memo == [by : SessionTenants, item : SessionItems]

Session == [tenant : SessionTenants, created : Nat, days : Nat,
            state : {"active", "expired", "deleted"},
            citations : Seq(Memo), docs : Seq(Memo)]

\* The calls that go on to use the session they have looked up.
HoldingOps == {"get", "add", "addDocs", "append", "delete", "clear"}

Call ==
    {NoCall}
    \cup [op : HoldingOps \ {"append"}, id : SessionIds, tenant : SessionTenants]
    \cup [op : {"append"}, id : SessionIds, tenant : SessionTenants,
          item : SessionItems]
    \cup [op : {"got"}, tenant : SessionTenants, seen : SUBSET Memo]

Sweep == [on : {TRUE}, now : Nat, todo : SUBSET SessionIds,
          marked : SUBSET SessionIds]

SessionTypes ==
    /\ sessions \in Seq(Session) /\ Len(sessions) <= MaxSessions
    /\ sessionCall \in [SessionCallers -> Call]
    /\ sweep \in {NoSweep} \cup Sweep
    /\ expiredAudit \in [SessionIds -> Nat]
    /\ lateWrites \in SUBSET SessionIds
    /\ day \in 0..LastDay

Memory(s) == ToSet(s.citations) \cup ToSet(s.docs)

\* A session as it should be: within its limits, and its tenant's alone.
Proper(s) ==
    /\ Len(s.citations) <= MaxCitations /\ Len(s.docs) <= MaxDocIds
    /\ \A x \in Memory(s) : x.by = s.tenant

\* The session a call goes on to use is there, and the call's tenant owns it:
\* no session leaves the dictionary and none changes hands.
OwnSession(call, s) ==
    call.op \in HoldingOps => /\ call.id \in DOMAIN s
                              /\ s[call.id].tenant = call.tenant

OwnAnswer(call) ==
    call.op = "got" => \A x \in call.seen : x.by = call.tenant

SessionInv ==
    /\ SessionTypes
    /\ \A i \in DOMAIN sessions : Proper(sessions[i])
    /\ \A c \in SessionCallers : OwnSession(sessionCall[c], sessions)
    /\ \A c \in SessionCallers : OwnAnswer(sessionCall[c])

(* Why a session is closed once: what the sweep has marked is closed, its  *)
(* retention over by the sweep's own clock, and not in the audit log yet.  *)

SweepInv ==
    sweep.on =>
        /\ sweep.now <= day
        /\ sweep.todo \subseteq DOMAIN sessions
        /\ \A i \in sweep.marked :
              /\ i \in DOMAIN sessions /\ sessions[i].state # "active"
              /\ expiredAudit[i] = 0
              /\ sweep.now >= sessions[i].created + sessions[i].days
        /\ \A i, j \in sweep.marked : i = j

AuditInv ==
    \A i \in SessionIds :
        \/ expiredAudit[i] = 0
        \/ /\ expiredAudit[i] = 1 /\ i \in DOMAIN sessions
           /\ sessions[i].state # "active"
           /\ day >= sessions[i].created + sessions[i].days

BeingClosed(i) ==
    \/ sweep.on /\ i \in sweep.marked
    \/ \E c \in SessionCallers :
          sessionCall[c].op = "clear" /\ sessionCall[c].id = i

WellClosed(i) ==
    \/ sessions[i].state = "active"
    \/ i \in lateWrites
    \/ BeingClosed(i)
    \/ sessions[i].citations = <<>> /\ sessions[i].docs = <<>>

CloseInv == \A i \in DOMAIN sessions : WellClosed(i)

ClosedInv == SweepInv /\ AuditInv /\ CloseInv

-----------------------------------------------------------------------------
(* What the actions share.                                                 *)

LEMMA CallKinds ==
    ASSUME NEW call \in Call
    PROVE  /\ call.op \in HoldingOps \ {"append"} =>
                call \in [op : HoldingOps \ {"append"}, id : SessionIds,
                          tenant : SessionTenants]
           /\ call.op = "append" =>
                call \in [op : {"append"}, id : SessionIds,
                          tenant : SessionTenants, item : SessionItems]
           /\ call.op = "got" =>
                call \in [op : {"got"}, tenant : SessionTenants,
                          seen : SUBSET Memo]
           /\ call.op \in HoldingOps => call.id \in SessionIds
  BY DEF Call, HoldingOps, NoCall

\* One session replaced by another of the same tenant.
LEMMA SessionReplaced ==
    ASSUME NEW s \in Seq(Session), NEW t, NEW i \in DOMAIN s,
           NEW r \in Session, t = [s EXCEPT ![i] = r],
           r.tenant = s[i].tenant, Proper(r),
           \A j \in DOMAIN s : Proper(s[j])
    PROVE  /\ t \in Seq(Session) /\ Len(t) = Len(s) /\ DOMAIN t = DOMAIN s
           /\ t[i] = r
           /\ \A j \in DOMAIN s : j # i => t[j] = s[j]
           /\ \A j \in DOMAIN t : Proper(t[j])
           /\ \A j \in DOMAIN s : t[j].tenant = s[j].tenant
<1>1. DOMAIN s = 1..Len(s)
  BY LenProperties
<1>2. /\ t \in Seq(Session) /\ Len(t) = Len(s)
      /\ \A j \in 1..Len(s) : t[j] = IF j = i THEN r ELSE s[j]
  BY <1>1, ExceptSeq
<1>3. DOMAIN t = 1..Len(s)
  BY <1>2, LenProperties
<1> QED
  BY <1>1, <1>2, <1>3

\* A call that goes on to use its session, and that session.
LEMMA HeldSession ==
    ASSUME SessionInv, NEW c \in SessionCallers,
           sessionCall[c].op \in HoldingOps
    PROVE  LET i == sessionCall[c].id IN
           /\ i \in SessionIds /\ i \in DOMAIN sessions
           /\ sessions[i] \in Session /\ Proper(sessions[i])
           /\ sessions[i].tenant = sessionCall[c].tenant
           /\ sessionCall[c].tenant \in SessionTenants
<1>1. sessionCall[c] \in Call
  BY DEF SessionInv, SessionTypes
<1>2. sessionCall[c].id \in SessionIds
  BY <1>1, CallKinds
<1>3. /\ sessionCall[c].id \in DOMAIN sessions
      /\ sessions[sessionCall[c].id].tenant = sessionCall[c].tenant
  BY DEF SessionInv, OwnSession
<1>4. /\ sessions[sessionCall[c].id] \in Session
      /\ Proper(sessions[sessionCall[c].id])
  BY <1>3, LenProperties, ElementOfSeq DEF SessionInv, SessionTypes
<1>5. sessions[sessionCall[c].id].tenant \in SessionTenants
  BY <1>4 DEF Session
<1> QED
  BY <1>2, <1>3, <1>4, <1>5

\* What a step has to show: the calls it has changed are in order, and every
\* session is still there and still its tenant's.
LEMMA SessionStep ==
    ASSUME SessionInv,
           sessions' \in Seq(Session), Len(sessions') <= MaxSessions,
           DOMAIN sessions \subseteq DOMAIN sessions',
           \A i \in DOMAIN sessions : sessions'[i].tenant = sessions[i].tenant,
           \A i \in DOMAIN sessions' : Proper(sessions'[i]),
           sessionCall' \in [SessionCallers -> Call],
           \A d \in SessionCallers :
              \/ sessionCall'[d] = sessionCall[d]
              \/ OwnSession(sessionCall'[d], sessions') /\ OwnAnswer(sessionCall'[d]),
           sweep' \in {NoSweep} \cup Sweep,
           expiredAudit' \in [SessionIds -> Nat],
           lateWrites' \in SUBSET SessionIds, day' \in 0..LastDay
    PROVE  SessionInv'
<1>1. SessionTypes'
  BY DEF SessionTypes
<1>2. ASSUME NEW d \in SessionCallers
      PROVE  OwnSession(sessionCall'[d], sessions') /\ OwnAnswer(sessionCall'[d])
  <2>1. CASE sessionCall'[d] = sessionCall[d]
    <3>1. OwnSession(sessionCall[d], sessions) /\ OwnAnswer(sessionCall[d])
      BY DEF SessionInv
    <3> QED
      BY <2>1, <3>1 DEF OwnSession
  <2> QED
    BY <2>1
<1> QED
  BY <1>1, <1>2 DEF SessionInv

LEMMA CallReplaced ==
    ASSUME NEW f \in [SessionCallers -> Call], NEW c \in SessionCallers,
           NEW r \in Call, NEW g, g = [f EXCEPT ![c] = r]
    PROVE  /\ g \in [SessionCallers -> Call] /\ g[c] = r
           /\ \A d \in SessionCallers : d # c => g[d] = f[d]
  OBVIOUS

LEMMA EmptyMemory ==
    /\ <<>> \in Seq(Memo) /\ Len(<<>>) = 0
    /\ ToSet(<<>>) = {}
  BY ToSetEmpty

\* A session that gains an entry of its tenant's, loses some, or loses all.
LEMMA CitationAdded ==
    ASSUME NEW s \in Session, Proper(s), NEW m \in Memo, m.by = s.tenant,
           NEW r, r = [s EXCEPT !.citations = Push(@, m, MaxCitations)]
    PROVE  /\ r \in Session /\ Proper(r) /\ r.tenant = s.tenant
           /\ r.state = s.state /\ r.created = s.created /\ r.days = s.days
<1>1. s.citations \in Seq(Memo) /\ Len(s.citations) <= MaxCitations
  BY DEF Session, Proper
<1> DEFINE q == Push(s.citations, m, MaxCitations)
<1>2. /\ q \in Seq(Memo) /\ Len(q) <= MaxCitations
      /\ ToSet(q) \subseteq ToSet(s.citations) \cup {m}
  BY <1>1, PushKeeps
<1>3. r = [s EXCEPT !.citations = q]
  OBVIOUS
<1> HIDE DEF q
<1> QED
  BY <1>2, <1>3 DEF Session, Proper, Memory

LEMMA DocAdded ==
    ASSUME NEW s \in Session, Proper(s), NEW m \in Memo, m.by = s.tenant,
           NEW r, r = [s EXCEPT !.docs = Push(@, m, MaxDocIds)]
    PROVE  /\ r \in Session /\ Proper(r) /\ r.tenant = s.tenant
           /\ r.state = s.state /\ r.created = s.created /\ r.days = s.days
<1>1. s.docs \in Seq(Memo) /\ Len(s.docs) <= MaxDocIds
  BY DEF Session, Proper
<1> DEFINE q == Push(s.docs, m, MaxDocIds)
<1>2. /\ q \in Seq(Memo) /\ Len(q) <= MaxDocIds
      /\ ToSet(q) \subseteq ToSet(s.docs) \cup {m}
  BY <1>1, PushKeeps
<1>3. r = [s EXCEPT !.docs = q]
  OBVIOUS
<1> HIDE DEF q
<1> QED
  BY <1>2, <1>3 DEF Session, Proper, Memory

LEMMA DocRemoved ==
    ASSUME NEW s \in Session, Proper(s), NEW m \in Memo,
           NEW r, r = [s EXCEPT !.docs = RemoveFirst(@, m)]
    PROVE  /\ r \in Session /\ Proper(r) /\ r.tenant = s.tenant
           /\ r.state = s.state /\ r.created = s.created /\ r.days = s.days
           /\ r.citations = s.citations
           /\ s.docs = <<>> => r.docs = <<>>
<1>1. s.docs \in Seq(Memo) /\ Len(s.docs) <= MaxDocIds /\ Len(s.docs) \in Nat
  BY LenProperties DEF Session, Proper
<1> DEFINE q == RemoveFirst(s.docs, m)
<1>2. /\ q \in Seq(Memo) /\ Len(q) <= Len(s.docs)
      /\ ToSet(q) \subseteq ToSet(s.docs)
  BY <1>1, RemoveFirstKeeps
<1>3. r = [s EXCEPT !.docs = q]
  OBVIOUS
<1> HIDE DEF q
<1>4. Len(q) \in Nat
  BY <1>2, LenProperties
<1>5. s.docs = <<>> => q = <<>>
  BY <1>2, <1>4, EmptySeq
<1>6. /\ r \in Session /\ r.tenant = s.tenant
      /\ r.state = s.state /\ r.created = s.created /\ r.days = s.days
      /\ r.citations = s.citations /\ r.docs = q
  BY <1>2, <1>3 DEF Session
<1>7. Len(q) <= MaxDocIds
  BY <1>1, <1>2, <1>4
<1>8. Proper(r)
  BY <1>2, <1>6, <1>7 DEF Proper, Memory
<1> QED
  BY <1>5, <1>6, <1>8

LEMMA MemoryCleared ==
    ASSUME NEW s \in Session, Proper(s),
           NEW r, r = [s EXCEPT !.citations = <<>>, !.docs = <<>>]
    PROVE  /\ r \in Session /\ Proper(r) /\ r.tenant = s.tenant
           /\ r.state = s.state /\ r.created = s.created /\ r.days = s.days
           /\ r.citations = <<>> /\ r.docs = <<>>
<1> DEFINE e == <<>>
<1>1. e \in Seq(Memo) /\ Len(e) = 0 /\ ToSet(e) = {}
  BY EmptyMemory
<1>2. r = [s EXCEPT !.citations = e, !.docs = e]
  OBVIOUS
<1>3. e = <<>>
  OBVIOUS
<1> HIDE DEF e
<1>4. /\ r \in Session /\ r.tenant = s.tenant
      /\ r.state = s.state /\ r.created = s.created /\ r.days = s.days
      /\ r.citations = e /\ r.docs = e
  BY <1>1, <1>2 DEF Session
<1>5. Proper(r)
  BY <1>1, <1>4 DEF Proper, Memory
<1> QED
  BY <1>3, <1>4, <1>5

LEMMA StateReplaced ==
    ASSUME NEW s \in Session, Proper(s), NEW v \in {"expired", "deleted"},
           NEW r, r = [s EXCEPT !.state = v]
    PROVE  /\ r \in Session /\ Proper(r) /\ r.tenant = s.tenant
           /\ r.state = v /\ r.created = s.created /\ r.days = s.days
           /\ r.citations = s.citations /\ r.docs = s.docs
<1>1. /\ r \in Session /\ r.tenant = s.tenant
      /\ r.state = v /\ r.created = s.created /\ r.days = s.days
      /\ r.citations = s.citations /\ r.docs = s.docs
  BY DEF Session
<1> QED
  BY <1>1 DEF Proper, Memory

-----------------------------------------------------------------------------
(* Types, limits and isolation.                                            *)

\* What changes in a step that rewrites one session for a call or the sweep.
SessionRewritten(i, r) ==
    /\ i \in DOMAIN sessions /\ r \in Session /\ Proper(r)
    /\ r.tenant = sessions[i].tenant
    /\ sessions' = [sessions EXCEPT ![i] = r]

LEMMA Rewritten ==
    ASSUME SessionInv, NEW i, NEW r, SessionRewritten(i, r)
    PROVE  /\ sessions' \in Seq(Session) /\ Len(sessions') <= MaxSessions
           /\ DOMAIN sessions' = DOMAIN sessions
           /\ sessions'[i] = r
           /\ \A j \in DOMAIN sessions : j # i => sessions'[j] = sessions[j]
           /\ \A j \in DOMAIN sessions' : Proper(sessions'[j])
           /\ \A j \in DOMAIN sessions : sessions'[j].tenant = sessions[j].tenant
<1>1. /\ sessions \in Seq(Session) /\ i \in DOMAIN sessions /\ r \in Session
      /\ sessions' = [sessions EXCEPT ![i] = r]
      /\ r.tenant = sessions[i].tenant /\ Proper(r)
      /\ \A j \in DOMAIN sessions : Proper(sessions[j])
  BY DEF SessionInv, SessionTypes, SessionRewritten
<1> DEFINE t == [sessions EXCEPT ![i] = r]
<1>2. /\ t \in Seq(Session) /\ Len(t) = Len(sessions)
      /\ DOMAIN t = DOMAIN sessions
      /\ t[i] = r
      /\ \A j \in DOMAIN sessions : j # i => t[j] = sessions[j]
      /\ \A j \in DOMAIN t : Proper(t[j])
      /\ \A j \in DOMAIN sessions : t[j].tenant = sessions[j].tenant
  BY <1>1, SessionReplaced
<1> HIDE DEF t
<1>3. sessions' = t
  BY <1>1 DEF t
<1>4. Len(sessions) <= MaxSessions
  BY DEF SessionInv, SessionTypes
<1> QED
  BY <1>2, <1>3, <1>4

LEMMA AddCitationRewrites ==
    ASSUME SessionInv, NEW c \in SessionCallers, NEW x \in SessionItems,
           AddCitation(c, x)
    PROVE  \E r : /\ SessionRewritten(sessionCall[c].id, r)
                  /\ r.state = sessions[sessionCall[c].id].state
                  /\ r.created = sessions[sessionCall[c].id].created
                  /\ r.days = sessions[sessionCall[c].id].days
<1> DEFINE i == sessionCall[c].id
           m == [by |-> sessionCall[c].tenant, item |-> x]
           r == [sessions[i] EXCEPT !.citations = Push(@, m, MaxCitations)]
<1>1. sessionCall[c].op \in HoldingOps
  BY DEF AddCitation, HoldingOps
<1>2. /\ i \in DOMAIN sessions /\ sessions[i] \in Session /\ Proper(sessions[i])
      /\ m \in Memo /\ m.by = sessions[i].tenant
  BY <1>1, HeldSession DEF Memo
<1>3. sessions' = [sessions EXCEPT ![i] = r]
  BY DEF AddCitation
<1>4. /\ r \in Session /\ Proper(r) /\ r.tenant = sessions[i].tenant
      /\ r.state = sessions[i].state /\ r.created = sessions[i].created
      /\ r.days = sessions[i].days
  BY <1>2, CitationAdded
<1> HIDE DEF r
<1> QED
  BY <1>2, <1>3, <1>4 DEF SessionRewritten

LEMMA RemoveDocIdRewrites ==
    ASSUME SessionInv, NEW c \in SessionCallers, NEW x \in SessionItems,
           RemoveDocId(c, x)
    PROVE  \E r : /\ SessionRewritten(sessionCall[c].id, r)
                  /\ r.state = sessions[sessionCall[c].id].state
                  /\ r.created = sessions[sessionCall[c].id].created
                  /\ r.days = sessions[sessionCall[c].id].days
                  /\ r.citations = sessions[sessionCall[c].id].citations
                  /\ sessions[sessionCall[c].id].docs = <<>> => r.docs = <<>>
<1> DEFINE i == sessionCall[c].id
           m == [by |-> sessionCall[c].tenant, item |-> x]
           r == [sessions[i] EXCEPT !.docs = RemoveFirst(@, m)]
<1>1. sessionCall[c].op \in HoldingOps
  BY DEF RemoveDocId, HoldingOps
<1>2. /\ i \in DOMAIN sessions /\ sessions[i] \in Session /\ Proper(sessions[i])
      /\ m \in Memo
  BY <1>1, HeldSession DEF Memo
<1>3. sessions' = [sessions EXCEPT ![i] = r]
  BY DEF RemoveDocId
<1>4. /\ r \in Session /\ Proper(r) /\ r.tenant = sessions[i].tenant
      /\ r.state = sessions[i].state /\ r.created = sessions[i].created
      /\ r.days = sessions[i].days /\ r.citations = sessions[i].citations
      /\ sessions[i].docs = <<>> => r.docs = <<>>
  <2> DEFINE s == sessions[i]
  <2>1. s \in Session /\ Proper(s) /\ m \in Memo /\ r = [s EXCEPT !.docs = RemoveFirst(@, m)]
    BY <1>2
  <2> HIDE DEF s, m, r
  <2>2. /\ r \in Session /\ Proper(r) /\ r.tenant = s.tenant
        /\ r.state = s.state /\ r.created = s.created /\ r.days = s.days
        /\ r.citations = s.citations
        /\ s.docs = <<>> => r.docs = <<>>
    BY <2>1, DocRemoved
  <2> QED
    BY <2>2 DEF s
<1> HIDE DEF r
<1> QED
  BY <1>2, <1>3, <1>4 DEF SessionRewritten

LEMMA AppendDocIdRewrites ==
    ASSUME SessionInv, NEW c \in SessionCallers, AppendDocId(c)
    PROVE  \E r : /\ SessionRewritten(sessionCall[c].id, r)
                  /\ r.state = sessions[sessionCall[c].id].state
                  /\ r.created = sessions[sessionCall[c].id].created
                  /\ r.days = sessions[sessionCall[c].id].days
<1> DEFINE i == sessionCall[c].id
           m == [by |-> sessionCall[c].tenant, item |-> sessionCall[c].item]
           r == [sessions[i] EXCEPT !.docs = Push(@, m, MaxDocIds)]
<1>1. sessionCall[c].op \in HoldingOps
  BY DEF AppendDocId, HoldingOps
<1>2. sessionCall[c] \in [op : {"append"}, id : SessionIds,
                          tenant : SessionTenants, item : SessionItems]
  BY CallKinds DEF AppendDocId, SessionInv, SessionTypes
<1>3. /\ i \in DOMAIN sessions /\ sessions[i] \in Session /\ Proper(sessions[i])
      /\ m \in Memo /\ m.by = sessions[i].tenant
  BY <1>1, <1>2, HeldSession DEF Memo
<1>4. sessions' = [sessions EXCEPT ![i] = r]
  BY DEF AppendDocId
<1>5. /\ r \in Session /\ Proper(r) /\ r.tenant = sessions[i].tenant
      /\ r.state = sessions[i].state /\ r.created = sessions[i].created
      /\ r.days = sessions[i].days
  BY <1>3, DocAdded
<1> HIDE DEF r
<1> QED
  BY <1>3, <1>4, <1>5 DEF SessionRewritten

\* Clearing, by a delete or by the sweep, and the state of a closed session.
LEMMA ClearRewrites ==
    ASSUME SessionInv, NEW i \in DOMAIN sessions, sessions' = Cleared(i)
    PROVE  \E r : /\ SessionRewritten(i, r)
                  /\ r.state = sessions[i].state
                  /\ r.created = sessions[i].created
                  /\ r.days = sessions[i].days
                  /\ r.citations = <<>> /\ r.docs = <<>>
<1> DEFINE r == [sessions[i] EXCEPT !.citations = <<>>, !.docs = <<>>]
<1>1. sessions \in Seq(Session) /\ sessions[i] \in Session /\ Proper(sessions[i])
  BY LenProperties, ElementOfSeq DEF SessionInv, SessionTypes
<1>2. sessions' = [sessions EXCEPT ![i] = r]
  BY DEF Cleared
<1>3. /\ r \in Session /\ Proper(r) /\ r.tenant = sessions[i].tenant
      /\ r.state = sessions[i].state /\ r.created = sessions[i].created
      /\ r.days = sessions[i].days /\ r.citations = <<>> /\ r.docs = <<>>
  BY <1>1, MemoryCleared
<1> HIDE DEF r
<1> QED
  BY <1>2, <1>3 DEF SessionRewritten

LEMMA CloseRewrites ==
    ASSUME SessionInv, NEW i \in DOMAIN sessions, NEW v \in {"expired", "deleted"},
           sessions' = [sessions EXCEPT ![i].state = v]
    PROVE  \E r : /\ SessionRewritten(i, r)
                  /\ r.state = v
                  /\ r.created = sessions[i].created
                  /\ r.days = sessions[i].days
                  /\ r.citations = sessions[i].citations
                  /\ r.docs = sessions[i].docs
<1> DEFINE r == [sessions[i] EXCEPT !.state = v]
<1>1. sessions[i] \in Session /\ Proper(sessions[i])
  BY LenProperties, ElementOfSeq DEF SessionInv, SessionTypes
<1>2. sessions' = [sessions EXCEPT ![i] = r]
  OBVIOUS
<1>3. /\ r \in Session /\ Proper(r) /\ r.tenant = sessions[i].tenant
      /\ r.state = v /\ r.created = sessions[i].created
      /\ r.days = sessions[i].days /\ r.citations = sessions[i].citations
      /\ r.docs = sessions[i].docs
  <2> DEFINE s == sessions[i]
  <2>1. s \in Session /\ Proper(s) /\ r = [s EXCEPT !.state = v]
    BY <1>1
  <2> HIDE DEF s, r
  <2>2. /\ r \in Session /\ Proper(r) /\ r.tenant = s.tenant
        /\ r.state = v /\ r.created = s.created /\ r.days = s.days
        /\ r.citations = s.citations /\ r.docs = s.docs
    BY <2>1, StateReplaced
  <2> QED
    BY <2>2 DEF s
<1> HIDE DEF r
<1> QED
  BY <1>2, <1>3 DEF SessionRewritten

\* A step of a call that stays with its session, that takes a document in
\* hand, or that ends.
CallStepped(c) ==
    \E q \in Call :
        /\ sessionCall' = [sessionCall EXCEPT ![c] = q]
        /\ OwnAnswer(q)
        /\ q.op \in HoldingOps => /\ sessionCall[c].op \in HoldingOps
                                  /\ q.id = sessionCall[c].id
                                  /\ q.tenant = sessionCall[c].tenant

LEMMA MovesOn ==
    ASSUME SessionInv, NEW c \in SessionCallers,
           sessionCall[c].op \in HoldingOps \ {"append"},
           NEW v \in HoldingOps \ {"append"},
           sessionCall' = [sessionCall EXCEPT ![c].op = v]
    PROVE  CallStepped(c)
<1> DEFINE q == [sessionCall[c] EXCEPT !.op = v]
<1>1. sessionCall[c] \in [op : HoldingOps \ {"append"}, id : SessionIds,
                          tenant : SessionTenants]
  BY CallKinds DEF SessionInv, SessionTypes
<1>2. /\ q \in [op : HoldingOps \ {"append"}, id : SessionIds,
                tenant : SessionTenants]
      /\ q.op = v /\ q.id = sessionCall[c].id
      /\ q.tenant = sessionCall[c].tenant
  BY <1>1
<1>3. sessionCall' = [sessionCall EXCEPT ![c] = q]
  OBVIOUS
<1> HIDE DEF q
<1>4. q \in Call
  BY <1>2 DEF Call
<1>5. OwnAnswer(q)
  BY <1>2 DEF OwnAnswer, HoldingOps
<1> QED
  BY <1>2, <1>3, <1>4, <1>5 DEF CallStepped

LEMMA Ends ==
    ASSUME NEW c \in SessionCallers,
           sessionCall' = [sessionCall EXCEPT ![c] = NoCall]
    PROVE  CallStepped(c)
<1>1. NoCall \in Call /\ OwnAnswer(NoCall) /\ ~(NoCall.op \in HoldingOps)
  BY DEF Call, NoCall, OwnAnswer, HoldingOps
<1> QED
  BY <1>1 DEF CallStepped

\* A step of a call: with the session it holds rewritten, or with none.
LEMMA CallKeepsInv ==
    ASSUME SessionInv, NEW c \in SessionCallers, CallStepped(c),
           \/ sessionCall[c].op \in HoldingOps
              /\ \E r : SessionRewritten(sessionCall[c].id, r)
           \/ sessions' = sessions,
           UNCHANGED <<sweep, expiredAudit, day>>,
           lateWrites' \in SUBSET SessionIds
    PROVE  SessionInv'
<1>1. /\ sessions \in Seq(Session) /\ Len(sessions) <= MaxSessions
      /\ sessionCall \in [SessionCallers -> Call]
      /\ sweep \in {NoSweep} \cup Sweep
      /\ expiredAudit \in [SessionIds -> Nat] /\ day \in 0..LastDay
      /\ \A i \in DOMAIN sessions : Proper(sessions[i])
  BY DEF SessionInv, SessionTypes
<1>2. /\ sessions' \in Seq(Session) /\ Len(sessions') <= MaxSessions
      /\ DOMAIN sessions' = DOMAIN sessions
      /\ \A i \in DOMAIN sessions' : Proper(sessions'[i])
      /\ \A i \in DOMAIN sessions : sessions'[i].tenant = sessions[i].tenant
  <2>1. CASE sessions' = sessions
    BY <1>1, <2>1
  <2>2. CASE \E r : SessionRewritten(sessionCall[c].id, r)
    BY <2>2, Rewritten
  <2> QED
    BY <2>1, <2>2
<1>3. PICK q \in Call :
        /\ sessionCall' = [sessionCall EXCEPT ![c] = q]
        /\ OwnAnswer(q)
        /\ q.op \in HoldingOps => /\ sessionCall[c].op \in HoldingOps
                                  /\ q.id = sessionCall[c].id
                                  /\ q.tenant = sessionCall[c].tenant
  BY DEF CallStepped
<1>4. /\ sessionCall' \in [SessionCallers -> Call] /\ sessionCall'[c] = q
      /\ \A d \in SessionCallers : d # c => sessionCall'[d] = sessionCall[d]
  BY <1>1, <1>3
<1>5. OwnSession(q, sessions')
  <2>1. SUFFICES ASSUME q.op \in HoldingOps
                 PROVE  /\ q.id \in DOMAIN sessions'
                        /\ sessions'[q.id].tenant = q.tenant
    BY DEF OwnSession
  <2>2. sessionCall[c].op \in HoldingOps
    BY <1>3, <2>1
  <2>3. /\ sessionCall[c].id \in DOMAIN sessions
        /\ sessions[sessionCall[c].id].tenant = sessionCall[c].tenant
    BY <2>2 DEF SessionInv, OwnSession
  <2> QED
    BY <1>2, <1>3, <2>1, <2>3
<1>6. \A d \in SessionCallers :
         \/ sessionCall'[d] = sessionCall[d]
         \/ OwnSession(sessionCall'[d], sessions') /\ OwnAnswer(sessionCall'[d])
  BY <1>3, <1>4, <1>5
<1>7. /\ sweep' \in {NoSweep} \cup Sweep
      /\ expiredAudit' \in [SessionIds -> Nat] /\ day' \in 0..LastDay
  BY <1>1
<1> QED
  BY <1>2, <1>4, <1>6, <1>7, SessionStep

LEMMA NotedTyped ==
    ASSUME SessionInv, NEW i \in SessionIds
    PROVE  Noted(i) \in SUBSET SessionIds /\ lateWrites \subseteq Noted(i)
  BY DEF Noted, SessionInv, SessionTypes

LEMMA SessionInvInit == SessionInit => SessionInv
<1> SUFFICES ASSUME SessionInit PROVE SessionInv
  OBVIOUS
<1>1. sessions \in Seq(Session) /\ Len(sessions) = 0 /\ DOMAIN sessions = {}
  BY EmptySeq DEF SessionInit
<1>2. sessionCall \in [SessionCallers -> Call]
  BY DEF SessionInit, Call
<1>3. SessionTypes
  BY <1>1, <1>2 DEF SessionInit, SessionTypes
<1>4. \A c \in SessionCallers :
         OwnSession(sessionCall[c], sessions) /\ OwnAnswer(sessionCall[c])
  BY DEF SessionInit, NoCall, OwnSession, OwnAnswer, HoldingOps
<1> QED
  BY <1>1, <1>3, <1>4 DEF SessionInv

LEMMA CreateKeepsInv ==
    ASSUME SessionInv, NEW t \in SessionTenants, NEW days \in RetentionAsked,
           CreateSession(t, days)
    PROVE  /\ SessionInv'
           /\ DOMAIN sessions' = DOMAIN sessions \cup {Len(sessions) + 1}
           /\ \A i \in DOMAIN sessions : sessions'[i] = sessions[i]
           /\ sessions'[Len(sessions) + 1].state = "active"
           /\ Len(sessions) + 1 \notin DOMAIN sessions
<1> DEFINE n == [tenant |-> t, created |-> day, days |-> days,
                 state |-> "active", citations |-> <<>>, docs |-> <<>>]
<1>1. days \in Nat /\ day \in Nat
  BY DEF CreateSession, SessionInv, SessionTypes
<1>2. /\ n \in Session /\ n.state = "active" /\ n.tenant = t
      /\ n.citations = <<>> /\ n.docs = <<>>
  BY <1>1, EmptyMemory DEF Session
<1>3. sessions' = Append(sessions, n)
  BY DEF CreateSession
<1>4. sessions \in Seq(Session) /\ Len(sessions) \in Nat /\ DOMAIN sessions = 1..Len(sessions)
  BY LenProperties DEF SessionInv, SessionTypes
<1> HIDE DEF n
<1>5. Proper(n)
  BY <1>2, EmptyMemory DEF Proper, Memory
<1>6. /\ sessions' \in Seq(Session) /\ Len(sessions') = Len(sessions) + 1
      /\ \A i \in 1..Len(sessions) : sessions'[i] = sessions[i]
      /\ sessions'[Len(sessions) + 1] = n
  BY <1>2, <1>3, <1>4, AppendProperties
<1>7. DOMAIN sessions' = 1..(Len(sessions) + 1)
  BY <1>6, LenProperties
<1>8. DOMAIN sessions' = DOMAIN sessions \cup {Len(sessions) + 1}
  BY <1>4, <1>7
<1>9. \A i \in DOMAIN sessions' : Proper(sessions'[i])
  BY <1>4, <1>5, <1>6, <1>8 DEF SessionInv
<1>10. /\ Len(sessions') <= MaxSessions
       /\ sessionCall' \in [SessionCallers -> Call] /\ sessionCall' = sessionCall
       /\ sweep' \in {NoSweep} \cup Sweep
       /\ expiredAudit' \in [SessionIds -> Nat]
       /\ lateWrites' \in SUBSET SessionIds /\ day' \in 0..LastDay
  BY <1>4, <1>6 DEF CreateSession, SessionInv, SessionTypes
<1>11. SessionInv'
  <2>1. /\ DOMAIN sessions \subseteq DOMAIN sessions'
        /\ \A i \in DOMAIN sessions : sessions'[i].tenant = sessions[i].tenant
    BY <1>4, <1>6, <1>8
  <2> QED
    BY <1>6, <1>9, <1>10, <2>1, SessionStep
<1> QED
  BY <1>2, <1>4, <1>6, <1>8, <1>11

LEMMA LookupKeepsInv ==
    ASSUME SessionInv, NEW c \in SessionCallers,
           NEW op \in {"get", "add", "delete"}, NEW i \in SessionIds,
           NEW t \in SessionTenants, LookupSession(c, op, i, t)
    PROVE  SessionInv'
<1> DEFINE q == [op |-> op, id |-> i, tenant |-> t]
<1>1. /\ q \in [op : HoldingOps \ {"append"}, id : SessionIds,
                tenant : SessionTenants]
      /\ q.op = op /\ q.id = i /\ q.tenant = t
  BY DEF HoldingOps
<1>2. sessionCall' = [sessionCall EXCEPT ![c] = q]
  BY DEF LookupSession
<1> HIDE DEF q
<1>3. q \in Call
  BY <1>1 DEF Call
<1>4. /\ sessions' = sessions /\ sweep' = sweep /\ expiredAudit' = expiredAudit
      /\ lateWrites' = lateWrites /\ day' = day
      /\ i \in DOMAIN sessions /\ sessions[i].tenant = t
  BY DEF LookupSession, Accessible
<1>5. OwnSession(q, sessions') /\ OwnAnswer(q)
  BY <1>1, <1>4 DEF OwnSession, OwnAnswer
<1>6. /\ sessions \in Seq(Session) /\ Len(sessions) <= MaxSessions
      /\ sessionCall \in [SessionCallers -> Call]
      /\ sweep \in {NoSweep} \cup Sweep
      /\ expiredAudit \in [SessionIds -> Nat] /\ day \in 0..LastDay
      /\ lateWrites \in SUBSET SessionIds
      /\ \A j \in DOMAIN sessions : Proper(sessions[j])
  BY DEF SessionInv, SessionTypes
<1>7. /\ sessionCall' \in [SessionCallers -> Call]
      /\ \A d \in SessionCallers :
            \/ sessionCall'[d] = sessionCall[d]
            \/ OwnSession(sessionCall'[d], sessions') /\ OwnAnswer(sessionCall'[d])
  <2>1. /\ sessionCall' \in [SessionCallers -> Call] /\ sessionCall'[c] = q
        /\ \A d \in SessionCallers : d # c => sessionCall'[d] = sessionCall[d]
    BY <1>2, <1>3, <1>6
  <2> QED
    BY <1>5, <2>1
<1>8. /\ sessions' \in Seq(Session) /\ Len(sessions') <= MaxSessions
      /\ DOMAIN sessions \subseteq DOMAIN sessions'
      /\ \A j \in DOMAIN sessions : sessions'[j].tenant = sessions[j].tenant
      /\ \A j \in DOMAIN sessions' : Proper(sessions'[j])
      /\ sweep' \in {NoSweep} \cup Sweep
      /\ expiredAudit' \in [SessionIds -> Nat]
      /\ lateWrites' \in SUBSET SessionIds /\ day' \in 0..LastDay
  BY <1>4, <1>6
<1> QED
  BY <1>7, <1>8, SessionStep

LEMMA GetKeepsInv ==
    ASSUME SessionInv, NEW c \in SessionCallers, GetMemory(c)
    PROVE  SessionInv'
<1> DEFINE s == sessions[sessionCall[c].id]
           q == [op |-> "got", tenant |-> sessionCall[c].tenant, seen |-> Memory(s)]
<1>1. sessionCall[c].op \in HoldingOps
  BY DEF GetMemory, HoldingOps
<1>2. /\ s \in Session /\ Proper(s) /\ s.tenant = sessionCall[c].tenant
      /\ sessionCall[c].tenant \in SessionTenants
  BY <1>1, HeldSession
<1>3. /\ sessionCall' = [sessionCall EXCEPT ![c] = q]
      /\ UNCHANGED <<sessions, sweep, expiredAudit, lateWrites, day>>
  BY DEF GetMemory, Memory
<1> HIDE DEF s
<1>4. Memory(s) \subseteq Memo
  <2>1. s.citations \in Seq(Memo) /\ s.docs \in Seq(Memo)
    BY <1>2 DEF Session
  <2> QED
    BY <2>1, ToSetOfSeq DEF Memory
<1>5. /\ q \in [op : {"got"}, tenant : SessionTenants, seen : SUBSET Memo]
      /\ q.op = "got" /\ q.tenant = s.tenant /\ q.seen = Memory(s)
  BY <1>2, <1>4
<1> HIDE DEF q
<1>6. q \in Call
  BY <1>5 DEF Call
<1>7. OwnAnswer(q) /\ ~(q.op \in HoldingOps)
  BY <1>2, <1>5 DEF OwnAnswer, Proper, HoldingOps
<1>8. CallStepped(c)
  BY <1>3, <1>6, <1>7 DEF CallStepped
<1>9. lateWrites' \in SUBSET SessionIds
  BY <1>3 DEF SessionInv, SessionTypes
<1> QED
  BY <1>3, <1>8, <1>9, CallKeepsInv

-----------------------------------------------------------------------------
(* Closing.                                                                *)

\* No session is lost, re-dated or opened again.
StayClosed ==
    /\ DOMAIN sessions \subseteq DOMAIN sessions'
    /\ \A i \in DOMAIN sessions :
          /\ sessions'[i].created = sessions[i].created
          /\ sessions'[i].days = sessions[i].days
          /\ sessions[i].state # "active" => sessions'[i].state # "active"

LEMMA RewrittenStaysClosed ==
    ASSUME SessionInv, NEW i, NEW r, SessionRewritten(i, r),
           r.created = sessions[i].created, r.days = sessions[i].days,
           sessions[i].state # "active" => r.state # "active"
    PROVE  StayClosed
<1>1. /\ DOMAIN sessions' = DOMAIN sessions
      /\ sessions'[i] = r
      /\ \A j \in DOMAIN sessions : j # i => sessions'[j] = sessions[j]
  BY Rewritten
<1> QED
  BY <1>1 DEF StayClosed

LEMMA SessionTyped ==
    ASSUME SessionInv, NEW i \in DOMAIN sessions
    PROVE  /\ sessions[i] \in Session /\ i \in SessionIds
           /\ sessions[i].created \in Nat /\ sessions[i].days \in Nat
<1>1. /\ sessions \in Seq(Session) /\ Len(sessions) <= MaxSessions
      /\ Len(sessions) \in Nat /\ DOMAIN sessions = 1..Len(sessions)
  BY LenProperties DEF SessionInv, SessionTypes
<1>2. sessions[i] \in Session
  BY <1>1, ElementOfSeq
<1>3. i \in SessionIds
  BY <1>1 DEF SessionIds
<1> QED
  BY <1>2, <1>3 DEF Session

LEMMA SweepTyped ==
    ASSUME SessionInv, sweep.on
    PROVE  /\ sweep \in Sweep /\ sweep.now \in Nat
           /\ sweep.todo \in SUBSET SessionIds
           /\ sweep.marked \in SUBSET SessionIds
<1>1. sweep = NoSweep \/ sweep \in Sweep
  BY DEF SessionInv, SessionTypes
<1>2. NoSweep.on = FALSE
  BY DEF NoSweep
<1>3. sweep \in Sweep
  BY <1>1, <1>2, Zenon
<1> QED
  BY <1>3 DEF Sweep

\* The clock and the calls leave what the sweep has marked, and what is in
\* the audit log, as it was.
LEMMA SweepAndAuditKept ==
    ASSUME SessionInv, SweepInv, AuditInv, StayClosed,
           sweep' = sweep, expiredAudit' = expiredAudit, day' \in {day, day + 1}
    PROVE  SweepInv' /\ AuditInv'
<1>1. day \in Nat /\ day' \in Nat /\ day <= day'
  BY DEF SessionInv, SessionTypes
<1>2. SweepInv'
  <2>1. SUFFICES ASSUME sweep.on PROVE SweepInv'
    BY DEF SweepInv
  <2>2. sweep.now \in Nat
    BY <2>1, SweepTyped
  <2>3. sweep.now <= day' /\ sweep.todo \subseteq DOMAIN sessions'
    BY <1>1, <2>1, <2>2 DEF SweepInv, StayClosed
  <2>4. ASSUME NEW i \in sweep.marked
        PROVE  /\ i \in DOMAIN sessions' /\ sessions'[i].state # "active"
               /\ expiredAudit[i] = 0
               /\ sweep.now >= sessions'[i].created + sessions'[i].days
    BY <2>1, <2>4 DEF SweepInv, StayClosed
  <2>5. \A i, j \in sweep.marked : i = j
    BY <2>1 DEF SweepInv
  <2> QED
    BY <2>3, <2>4, <2>5 DEF SweepInv
<1>3. ASSUME NEW i \in SessionIds
      PROVE  \/ expiredAudit[i] = 0
             \/ /\ expiredAudit[i] = 1 /\ i \in DOMAIN sessions'
                /\ sessions'[i].state # "active"
                /\ day' >= sessions'[i].created + sessions'[i].days
  <2>1. CASE expiredAudit[i] = 0
    BY <2>1
  <2>2. CASE expiredAudit[i] # 0
    <3>1. /\ expiredAudit[i] = 1 /\ i \in DOMAIN sessions
          /\ sessions[i].state # "active"
          /\ day >= sessions[i].created + sessions[i].days
      BY <2>2 DEF AuditInv
    <3>2. sessions[i].created \in Nat /\ sessions[i].days \in Nat
      BY <3>1, SessionTyped
    <3> QED
      BY <1>1, <3>1, <3>2 DEF StayClosed
  <2> QED
    BY <2>1, <2>2
<1> QED
  BY <1>2, <1>3 DEF AuditInv

\* A session is closed as it should be when nothing about it has changed, and
\* whoever was at work on it still is.
LEMMA CloseKept ==
    ASSUME CloseInv, lateWrites \subseteq lateWrites',
           \A j \in DOMAIN sessions' :
              \/ WellClosed(j)'
              \/ /\ j \in DOMAIN sessions /\ sessions'[j] = sessions[j]
                 /\ BeingClosed(j) => BeingClosed(j)'
    PROVE  CloseInv'
<1>1. ASSUME NEW j \in DOMAIN sessions' PROVE WellClosed(j)'
  <2>1. CASE /\ j \in DOMAIN sessions /\ sessions'[j] = sessions[j]
             /\ BeingClosed(j) => BeingClosed(j)'
    <3>1. WellClosed(j)
      BY <2>1 DEF CloseInv
    <3> QED
      BY <2>1, <3>1 DEF WellClosed
  <2> QED
    BY <1>1, <2>1
<1> QED
  BY <1>1 DEF CloseInv

\* The sweep and the other calls are where they were.
LEMMA StillBeingClosed ==
    ASSUME SessionInv, NEW c \in SessionCallers, NEW r,
           sessionCall' = [sessionCall EXCEPT ![c] = r], sweep' = sweep,
           NEW j, sessionCall[c].op = "clear" => sessionCall[c].id # j,
           BeingClosed(j)
    PROVE  BeingClosed(j)'
<1>1. sessionCall \in [SessionCallers -> Call]
  BY DEF SessionInv, SessionTypes
<1>2. \A d \in SessionCallers : d # c => sessionCall'[d] = sessionCall[d]
  BY <1>1
<1> QED
  BY <1>2 DEF BeingClosed

-----------------------------------------------------------------------------
(* The actions, one by one.                                                *)

Inv == SessionInv /\ ClosedInv

\* Calls that leave every session as it is and are not clearing one.
LEMMA QuietCall ==
    ASSUME Inv, NEW c \in SessionCallers, NEW r,
           sessionCall' = [sessionCall EXCEPT ![c] = r],
           sessionCall[c].op # "clear",
           UNCHANGED <<sessions, sweep, expiredAudit, lateWrites, day>>
    PROVE  ClosedInv'
<1>1. SweepInv' /\ AuditInv'
  BY SweepAndAuditKept DEF Inv, ClosedInv, StayClosed
<1>2. CloseInv'
  <2>1. \A j : BeingClosed(j) => BeingClosed(j)'
    BY StillBeingClosed DEF Inv
  <2> QED
    BY <2>1, CloseKept DEF Inv, ClosedInv
<1> QED
  BY <1>1, <1>2 DEF ClosedInv

\* Calls that rewrite the session they hold.
LEMMA WritingCall ==
    ASSUME Inv, NEW c \in SessionCallers, NEW q,
           sessionCall' = [sessionCall EXCEPT ![c] = q],
           NEW i, i = sessionCall[c].id,
           NEW r, SessionRewritten(i, r),
           r.created = sessions[i].created, r.days = sessions[i].days,
           sessions[i].state # "active" => r.state # "active",
           UNCHANGED <<sweep, expiredAudit, day>>,
           lateWrites \subseteq lateWrites',
           WellClosed(i)'
    PROVE  ClosedInv'
<1>1. StayClosed
  BY RewrittenStaysClosed DEF Inv
<1>2. SweepInv' /\ AuditInv'
  BY <1>1, SweepAndAuditKept DEF Inv, ClosedInv
<1>3. /\ DOMAIN sessions' = DOMAIN sessions
      /\ \A j \in DOMAIN sessions : j # i => sessions'[j] = sessions[j]
  BY Rewritten DEF Inv
<1>4. \A j : j # i /\ BeingClosed(j) => BeingClosed(j)'
  BY StillBeingClosed DEF Inv
<1>5. \A j \in DOMAIN sessions' :
         \/ WellClosed(j)'
         \/ /\ j \in DOMAIN sessions /\ sessions'[j] = sessions[j]
            /\ BeingClosed(j) => BeingClosed(j)'
  BY <1>3, <1>4
<1>6. CloseInv'
  BY <1>5, CloseKept DEF Inv, ClosedInv
<1> QED
  BY <1>2, <1>6 DEF ClosedInv

LEMMA CreateKeeps ==
    ASSUME Inv, NEW t \in SessionTenants, NEW days \in RetentionAsked,
           CreateSession(t, days)
    PROVE  Inv'
<1> DEFINE n == Len(sessions) + 1
<1>1. /\ SessionInv'
      /\ DOMAIN sessions' = DOMAIN sessions \cup {n}
      /\ \A i \in DOMAIN sessions : sessions'[i] = sessions[i]
      /\ sessions'[n].state = "active"
  BY CreateKeepsInv DEF Inv
<1> HIDE DEF n
<1>2. UNCHANGED <<sessionCall, sweep, expiredAudit, lateWrites, day>>
  BY DEF CreateSession
<1>3. StayClosed
  BY <1>1 DEF StayClosed
<1>4. SweepInv' /\ AuditInv'
  BY <1>2, <1>3, SweepAndAuditKept DEF Inv, ClosedInv
<1>5. \A j \in DOMAIN sessions' :
         \/ WellClosed(j)'
         \/ /\ j \in DOMAIN sessions /\ sessions'[j] = sessions[j]
            /\ BeingClosed(j) => BeingClosed(j)'
  BY <1>1, <1>2 DEF WellClosed, BeingClosed
<1>6. CloseInv'
  BY <1>2, <1>5, CloseKept DEF Inv, ClosedInv
<1> QED
  BY <1>1, <1>4, <1>6 DEF Inv, ClosedInv

LEMMA LookupKeeps ==
    ASSUME Inv, NEW c \in SessionCallers,
           NEW op \in {"get", "add", "delete"}, NEW i \in SessionIds,
           NEW t \in SessionTenants, LookupSession(c, op, i, t)
    PROVE  Inv'
<1>1. SessionInv'
  BY LookupKeepsInv DEF Inv
<1>2. ClosedInv'
  BY QuietCall DEF LookupSession
<1> QED
  BY <1>1, <1>2 DEF Inv

LEMMA GetKeeps ==
    ASSUME Inv, NEW c \in SessionCallers, GetMemory(c)
    PROVE  Inv'
<1>1. SessionInv'
  BY GetKeepsInv DEF Inv
<1>2. ClosedInv'
  BY QuietCall DEF GetMemory
<1> QED
  BY <1>1, <1>2 DEF Inv

LEMMA AnswerKeeps ==
    ASSUME Inv, NEW c \in SessionCallers, AnswerRead(c)
    PROVE  Inv'
<1>1. CallStepped(c)
  BY Ends DEF AnswerRead
<1>2. SessionInv'
  BY <1>1, CallKeepsInv DEF AnswerRead, Inv, SessionInv, SessionTypes
<1>3. ClosedInv'
  BY QuietCall DEF AnswerRead
<1> QED
  BY <1>2, <1>3 DEF Inv

LEMMA AddCitationKeeps ==
    ASSUME Inv, NEW c \in SessionCallers, NEW x \in SessionItems,
           AddCitation(c, x)
    PROVE  Inv'
<1>0. PICK i : i = sessionCall[c].id
  OBVIOUS
<1>1. PICK r : /\ SessionRewritten(i, r)
               /\ r.state = sessions[i].state
               /\ r.created = sessions[i].created
               /\ r.days = sessions[i].days
  BY <1>0, AddCitationRewrites DEF Inv
<1>2. /\ sessionCall[c].op = "add" /\ lateWrites' = Noted(i)
      /\ sessionCall' = [sessionCall EXCEPT ![c].op = "addDocs"]
      /\ UNCHANGED <<sweep, expiredAudit, day>>
  BY <1>0 DEF AddCitation
<1>3. sessionCall[c].op \in HoldingOps /\ CallStepped(c)
  BY <1>0, <1>2, MovesOn DEF HoldingOps, Inv
<1>4. i \in SessionIds
  BY <1>0, <1>3, HeldSession DEF Inv
<1>5. lateWrites' \in SUBSET SessionIds /\ lateWrites \subseteq lateWrites'
  BY <1>0, <1>2, <1>4, NotedTyped DEF Inv
<1>6. SessionInv'
  BY <1>0, <1>1, <1>2, <1>3, <1>5, CallKeepsInv DEF Inv
<1>7. WellClosed(i)'
  BY <1>0, <1>1, <1>2, Rewritten DEF WellClosed, Noted, Inv
<1>8. ClosedInv'
  BY <1>0, <1>1, <1>2, <1>5, <1>7, WritingCall
<1> QED
  BY <1>6, <1>8 DEF Inv

LEMMA RemoveDocIdKeeps ==
    ASSUME Inv, NEW c \in SessionCallers, NEW x \in SessionItems,
           RemoveDocId(c, x)
    PROVE  Inv'
<1>0. PICK i : i = sessionCall[c].id
  OBVIOUS
<1> DEFINE q == [op |-> "append", id |-> i, tenant |-> sessionCall[c].tenant,
                 item |-> x]
<1>1. PICK r : /\ SessionRewritten(i, r)
               /\ r.state = sessions[i].state
               /\ r.created = sessions[i].created
               /\ r.days = sessions[i].days
               /\ r.citations = sessions[i].citations
               /\ sessions[i].docs = <<>> => r.docs = <<>>
  BY <1>0, RemoveDocIdRewrites DEF Inv
<1>2. /\ sessionCall[c].op = "addDocs"
      /\ sessionCall' = [sessionCall EXCEPT ![c] = q]
      /\ UNCHANGED <<sweep, expiredAudit, lateWrites, day>>
  BY <1>0 DEF RemoveDocId
<1>3. sessionCall[c].op \in HoldingOps
  BY <1>0, <1>2 DEF HoldingOps
<1>4. /\ i \in SessionIds /\ i \in DOMAIN sessions
      /\ sessionCall[c].tenant \in SessionTenants
  BY <1>0, <1>3, HeldSession DEF Inv
<1>5. /\ q \in [op : {"append"}, id : SessionIds, tenant : SessionTenants,
                item : SessionItems]
      /\ q.op = "append" /\ q.id = i /\ q.tenant = sessionCall[c].tenant
  BY <1>0, <1>4
<1> HIDE DEF q
<1>6. q \in Call /\ OwnAnswer(q)
  BY <1>0, <1>5 DEF Call, OwnAnswer
<1>7. CallStepped(c)
  BY <1>0, <1>2, <1>3, <1>5, <1>6 DEF CallStepped
<1>8. lateWrites' \in SUBSET SessionIds
  BY <1>0, <1>2 DEF Inv, SessionInv, SessionTypes
<1>9. SessionInv'
  BY <1>0, <1>1, <1>2, <1>3, <1>7, <1>8, CallKeepsInv DEF Inv
<1>10. WellClosed(i)'
  <2>1. sessions'[i] = r
    BY <1>0, <1>1, Rewritten DEF Inv
  <2>2. WellClosed(i)
    BY <1>0, <1>4 DEF Inv, ClosedInv, CloseInv
  <2>3. BeingClosed(i) => BeingClosed(i)'
    BY <1>0, <1>2, StillBeingClosed DEF Inv
  <2> QED
    BY <1>0, <1>1, <1>2, <2>1, <2>2, <2>3 DEF WellClosed
<1>11. ClosedInv'
  BY <1>0, <1>1, <1>2, <1>10, WritingCall
<1> QED
  BY <1>9, <1>11 DEF Inv

LEMMA AppendDocIdKeeps ==
    ASSUME Inv, NEW c \in SessionCallers, AppendDocId(c)
    PROVE  Inv'
<1>0. PICK i : i = sessionCall[c].id
  OBVIOUS
<1>1. PICK r : /\ SessionRewritten(i, r)
               /\ r.state = sessions[i].state
               /\ r.created = sessions[i].created
               /\ r.days = sessions[i].days
  BY <1>0, AppendDocIdRewrites DEF Inv
<1>2. /\ sessionCall[c].op = "append" /\ lateWrites' = Noted(i)
      /\ sessionCall' = [sessionCall EXCEPT ![c] = NoCall]
      /\ UNCHANGED <<sweep, expiredAudit, day>>
  BY <1>0 DEF AppendDocId
<1>3. sessionCall[c].op \in HoldingOps /\ CallStepped(c)
  BY <1>0, <1>2, Ends DEF HoldingOps
<1>4. i \in SessionIds
  BY <1>0, <1>3, HeldSession DEF Inv
<1>5. lateWrites' \in SUBSET SessionIds /\ lateWrites \subseteq lateWrites'
  BY <1>0, <1>2, <1>4, NotedTyped DEF Inv
<1>6. SessionInv'
  BY <1>0, <1>1, <1>2, <1>3, <1>5, CallKeepsInv DEF Inv
<1>7. WellClosed(i)'
  BY <1>0, <1>1, <1>2, Rewritten DEF WellClosed, Noted, Inv
<1>8. ClosedInv'
  BY <1>0, <1>1, <1>2, <1>5, <1>7, WritingCall
<1> QED
  BY <1>6, <1>8 DEF Inv

LEMMA MarkDeletedKeeps ==
    ASSUME Inv, NEW c \in SessionCallers, MarkDeleted(c)
    PROVE  Inv'
<1>0. PICK i : i = sessionCall[c].id
  OBVIOUS
<1>1. /\ sessionCall[c].op = "delete"
      /\ sessions' = [sessions EXCEPT ![i].state = "deleted"]
      /\ sessionCall' = [sessionCall EXCEPT ![c].op = "clear"]
      /\ UNCHANGED <<sweep, expiredAudit, lateWrites, day>>
  BY <1>0 DEF MarkDeleted
<1>2. sessionCall[c].op \in HoldingOps /\ CallStepped(c)
  BY <1>0, <1>1, MovesOn DEF HoldingOps, Inv
<1>3. i \in DOMAIN sessions
  BY <1>0, <1>2, HeldSession DEF Inv
<1>4. PICK r : /\ SessionRewritten(i, r)
               /\ r.state = "deleted"
               /\ r.created = sessions[i].created
               /\ r.days = sessions[i].days
  BY <1>0, <1>1, <1>3, CloseRewrites DEF Inv
<1>5. lateWrites' \in SUBSET SessionIds
  BY <1>0, <1>1 DEF Inv, SessionInv, SessionTypes
<1>6. SessionInv'
  BY <1>0, <1>1, <1>2, <1>4, <1>5, CallKeepsInv DEF Inv
<1>7. WellClosed(i)'
  <2>1. sessionCall'[c].op = "clear" /\ sessionCall'[c].id = i
    <3>1. sessionCall \in [SessionCallers -> Call]
      BY <1>0 DEF Inv, SessionInv, SessionTypes
    <3>2. sessionCall[c] \in [op : HoldingOps \ {"append"}, id : SessionIds,
                              tenant : SessionTenants]
      BY <1>0, <1>1, <1>2, CallKinds DEF Inv, SessionInv, SessionTypes
    <3> QED
      BY <1>0, <1>1, <3>1, <3>2
  <2> QED
    BY <1>0, <2>1 DEF WellClosed, BeingClosed
<1>8. ClosedInv'
  BY <1>0, <1>1, <1>4, <1>7, WritingCall
<1> QED
  BY <1>6, <1>8 DEF Inv

LEMMA ClearDeletedKeeps ==
    ASSUME Inv, NEW c \in SessionCallers, ClearDeleted(c)
    PROVE  Inv'
<1>0. PICK i : i = sessionCall[c].id
  OBVIOUS
<1>1. /\ sessionCall[c].op = "clear" /\ sessions' = Cleared(i)
      /\ sessionCall' = [sessionCall EXCEPT ![c] = NoCall]
      /\ UNCHANGED <<sweep, expiredAudit, lateWrites, day>>
  BY <1>0 DEF ClearDeleted
<1>2. sessionCall[c].op \in HoldingOps /\ CallStepped(c)
  BY <1>0, <1>1, Ends DEF HoldingOps
<1>3. i \in DOMAIN sessions
  BY <1>0, <1>2, HeldSession DEF Inv
<1>4. PICK r : /\ SessionRewritten(i, r)
               /\ r.state = sessions[i].state
               /\ r.created = sessions[i].created
               /\ r.days = sessions[i].days
               /\ r.citations = <<>> /\ r.docs = <<>>
  BY <1>0, <1>1, <1>3, ClearRewrites DEF Inv
<1>5. lateWrites' \in SUBSET SessionIds
  BY <1>0, <1>1 DEF Inv, SessionInv, SessionTypes
<1>6. SessionInv'
  BY <1>0, <1>1, <1>2, <1>4, <1>5, CallKeepsInv DEF Inv
<1>7. WellClosed(i)'
  BY <1>0, <1>4, Rewritten DEF WellClosed, Inv
<1>8. ClosedInv'
  BY <1>0, <1>1, <1>4, <1>7, WritingCall
<1> QED
  BY <1>6, <1>8 DEF Inv

\* Steps that are no call's: the sweep's and the clock's.
LEMMA NoCallKeepsInv ==
    ASSUME SessionInv,
           sessions' = sessions \/ (\E i, r : SessionRewritten(i, r)),
           UNCHANGED <<sessionCall, lateWrites>>,
           sweep' \in {NoSweep} \cup Sweep,
           expiredAudit' \in [SessionIds -> Nat], day' \in 0..LastDay
    PROVE  SessionInv'
<1>1. /\ sessions \in Seq(Session) /\ Len(sessions) <= MaxSessions
      /\ sessionCall \in [SessionCallers -> Call]
      /\ lateWrites \in SUBSET SessionIds
      /\ \A i \in DOMAIN sessions : Proper(sessions[i])
  BY DEF SessionInv, SessionTypes
<1>2. /\ sessions' \in Seq(Session) /\ Len(sessions') <= MaxSessions
      /\ DOMAIN sessions' = DOMAIN sessions
      /\ \A i \in DOMAIN sessions' : Proper(sessions'[i])
      /\ \A i \in DOMAIN sessions : sessions'[i].tenant = sessions[i].tenant
  <2>1. CASE sessions' = sessions
    BY <1>1, <2>1
  <2>2. CASE \E i, r : SessionRewritten(i, r)
    BY <2>2, Rewritten
  <2> QED
    BY <2>1, <2>2
<1>3. /\ sessionCall' \in [SessionCallers -> Call]
      /\ \A d \in SessionCallers : sessionCall'[d] = sessionCall[d]
      /\ lateWrites' \in SUBSET SessionIds
  BY <1>1
<1> QED
  BY <1>2, <1>3, SessionStep

LEMMA StartSweepKeeps ==
    ASSUME Inv, StartSweep
    PROVE  Inv'
<1>1. /\ ~sweep.on
      /\ sweep' = [on |-> TRUE, now |-> day, todo |-> DOMAIN sessions,
                   marked |-> {}]
      /\ UNCHANGED <<sessions, sessionCall, expiredAudit, lateWrites, day>>
  BY DEF StartSweep
<1>2. /\ DOMAIN sessions \subseteq SessionIds
      /\ day \in Nat /\ day' \in 0..LastDay
      /\ expiredAudit' \in [SessionIds -> Nat]
  BY <1>1, SessionTyped DEF Inv, SessionInv, SessionTypes
<1>3. sweep' \in {NoSweep} \cup Sweep
  BY <1>1, <1>2 DEF Sweep
<1>4. SessionInv'
  BY <1>1, <1>2, <1>3, NoCallKeepsInv DEF Inv
<1>5. /\ sweep'.now = day /\ sweep'.todo = DOMAIN sessions /\ sweep'.marked = {}
  BY <1>1
<1>6. SweepInv'
  BY <1>1, <1>2, <1>5 DEF SweepInv
<1>7. AuditInv'
  BY <1>1 DEF AuditInv, Inv, ClosedInv
<1>8. CloseInv'
  <2>1. \A j : BeingClosed(j) => BeingClosed(j)'
    BY <1>1 DEF BeingClosed
  <2> QED
    BY <1>1, <2>1, CloseKept DEF Inv, ClosedInv
<1> QED
  BY <1>4, <1>6, <1>7, <1>8 DEF Inv, ClosedInv

\* The sweep takes a session that is active and over its retention.
LEMMA SweepExpires ==
    ASSUME Inv, NEW i \in SessionIds, SweepMarks(i), SweepTakes(sessions[i])
    PROVE  Inv'
<1>1. /\ sweep.on /\ sweep.marked = {} /\ i \in sweep.todo
      /\ sessions' = [sessions EXCEPT ![i].state = "expired"]
      /\ sweep' = [sweep EXCEPT !.todo = @ \ {i}, !.marked = {i}]
      /\ UNCHANGED <<sessionCall, expiredAudit, lateWrites, day>>
  BY DEF SweepMarks
<1>2. /\ sweep \in Sweep /\ sweep.now <= day /\ i \in DOMAIN sessions
      /\ sweep.todo \subseteq DOMAIN sessions
  BY <1>1, SweepTyped DEF Inv, ClosedInv, SweepInv
<1>3. /\ sweep' \in Sweep /\ sweep'.on /\ sweep'.now = sweep.now
      /\ sweep'.todo \subseteq sweep.todo /\ sweep'.marked = {i}
  BY <1>1, <1>2 DEF Sweep
<1>4. PICK r : /\ SessionRewritten(i, r)
               /\ r.state = "expired"
               /\ r.created = sessions[i].created
               /\ r.days = sessions[i].days
  BY <1>1, <1>2, CloseRewrites DEF Inv
<1>5. SessionInv'
  <2>1. day' \in 0..LastDay /\ expiredAudit' \in [SessionIds -> Nat]
    BY <1>1 DEF Inv, SessionInv, SessionTypes
  <2> QED
    BY <1>1, <1>3, <1>4, <2>1, NoCallKeepsInv DEF Inv
<1>6. /\ DOMAIN sessions' = DOMAIN sessions /\ sessions'[i] = r
      /\ \A j \in DOMAIN sessions : j # i => sessions'[j] = sessions[j]
  BY <1>4, Rewritten DEF Inv
<1>7. /\ sessions[i].state = "active"
      /\ sweep.now >= sessions[i].created + sessions[i].days
  BY DEF SweepTakes, IsExpired
<1>8. expiredAudit[i] = 0
  BY <1>7 DEF Inv, ClosedInv, AuditInv
<1>9. SweepInv'
  <2>1. sweep'.now <= day'
    BY <1>1, <1>2, <1>3
  <2>2. sweep'.todo \subseteq DOMAIN sessions'
    BY <1>2, <1>3, <1>6
  <2>3. \A j \in sweep'.marked :
           /\ j \in DOMAIN sessions' /\ sessions'[j].state # "active"
           /\ expiredAudit'[j] = 0
           /\ sweep'.now >= sessions'[j].created + sessions'[j].days
    BY <1>1, <1>2, <1>3, <1>4, <1>6, <1>7, <1>8
  <2>4. \A j, k \in sweep'.marked : j = k
    BY <1>3
  <2> QED
    BY <2>1, <2>2, <2>3, <2>4 DEF SweepInv
<1>10. AuditInv'
  <2>1. ASSUME NEW j \in SessionIds
        PROVE  \/ expiredAudit'[j] = 0
               \/ /\ expiredAudit'[j] = 1 /\ j \in DOMAIN sessions'
                  /\ sessions'[j].state # "active"
                  /\ day' >= sessions'[j].created + sessions'[j].days
    BY <1>1, <1>6, <1>8 DEF Inv, ClosedInv, AuditInv
  <2> QED
    BY <2>1 DEF AuditInv
<1>11. CloseInv'
  <2>1. WellClosed(i)'
    BY <1>3 DEF WellClosed, BeingClosed
  <2>2. \A j : BeingClosed(j) => BeingClosed(j)'
    BY <1>1 DEF BeingClosed
  <2> QED
    BY <1>1, <1>6, <2>1, <2>2, CloseKept DEF Inv, ClosedInv
<1> QED
  BY <1>5, <1>9, <1>10, <1>11 DEF Inv, ClosedInv

LEMMA SweepPasses ==
    ASSUME Inv, NEW i \in SessionIds, SweepMarks(i), ~SweepTakes(sessions[i])
    PROVE  Inv'
<1>1. /\ sweep.on
      /\ sweep' = [sweep EXCEPT !.todo = @ \ {i}]
      /\ UNCHANGED <<sessions, sessionCall, expiredAudit, lateWrites, day>>
  BY DEF SweepMarks
<1>2. /\ sweep \in Sweep
  BY <1>1, SweepTyped DEF Inv
<1>3. /\ sweep' \in Sweep /\ sweep'.on = sweep.on /\ sweep'.now = sweep.now
      /\ sweep'.todo \subseteq sweep.todo /\ sweep'.marked = sweep.marked
  BY <1>1, <1>2 DEF Sweep
<1>4. SessionInv'
  <2>1. day' \in 0..LastDay /\ expiredAudit' \in [SessionIds -> Nat]
    BY <1>1 DEF Inv, SessionInv, SessionTypes
  <2> QED
    BY <1>1, <1>3, <2>1, NoCallKeepsInv DEF Inv
<1>5. SweepInv'
  BY <1>1, <1>3 DEF Inv, ClosedInv, SweepInv
<1>6. AuditInv'
  BY <1>1 DEF AuditInv, Inv, ClosedInv
<1>7. CloseInv'
  <2>1. \A j : BeingClosed(j) => BeingClosed(j)'
    BY <1>1, <1>3 DEF BeingClosed
  <2> QED
    BY <1>1, <2>1, CloseKept DEF Inv, ClosedInv
<1> QED
  BY <1>4, <1>5, <1>6, <1>7 DEF Inv, ClosedInv

LEMMA SweepClearsKeeps ==
    ASSUME Inv, NEW i \in SessionIds, SweepClears(i)
    PROVE  Inv'
<1>1. PICK n \in {0, 1} :
        expiredAudit' = [expiredAudit EXCEPT ![i] = expiredAudit[i] + n]
  BY DEF SweepClears
<1>2. /\ sweep.on /\ i \in sweep.marked /\ sessions' = Cleared(i)
      /\ sweep' = [sweep EXCEPT !.marked = {}]
      /\ UNCHANGED <<sessionCall, lateWrites, day>>
  BY DEF SweepClears
<1>3. /\ sweep.now <= day /\ sweep.now \in Nat /\ sweep \in Sweep
      /\ sweep.todo \subseteq DOMAIN sessions
      /\ i \in DOMAIN sessions /\ sessions[i].state # "active"
      /\ expiredAudit[i] = 0
      /\ sweep.now >= sessions[i].created + sessions[i].days
      /\ \A j, k \in sweep.marked : j = k
  BY <1>2, SweepTyped DEF Inv, ClosedInv, SweepInv
<1>4. /\ sweep' \in Sweep /\ sweep'.on = sweep.on /\ sweep'.now = sweep.now
      /\ sweep'.todo = sweep.todo /\ sweep'.marked = {}
  BY <1>2, <1>3 DEF Sweep
<1>5. /\ expiredAudit' \in [SessionIds -> Nat] /\ expiredAudit'[i] \in {0, 1}
      /\ \A j \in SessionIds : j # i => expiredAudit'[j] = expiredAudit[j]
  <2>1. expiredAudit \in [SessionIds -> Nat]
    BY DEF Inv, SessionInv, SessionTypes
  <2> QED
    BY <1>1, <1>3, <2>1
<1>6. PICK r : /\ SessionRewritten(i, r)
               /\ r.state = sessions[i].state
               /\ r.created = sessions[i].created
               /\ r.days = sessions[i].days
               /\ r.citations = <<>> /\ r.docs = <<>>
  BY <1>2, <1>3, ClearRewrites DEF Inv
<1>7. SessionInv'
  <2>1. day' \in 0..LastDay
    BY <1>2 DEF Inv, SessionInv, SessionTypes
  <2> QED
    BY <1>2, <1>4, <1>5, <1>6, <2>1, NoCallKeepsInv DEF Inv
<1>8. /\ DOMAIN sessions' = DOMAIN sessions /\ sessions'[i] = r
      /\ \A j \in DOMAIN sessions : j # i => sessions'[j] = sessions[j]
  BY <1>6, Rewritten DEF Inv
<1>9. SweepInv'
  BY <1>2, <1>3, <1>4, <1>8 DEF SweepInv
<1>10. AuditInv'
  <2>1. ASSUME NEW j \in SessionIds
        PROVE  \/ expiredAudit'[j] = 0
               \/ /\ expiredAudit'[j] = 1 /\ j \in DOMAIN sessions'
                  /\ sessions'[j].state # "active"
                  /\ day' >= sessions'[j].created + sessions'[j].days
    <3>1. CASE j # i
      BY <1>2, <1>5, <1>8, <3>1 DEF Inv, ClosedInv, AuditInv
    <3>2. CASE j = i
      <4>1. /\ day \in Nat /\ sessions[i].created \in Nat
            /\ sessions[i].days \in Nat
        BY <1>3, SessionTyped DEF Inv, SessionInv, SessionTypes
      <4>2. day >= sessions[i].created + sessions[i].days
        BY <1>3, <4>1
      <4> QED
        BY <1>2, <1>3, <1>5, <1>6, <1>8, <3>2, <4>2
    <3> QED
      BY <3>1, <3>2
  <2> QED
    BY <2>1 DEF AuditInv
<1>11. CloseInv'
  <2>1. WellClosed(i)'
    BY <1>6, <1>8 DEF WellClosed
  <2>2. \A j : j # i /\ BeingClosed(j) => BeingClosed(j)'
    BY <1>2, <1>3 DEF BeingClosed
  <2> QED
    BY <1>2, <1>8, <2>1, <2>2, CloseKept DEF Inv, ClosedInv
<1> QED
  BY <1>7, <1>9, <1>10, <1>11 DEF Inv, ClosedInv

LEMMA EndSweepKeeps ==
    ASSUME Inv, EndSweep
    PROVE  Inv'
<1>1. /\ sweep.marked = {} /\ sweep' = NoSweep
      /\ UNCHANGED <<sessions, sessionCall, expiredAudit, lateWrites, day>>
  BY DEF EndSweep
<1>2. SessionInv'
  <2>1. day' \in 0..LastDay /\ expiredAudit' \in [SessionIds -> Nat]
    BY <1>1 DEF Inv, SessionInv, SessionTypes
  <2> QED
    BY <1>1, <2>1, NoCallKeepsInv DEF Inv
<1>3. ~sweep'.on
  BY <1>1 DEF NoSweep
<1>4. SweepInv'
  BY <1>3 DEF SweepInv
<1>5. AuditInv'
  BY <1>1 DEF AuditInv, Inv, ClosedInv
<1>6. CloseInv'
  <2>1. \A j : BeingClosed(j) => BeingClosed(j)'
    BY <1>1 DEF BeingClosed
  <2> QED
    BY <1>1, <2>1, CloseKept DEF Inv, ClosedInv
<1> QED
  BY <1>2, <1>4, <1>5, <1>6 DEF Inv, ClosedInv

LEMMA DayKeeps ==
    ASSUME Inv, DayPasses
    PROVE  Inv'
<1>1. /\ day < LastDay /\ day' = day + 1
      /\ UNCHANGED <<sessions, sessionCall, sweep, expiredAudit, lateWrites>>
  BY DEF DayPasses
<1>2. SessionInv'
  <2>1. /\ day' \in 0..LastDay /\ expiredAudit' \in [SessionIds -> Nat]
        /\ sweep' \in {NoSweep} \cup Sweep
    BY <1>1 DEF Inv, SessionInv, SessionTypes
  <2> QED
    BY <1>1, <2>1, NoCallKeepsInv DEF Inv
<1>3. SweepInv' /\ AuditInv'
  BY <1>1, SweepAndAuditKept DEF Inv, ClosedInv, StayClosed
<1>4. CloseInv'
  <2>1. \A j : BeingClosed(j) => BeingClosed(j)'
    BY <1>1 DEF BeingClosed
  <2> QED
    BY <1>1, <2>1, CloseKept DEF Inv, ClosedInv
<1> QED
  BY <1>2, <1>3, <1>4 DEF Inv, ClosedInv

-----------------------------------------------------------------------------
(* The theorems.                                                           *)

LEMMA InvInit == SessionInit => Inv
<1> SUFFICES ASSUME SessionInit PROVE Inv
  OBVIOUS
<1>1. SessionInv
  BY SessionInvInit
<1>2. SweepInv
  BY DEF SessionInit, NoSweep, SweepInv
<1>3. AuditInv
  BY DEF SessionInit, AuditInv
<1>4. CloseInv
  <2>1. DOMAIN sessions = {}
    BY EmptySeq DEF SessionInit
  <2> QED
    BY <2>1 DEF CloseInv
<1> QED
  BY <1>1, <1>2, <1>3, <1>4 DEF Inv, ClosedInv

LEMMA InvStep == Inv /\ [SessionNext]_sessionVars => Inv'
<1> SUFFICES ASSUME Inv, [SessionNext]_sessionVars PROVE Inv'
  OBVIOUS
<1>1. CASE \E t \in SessionTenants, days \in RetentionAsked : CreateSession(t, days)
  BY <1>1, CreateKeeps
<1>2. ASSUME NEW c \in SessionCallers,
             \/ \E op \in {"get", "add", "delete"}, i \in SessionIds,
                   t \in SessionTenants : LookupSession(c, op, i, t)
             \/ GetMemory(c)
             \/ AnswerRead(c)
             \/ \E x \in SessionItems : AddCitation(c, x)
             \/ \E x \in SessionItems : RemoveDocId(c, x)
             \/ AppendDocId(c)
             \/ MarkDeleted(c)
             \/ ClearDeleted(c)
      PROVE  Inv'
  BY <1>2, LookupKeeps, GetKeeps, AnswerKeeps, AddCitationKeeps,
     RemoveDocIdKeeps, AppendDocIdKeeps, MarkDeletedKeeps, ClearDeletedKeeps
<1>3. CASE StartSweep
  BY <1>3, StartSweepKeeps
<1>4. CASE \E i \in SessionIds : SweepMarks(i)
  BY <1>4, SweepExpires, SweepPasses
<1>5. CASE \E i \in SessionIds : SweepClears(i)
  BY <1>5, SweepClearsKeeps
<1>6. CASE EndSweep
  BY <1>6, EndSweepKeeps
<1>7. CASE DayPasses
  BY <1>7, DayKeeps
<1>8. CASE UNCHANGED sessionVars
  <2>1. UNCHANGED <<sessions, sessionCall, sweep, expiredAudit, lateWrites, day>>
    BY <1>8 DEF sessionVars
  <2>2. SessionInv'
    BY <2>1, NoCallKeepsInv DEF Inv, SessionInv, SessionTypes
  <2>3. ClosedInv'
    <3>1. SweepInv' /\ AuditInv'
      BY <2>1, SweepAndAuditKept DEF Inv, ClosedInv, StayClosed
    <3>2. \A j : BeingClosed(j) => BeingClosed(j)'
      BY <2>1 DEF BeingClosed
    <3>3. CloseInv'
      BY <2>1, <3>2, CloseKept DEF Inv, ClosedInv
    <3> QED
      BY <3>1, <3>3 DEF ClosedInv
  <2> QED
    BY <2>2, <2>3 DEF Inv
<1> QED
  BY <1>1, <1>2, <1>3, <1>4, <1>5, <1>6, <1>7, <1>8 DEF SessionNext

\* The inductive invariant holds in every behaviour of the session service.
THEOREM SessionInvCorrect == SessionSpec => []Inv
  BY InvInit, InvStep, PTL DEF SessionSpec

\* The store's types and limits: no deque outgrows its maximum, and no session
\* changes its tenant for one that does not exist.
THEOREM SessionTypeCorrect == SessionSpec => []SessionTypeOK
<1>1. Inv => SessionTypeOK
  <2> SUFFICES ASSUME Inv PROVE SessionTypeOK
    OBVIOUS
  <2>1. ASSUME NEW i \in DOMAIN sessions
        PROVE  /\ sessions[i].tenant \in SessionTenants
               /\ sessions[i].state \in {"active", "expired", "deleted"}
               /\ Len(sessions[i].citations) <= MaxCitations
               /\ Len(sessions[i].docs) <= MaxDocIds
    <3>1. sessions[i] \in Session /\ Proper(sessions[i])
      BY SessionTyped DEF Inv, SessionInv
    <3> QED
      BY <3>1 DEF Session, Proper
  <2>2. ASSUME NEW c \in SessionCallers
        PROVE  sessionCall[c].op \in
                 {"none", "get", "got", "add", "addDocs", "append", "delete", "clear"}
    <3>1. sessionCall[c] \in Call
      BY DEF Inv, SessionInv, SessionTypes
    <3> QED
      BY <3>1 DEF Call, NoCall, HoldingOps
  <2> QED
    BY <2>1, <2>2 DEF SessionTypeOK, Inv, SessionInv, SessionTypes
<1> QED
  BY <1>1, SessionInvCorrect, PTL

\* Tenant isolation: however the calls of any number of threads interleave
\* between the check of a session and its use, a session holds, and a reader is
\* handed, only what calls of the session's own tenant have added.
THEOREM SessionIsolationCorrect == SessionSpec => []SessionIsolation
<1>1. Inv => SessionIsolation
  <2> SUFFICES ASSUME Inv PROVE SessionIsolation
    OBVIOUS
  <2>1. ASSUME NEW i \in DOMAIN sessions
        PROVE  \A x \in Memory(sessions[i]) : x.by = sessions[i].tenant
    BY DEF Inv, SessionInv, Proper
  <2>2. \A c \in SessionCallers : OwnAnswer(sessionCall[c])
    BY DEF Inv, SessionInv
  <2> QED
    BY <2>1, <2>2 DEF SessionIsolation, Memory, OwnAnswer
<1> QED
  BY <1>1, SessionInvCorrect, PTL

\* Expiry: at most one session_expired event for a session, never before its
\* retention is over; and a closed session nobody is at work on holds memory
\* only if a writer that had checked it earlier wrote after the close.
THEOREM SessionClosedOnceCorrect == SessionSpec => []SessionClosedOnce
<1>1. Inv => SessionClosedOnce
  <2> SUFFICES ASSUME Inv, NEW i \in DOMAIN sessions
               PROVE  /\ expiredAudit[i] <= 1
                      /\ expiredAudit[i] = 1 =>
                            day >= sessions[i].created + sessions[i].days
                      /\ WellClosed(i)
    BY DEF SessionClosedOnce, WellClosed, BeingClosed
  <2>1. i \in SessionIds
    BY SessionTyped DEF Inv
  <2>2. \/ expiredAudit[i] = 0
        \/ /\ expiredAudit[i] = 1
           /\ day >= sessions[i].created + sessions[i].days
    BY <2>1 DEF Inv, ClosedInv, AuditInv
  <2>3. WellClosed(i)
    BY DEF Inv, ClosedInv, CloseInv
  <2> QED
    BY <2>2, <2>3
<1> QED
  BY <1>1, SessionInvCorrect, PTL

=============================================================================
