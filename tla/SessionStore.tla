---------------------------- MODULE SessionStore ----------------------------
(* The research sessions of the tenants (backend/session_store): a session *)
(* is created with a retention, remembers the last citations and documents *)
(* of its tenant, and is closed by an explicit delete or by the expiry     *)
(* sweep.  The service guards its dictionary with a lock and nothing else, *)
(* so a call checks a session, lets go of the lock and uses it afterwards; *)
(* the sweep runs under the lock in a thread of its own.                   *)
EXTENDS Integers, Sequences, SequencesExt, FiniteSets

CONSTANTS
    SessionCallers,     \* threads calling the service
    SessionTenants,
    SessionItems,       \* what may be remembered: citations and documents
    RetentionAsked,     \* the retention_days a caller may ask for
    MinRetention, MaxRetention,
    MaxCitations, MaxDocIds,
    MaxSessions,        \* bound: sessions created
    LastDay             \* bound: days that pass

ASSUME SessionAssumption ==
    /\ MinRetention \in Nat \ {0} /\ MaxRetention \in Nat
    /\ MaxCitations \in Nat \ {0} /\ MaxDocIds \in Nat \ {0}
    /\ MaxSessions \in Nat /\ LastDay \in Nat

VARIABLES
    sessions,       \* the dictionary, a session's id being its position
    sessionCall,    \* [SessionCallers -> what the call has left to do]
    sweep,          \* the sweep: the day it took as now, and what it has left
    expiredAudit,   \* [ids -> the session_expired events appended]
    lateWrites,     \* ids written to after they were closed (history)
    day

sessionVars == <<sessions, sessionCall, sweep, expiredAudit, lateWrites, day>>

SessionIds == 1..MaxSessions

NoCall == [op |-> "none"]

NoSweep == [on |-> FALSE]

PushUnbounded(q, x, n) == Append(q, x)

\* SessionMemory's deques: the oldest entry leaves when one is full.
Push(q, x, n) == LET r == Append(q, x) IN
    IF Len(r) > n THEN Tail(r) ELSE r

IsExpired(s, now) == s.state # "active" \/ now >= s.created + s.days

AccessibleToAnyone(i, t) == i \in DOMAIN sessions /\ ~IsExpired(sessions[i], day)

\* _get_session: missing, foreign, closed and expired all look alike.
Accessible(i, t) ==
    /\ i \in DOMAIN sessions
    /\ sessions[i].tenant = t
    /\ ~IsExpired(sessions[i], day)

SessionInit ==
    /\ sessions = <<>>
    /\ sessionCall = [c \in SessionCallers |-> NoCall]
    /\ sweep = NoSweep
    /\ expiredAudit = [i \in SessionIds |-> 0]
    /\ lateWrites = {}
    /\ day = 0

\* create: refused when the retention is out of range.
CreateSession(t, days) ==
    /\ Len(sessions) < MaxSessions
    /\ days \in MinRetention..MaxRetention
    /\ sessions' = Append(sessions,
          [tenant |-> t, created |-> day, days |-> days, state |-> "active",
           citations |-> <<>>, docs |-> <<>>])
    /\ UNCHANGED <<sessionCall, sweep, expiredAudit, lateWrites, day>>

\* The lookup every call starts with; a call that is refused does nothing more.
LookupSession(c, op, i, t) ==
    /\ sessionCall[c].op = "none"
    /\ Accessible(i, t)
    /\ sessionCall' = [sessionCall EXCEPT
          ![c] = [op |-> op, id |-> i, tenant |-> t]]
    /\ UNCHANGED <<sessions, sweep, expiredAudit, lateWrites, day>>

\* get_memory: the context is copied from the deques after the check.
GetMemory(c) ==
    /\ sessionCall[c].op = "get"
    /\ LET s == sessions[sessionCall[c].id] IN
           sessionCall' = [sessionCall EXCEPT ![c] =
              [op |-> "got", tenant |-> @.tenant,
               seen |-> ToSet(s.citations) \cup ToSet(s.docs)]]
    /\ UNCHANGED <<sessions, sweep, expiredAudit, lateWrites, day>>

AnswerRead(c) ==
    /\ sessionCall[c].op = "got"
    /\ sessionCall' = [sessionCall EXCEPT ![c] = NoCall]
    /\ UNCHANGED <<sessions, sweep, expiredAudit, lateWrites, day>>

Noted(i) == IF sessions[i].state = "active" THEN lateWrites
                                            ELSE lateWrites \cup {i}

\* add_to_memory, first half: the citations, the next half still to come.
AddCitation(c, x) ==
    /\ sessionCall[c].op = "add"
    /\ LET i == sessionCall[c].id IN
        /\ sessions' = [sessions EXCEPT ![i].citations =
              Push(@, [by |-> sessionCall[c].tenant, item |-> x], MaxCitations)]
        /\ lateWrites' = Noted(i)
    /\ sessionCall' = [sessionCall EXCEPT ![c].op = "addDocs"]
    /\ UNCHANGED <<sweep, expiredAudit, day>>

\* add_to_memory, second half: add_doc_id takes the document out if it is
\* there, and puts it in the most recent place.
RemoveDocId(c, x) ==
    /\ sessionCall[c].op = "addDocs"
    /\ LET i == sessionCall[c].id
           mine == [by |-> sessionCall[c].tenant, item |-> x]
       IN sessions' = [sessions EXCEPT ![i].docs = RemoveFirst(@, mine)]
    /\ sessionCall' = [sessionCall EXCEPT ![c] =
          [op |-> "append", id |-> @.id, tenant |-> @.tenant, item |-> x]]
    /\ UNCHANGED <<sweep, expiredAudit, lateWrites, day>>

AppendDocId(c) ==
    /\ sessionCall[c].op = "append"
    /\ LET i == sessionCall[c].id
           mine == [by |-> sessionCall[c].tenant, item |-> sessionCall[c].item]
       IN /\ sessions' = [sessions EXCEPT ![i].docs = Push(@, mine, MaxDocIds)]
          /\ lateWrites' = Noted(i)
    /\ sessionCall' = [sessionCall EXCEPT ![c] = NoCall]
    /\ UNCHANGED <<sweep, expiredAudit, day>>

\* delete_session, without the lock: the state first, whatever it is by now.
MarkDeleted(c) ==
    /\ sessionCall[c].op = "delete"
    /\ sessions' = [sessions EXCEPT ![sessionCall[c].id].state = "deleted"]
    /\ sessionCall' = [sessionCall EXCEPT ![c].op = "clear"]
    /\ UNCHANGED <<sweep, expiredAudit, lateWrites, day>>

Cleared(i) == [sessions EXCEPT ![i].citations = <<>>, ![i].docs = <<>>]

ClearDeleted(c) ==
    /\ sessionCall[c].op = "clear"
    /\ sessions' = Cleared(sessionCall[c].id)
    /\ sessionCall' = [sessionCall EXCEPT ![c] = NoCall]
    /\ UNCHANGED <<sweep, expiredAudit, lateWrites, day>>

\* expire_sweep takes now before the lock, then walks the whole dictionary.
StartSweep ==
    /\ ~sweep.on
    /\ sweep' = [on |-> TRUE, now |-> day, todo |-> DOMAIN sessions,
                 marked |-> {}]
    /\ UNCHANGED <<sessions, sessionCall, expiredAudit, lateWrites, day>>

SweepTakesAgain(s) == IsExpired(s, sweep.now)

\* Which sessions the sweep expires.
SweepTakes(s) == s.state = "active" /\ IsExpired(s, sweep.now)

SweepMarks(i) ==
    /\ sweep.on /\ sweep.marked = {} /\ i \in sweep.todo
    /\ IF SweepTakes(sessions[i])
       THEN /\ sessions' = [sessions EXCEPT ![i].state = "expired"]
            /\ sweep' = [sweep EXCEPT !.todo = @ \ {i}, !.marked = {i}]
       ELSE /\ sweep' = [sweep EXCEPT !.todo = @ \ {i}]
            /\ UNCHANGED sessions
    /\ UNCHANGED <<sessionCall, expiredAudit, lateWrites, day>>

\* The memory is cleared and the audit event appended; an append that fails
\* is swallowed.
SweepClears(i) ==
    /\ sweep.on /\ i \in sweep.marked
    /\ sessions' = Cleared(i)
    /\ \E appended \in {0, 1} :
           expiredAudit' = [expiredAudit EXCEPT ![i] = @ + appended]
    /\ sweep' = [sweep EXCEPT !.marked = {}]
    /\ UNCHANGED <<sessionCall, lateWrites, day>>

EndSweep ==
    /\ sweep.on /\ sweep.todo = {} /\ sweep.marked = {}
    /\ sweep' = NoSweep
    /\ UNCHANGED <<sessions, sessionCall, expiredAudit, lateWrites, day>>

DayPasses ==
    /\ day < LastDay
    /\ day' = day + 1
    /\ UNCHANGED <<sessions, sessionCall, sweep, expiredAudit, lateWrites>>

SessionNext ==
    \/ \E t \in SessionTenants, days \in RetentionAsked : CreateSession(t, days)
    \/ \E c \in SessionCallers :
          \/ \E op \in {"get", "add", "delete"}, i \in SessionIds,
                t \in SessionTenants : LookupSession(c, op, i, t)
          \/ GetMemory(c)
          \/ AnswerRead(c)
          \/ \E x \in SessionItems : AddCitation(c, x)
          \/ \E x \in SessionItems : RemoveDocId(c, x)
          \/ AppendDocId(c)
          \/ MarkDeleted(c)
          \/ ClearDeleted(c)
    \/ StartSweep
    \/ \E i \in SessionIds : SweepMarks(i)
    \/ \E i \in SessionIds : SweepClears(i)
    \/ EndSweep
    \/ DayPasses

SessionSpec == SessionInit /\ [][SessionNext]_sessionVars

-----------------------------------------------------------------------------

SessionTypeOK ==
    /\ \A i \in DOMAIN sessions :
        /\ sessions[i].tenant \in SessionTenants
        /\ sessions[i].state \in {"active", "expired", "deleted"}
        /\ Len(sessions[i].citations) <= MaxCitations
        /\ Len(sessions[i].docs) <= MaxDocIds
    /\ Len(sessions) <= MaxSessions
    /\ \A c \in SessionCallers : sessionCall[c].op \in
          {"none", "get", "got", "add", "addDocs", "append", "delete", "clear"}
    /\ expiredAudit \in [SessionIds -> Nat]
    /\ day \in 0..LastDay

\* Tenant isolation (R8.5): whatever is interleaved, a session holds, and a
\* reader is handed, only what calls of the session's own tenant have added.
SessionIsolation ==
    /\ \A i \in DOMAIN sessions :
           \A x \in ToSet(sessions[i].citations) \cup ToSet(sessions[i].docs) :
               x.by = sessions[i].tenant
    /\ \A c \in SessionCallers : sessionCall[c].op = "got" =>
           \A x \in sessionCall[c].seen : x.by = sessionCall[c].tenant

\* Expiry (R8.4), with a sweep racing deletes and other sweeps' leavings: the
\* session_expired event is appended at most once for a session, never before
\* its retention is over; and a closed session nobody is at work on holds
\* memory only if a writer that had checked it earlier wrote after the close.
SessionClosedOnce ==
    \A i \in DOMAIN sessions :
        /\ expiredAudit[i] <= 1
        /\ expiredAudit[i] = 1 => day >= sessions[i].created + sessions[i].days
        /\ \/ sessions[i].state = "active"
           \/ i \in lateWrites
           \/ sweep.on /\ i \in sweep.marked
           \/ \E c \in SessionCallers :
                  sessionCall[c].op = "clear" /\ sessionCall[c].id = i
           \/ sessions[i].citations = <<>> /\ sessions[i].docs = <<>>

\* The next holder of the lock: nothing is left half done.
SessionQuiet ==
    /\ \A c \in SessionCallers : sessionCall[c].op = "none"
    /\ ~sweep.on
=============================================================================
