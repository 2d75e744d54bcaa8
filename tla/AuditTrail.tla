----------------------------- MODULE AuditTrail -----------------------------
(* The audit log and what leans on it (backend/audit_log): entries are     *)
(* appended under a timeout, a privileged action runs only after its entry, *)
(* retention cleanup and tenant deletion work on the same append-only table *)
(* in statements that are in no transaction.  The gateway's role is the one *)
(* docker-compose creates, which no row-level policy binds, so it is the   *)
(* trigger that keeps the table append-only.                               *)
EXTENDS Integers, Sequences, SequencesExt, FiniteSets

CONSTANTS
    AuditTenants,
    TenantTables,       \* the tables _delete_tenant_data empties, in order
    MaxAudit,           \* bound: entries in audit_events
    MaxDeletions,       \* bound: calls of the deletion service
    MaxLateRows,        \* bound: tenants' rows there are that were written late
    LastHour            \* bound on time

ASSUME AuditAssumption ==
    /\ TenantTables \in Seq(STRING)
    /\ MaxAudit \in Nat /\ MaxDeletions \in Nat /\ MaxLateRows \in Nat
    /\ LastHour \in Nat

VARIABLES
    auditRows,      \* audit_events, in the order of the commits
    deletionState,  \* [AuditTenants -> deletion_state of the tenants row]
    holdUntil,      \* [AuditTenants -> hour the legal hold ends, 0 for none]
    filled,         \* [AuditTenants -> [Tables -> the tenant's rows, each told by
                    \* the number of deletion calls made before it was written]]
    markedBy,       \* [AuditTenants -> number of the call that marked it deleted]
    guarded,        \* the guarded call in progress and the tenants it served
    deletion,       \* the deletion call in progress
    deletions,      \* deletion calls made so far
    hour

auditVars == <<auditRows, deletionState, holdUntil, filled, markedBy, guarded,
               deletion, deletions, hour>>

Entry(t, action) == [tenant |-> t, action |-> action]

Tables == ToSet(TenantTables)

\* requesting_tenant_id = None.
NotSaid == "not said"

Idle == [at |-> "idle"]

Rows(t) == {i \in DOMAIN auditRows : auditRows[i].tenant = t}

\* _check_legal_hold: strictly in the future.
OnHold(t) == holdUntil[t] > hour

AuditInit ==
    /\ auditRows = <<>>
    /\ deletionState = [t \in AuditTenants |-> "none"]
    /\ holdUntil = [t \in AuditTenants |-> 0]
    /\ filled = [t \in AuditTenants |-> [b \in Tables |-> {0}]]
    /\ markedBy = [t \in AuditTenants |-> 0]
    /\ guarded = [call |-> Idle, served |-> {}]
    /\ deletion = Idle
    /\ deletions = 0
    /\ hour = 0

\* emit and append: the INSERT commits and the caller hears of it; or nothing
\* is stored and the call raises; or the timeout strikes after the commit and
\* the call raises although the entry is there.
Emit(entry, told) ==
    \/ told /\ auditRows' = Append(auditRows, entry)
    \/ ~told /\ UNCHANGED auditRows
    \/ ~told /\ auditRows' = Append(auditRows, entry)

GuardedEmitRegardless(t) ==
    /\ guarded.call = Idle
    /\ t \notin guarded.served
    /\ Len(auditRows) < MaxAudit
    /\ \E told \in BOOLEAN : Emit(Entry(t, "privileged"), told)
    /\ guarded' = [guarded EXCEPT !.call = [at |-> "body", tenant |-> t]]
    /\ UNCHANGED <<deletionState, holdUntil, filled, markedBy, deletion, deletions, hour>>

\* require_audit: the body has not run yet when the entry is appended, and
\* runs only if that returned normally.
GuardedEmit(t) ==
    /\ guarded.call = Idle
    /\ t \notin guarded.served
    /\ Len(auditRows) < MaxAudit
    /\ \E told \in BOOLEAN :
          /\ Emit(Entry(t, "privileged"), told)
          /\ guarded' = [guarded EXCEPT !.call =
                IF told THEN [at |-> "body", tenant |-> t] ELSE Idle]
    /\ UNCHANGED <<deletionState, holdUntil, filled, markedBy, deletion, deletions, hour>>

GuardedBody ==
    /\ guarded.call.at = "body"
    /\ guarded' = [call |-> Idle, served |-> guarded.served \cup {guarded.call.tenant}]
    /\ UNCHANGED <<auditRows, deletionState, holdUntil, filled, markedBy, deletion,
                   deletions, hour>>

\* request_deletion: the cross-tenant check, then the entry.
RequestDeletion(t, by) ==
    /\ deletion = Idle /\ deletions < MaxDeletions /\ Len(auditRows) < MaxAudit
    /\ by \in {t, NotSaid}
    /\ \E told \in BOOLEAN :
          /\ Emit(Entry(t, "deletion_requested"), told)
          /\ deletion' = IF told THEN [at |-> "pend", tenant |-> t] ELSE Idle
    /\ deletions' = deletions + 1
    /\ UNCHANGED <<deletionState, holdUntil, filled, markedBy, guarded, hour>>

\* The UPDATE that follows; it may fail with the entry written.
MarkPending ==
    /\ deletion.at = "pend"
    /\ \/ deletionState' = [deletionState EXCEPT ![deletion.tenant] = "pending"]
       \/ UNCHANGED deletionState
    /\ deletion' = Idle
    /\ UNCHANGED <<auditRows, holdUntil, filled, markedBy, guarded, deletions, hour>>

Requested(t) == \E i \in Rows(t) : auditRows[i].action = "deletion_requested"

\* execute_deletion: the hold is read once; nothing asks whether a deletion
\* was ever requested.
ExecuteDeletion(t, by) ==
    /\ deletion = Idle /\ deletions < MaxDeletions
    /\ by \in {t, NotSaid}
    /\ deletion' = [at |-> "tables", tenant |-> t, held |-> OnHold(t),
                    left |-> TenantTables, counted |-> 0, preserved |-> {},
                    requested |-> Requested(t)]
    /\ deletions' = deletions + 1
    /\ UNCHANGED <<auditRows, deletionState, holdUntil, filled, markedBy, guarded, hour>>

\* One DELETE per table, each its own transaction.
DeleteTable ==
    /\ deletion.at = "tables" /\ deletion.left # <<>>
    /\ filled' = [filled EXCEPT ![deletion.tenant][Head(deletion.left)] = {}]
    /\ deletion' = [deletion EXCEPT !.left = Tail(@)]
    /\ UNCHANGED <<auditRows, deletionState, holdUntil, markedBy, guarded, deletions,
                   hour>>

\* Metering, sessions, jobs: nothing stops a tenant's rows from being written
\* during its deletion.  (One written after a call is, to the next call, like
\* one written during it into a table it had emptied.)
LateRows == {r \in AuditTenants \X Tables \X (1..MaxDeletions) :
                r[3] \in filled[r[1]][r[2]]}

TenantWrites(t, b) ==
    /\ deletion.at \in {"tables", "list", "mark"} /\ deletion.tenant = t
    /\ deletions \notin filled[t][b]
    /\ Cardinality(LateRows) < MaxLateRows
    /\ filled' = [filled EXCEPT ![t][b] = @ \cup {deletions}]
    /\ UNCHANGED <<auditRows, deletionState, holdUntil, markedBy, guarded, deletion,
                   deletions, hour>>

\* Under a hold the entries are counted, and by a second query listed as
\* preserved.
CountEntries ==
    /\ deletion.at = "tables" /\ deletion.left = <<>> /\ deletion.held
    /\ deletion' = [deletion EXCEPT !.at = "list",
                                    !.counted = Cardinality(Rows(deletion.tenant))]
    /\ UNCHANGED <<auditRows, deletionState, holdUntil, filled, markedBy, guarded,
                   deletions, hour>>

PreserveEntries ==
    /\ deletion.at = "list"
    /\ deletion' = [deletion EXCEPT !.at = "mark", !.preserved = Rows(deletion.tenant)]
    /\ UNCHANGED <<auditRows, deletionState, holdUntil, filled, markedBy, guarded,
                   deletions, hour>>

AuditDeletePermitted(rows) ==
    auditRows' = [i \in 1..(Len(auditRows) - Cardinality(rows)) |->
        auditRows[CHOOSE j \in DOMAIN auditRows \ rows :
                      Cardinality((1..j) \ rows) = i]]

\* DELETE FROM audit_events: the trigger raises for every row it meets, so a
\* statement that finds a row fails as a whole and changes nothing.
AuditDelete(rows) ==
    /\ rows = {}
    /\ UNCHANGED auditRows

\* Without a hold the entries are to be deleted as well.
DeleteEntries ==
    /\ deletion.at = "tables" /\ deletion.left = <<>> /\ ~deletion.held
    /\ AuditDelete(Rows(deletion.tenant))
    /\ deletion' = [deletion EXCEPT !.at = "mark"]
    /\ UNCHANGED <<deletionState, holdUntil, filled, markedBy, guarded, deletions, hour>>

MarkDeletedTenant ==
    /\ deletion.at = "mark"
    /\ deletionState' = [deletionState EXCEPT ![deletion.tenant] = "deleted"]
    /\ markedBy' = [markedBy EXCEPT ![deletion.tenant] = deletions]
    /\ deletion' = [deletion EXCEPT !.at = "complete"]
    /\ UNCHANGED <<auditRows, holdUntil, filled, guarded, deletions, hour>>

\* The last entry; when it cannot be appended the call raises, with the tenant
\* marked deleted already.
EmitCompleted ==
    /\ deletion.at = "complete" /\ Len(auditRows) < MaxAudit
    /\ \E told \in BOOLEAN :
           Emit(Entry(deletion.tenant, "deletion_completed"), told)
    /\ deletion' = Idle
    /\ UNCHANGED <<deletionState, holdUntil, filled, markedBy, guarded, deletions, hour>>

DeletionRaisesSwallowed ==
    /\ deletion.at = "tables"
    /\ deletion' = [deletion EXCEPT !.at = "mark"]
    /\ UNCHANGED <<auditRows, deletionState, holdUntil, filled, markedBy, guarded,
                   deletions, hour>>

\* A statement that raises, the refused DELETE among them, ends the call where
\* it is: what was done before stays done.
DeletionRaises ==
    /\ deletion.at \in {"tables", "list", "mark"}
    /\ deletion' = Idle
    /\ UNCHANGED <<auditRows, deletionState, holdUntil, filled, markedBy, guarded,
                   deletions, hour>>

\* cleanup_expired: the entries older than the retention, one statement.
CleanupExpired ==
    /\ \E old \in SUBSET DOMAIN auditRows : AuditDelete(old)
    /\ UNCHANGED <<deletionState, holdUntil, filled, markedBy, guarded, deletion,
                   deletions, hour>>

\* Outside the service: a hold is placed on a tenant, time passes.
PlaceHold(t) ==
    /\ holdUntil[t] = 0 /\ hour < LastHour
    /\ holdUntil' = [holdUntil EXCEPT ![t] = hour + 1]
    /\ UNCHANGED <<auditRows, deletionState, filled, markedBy, guarded, deletion,
                   deletions, hour>>

HourPasses ==
    /\ hour < LastHour
    /\ hour' = hour + 1
    /\ UNCHANGED <<auditRows, deletionState, holdUntil, filled, markedBy, guarded,
                   deletion, deletions>>

AuditNext ==
    \/ \E t \in AuditTenants : GuardedEmit(t)
    \/ GuardedBody
    \/ \E t \in AuditTenants, by \in AuditTenants \cup {NotSaid} : RequestDeletion(t, by)
    \/ MarkPending
    \/ \E t \in AuditTenants, by \in AuditTenants \cup {NotSaid} : ExecuteDeletion(t, by)
    \/ DeleteTable
    \/ \E t \in AuditTenants, b \in Tables : TenantWrites(t, b)
    \/ CountEntries
    \/ PreserveEntries
    \/ DeleteEntries
    \/ MarkDeletedTenant
    \/ EmitCompleted
    \/ DeletionRaises
    \/ CleanupExpired
    \/ \E t \in AuditTenants : PlaceHold(t)
    \/ HourPasses

AuditSpec == AuditInit /\ [][AuditNext]_auditVars

-----------------------------------------------------------------------------

AuditTypeOK ==
    /\ \A i \in DOMAIN auditRows : auditRows[i].tenant \in AuditTenants
    /\ deletionState \in [AuditTenants -> {"none", "pending", "deleted"}]
    /\ holdUntil \in [AuditTenants -> 0..LastHour]
    /\ filled \in [AuditTenants -> [Tables -> SUBSET (0..MaxDeletions)]]
    /\ markedBy \in [AuditTenants -> 0..MaxDeletions]
    /\ guarded.served \subseteq AuditTenants
    /\ deletion.at \in {"idle", "pend", "tables", "list", "mark", "complete"}

\* Append-only (R15.4): no step of anyone, neither the retention cleanup nor a
\* tenant's deletion, removes or changes an entry or puts one before another.
AuditAppendOnly == [][IsPrefix(auditRows, auditRows')]_auditVars

\* R15.6, with an append that may fail, or time out after it committed: no
\* guarded body has run without its entry, and a deletion is pending only if
\* its request is on record.
PrivilegedAudited ==
    /\ \A t \in guarded.served :
           \E i \in Rows(t) : auditRows[i].action = "privileged"
    /\ \A t \in AuditTenants : deletionState[t] = "pending" => Requested(t)

\* What the deletion of a tenant comes to, whichever statement of which call
\* has failed and whatever is written meanwhile.  A tenant marked deleted has
\* no row in its tables from before the call that marked it; the entries listed
\* as preserved exist and are at least those counted; and a deletion that was
\* requested, as it should be, gets past the audit entries only under a hold,
\* since its own request is an entry that cannot be deleted.
DeletionAccounted ==
    /\ \A t \in AuditTenants : deletionState[t] = "deleted" =>
           \A b \in Tables : \A n \in filled[t][b] : n >= markedBy[t]
    /\ deletion.at \in {"mark", "complete"} =>
           /\ deletion.preserved \subseteq Rows(deletion.tenant)
           /\ deletion.counted <= Cardinality(deletion.preserved)
           /\ deletion.requested => deletion.held

\* Nothing of the component is half way.
AuditQuiet == guarded.call = Idle /\ deletion = Idle
=============================================================================
