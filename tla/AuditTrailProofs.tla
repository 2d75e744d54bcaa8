-------------------------- MODULE AuditTrailProofs --------------------------
(* What AuditTrail guarantees for every set of tenants and tables, every   *)
(* number of calls and entries, and any length of time.                    *)
EXTENDS AuditTrail, SequenceTheorems, FiniteSetTheorems, TLAPS

USE AuditAssumption DEF AuditAssumption

-----------------------------------------------------------------------------
(* Types.                                                                  *)

Entries == [tenant : AuditTenants,
            action : {"privileged", "deletion_requested", "deletion_completed"}]

GuardedCalls == {Idle} \cup [at : {"body"}, tenant : AuditTenants]

\* A call of the deletion service that has not reached its statements, and one
\* that has.
PendingCalls == [at : {"pend"}, tenant : AuditTenants]

RunningCalls ==
    [at : {"tables", "list", "mark", "complete"}, tenant : AuditTenants,
     held : BOOLEAN, left : Seq(STRING), counted : Nat,
     preserved : SUBSET Nat, requested : BOOLEAN]

Types ==
    /\ auditRows \in Seq(Entries)
    /\ deletionState \in [AuditTenants -> {"none", "pending", "deleted"}]
    /\ holdUntil \in [AuditTenants -> 0..LastHour]
    /\ filled \in [AuditTenants -> [Tables -> SUBSET (0..MaxDeletions)]]
    /\ markedBy \in [AuditTenants -> 0..MaxDeletions]
    /\ guarded \in [call : GuardedCalls, served : SUBSET AuditTenants]
    /\ deletion \in {Idle} \cup PendingCalls \cup RunningCalls
    /\ deletions \in 0..MaxDeletions
    /\ hour \in 0..LastHour

LEMMA EmitAppends ==
    ASSUME NEW e \in Entries, NEW told \in BOOLEAN, Emit(e, told)
    PROVE  auditRows' = auditRows \/ auditRows' = Append(auditRows, e)
  BY DEF Emit

LEMMA RowsFinite ==
    ASSUME auditRows \in Seq(Entries), NEW t
    PROVE  /\ Rows(t) \subseteq 1..Len(auditRows)
           /\ Rows(t) \subseteq Nat
           /\ IsFiniteSet(Rows(t)) /\ Cardinality(Rows(t)) \in Nat
<1>1. DOMAIN auditRows = 1..Len(auditRows) /\ Len(auditRows) \in Nat
  OBVIOUS
<1>2. Rows(t) \subseteq 1..Len(auditRows)
  BY <1>1 DEF Rows
<1>3. IsFiniteSet(1..Len(auditRows))
  BY <1>1, FS_Interval
<1>4. IsFiniteSet(Rows(t))
  BY <1>2, <1>3, FS_Subset
<1>5. Cardinality(Rows(t)) \in Nat
  BY <1>4, FS_CardinalityType
<1> QED
  BY <1>1, <1>2, <1>4, <1>5

LEMMA TypesInit == AuditInit => Types
<1> SUFFICES ASSUME AuditInit PROVE Types
  OBVIOUS
<1>1. auditRows \in Seq(Entries)
  BY DEF AuditInit
<1>2. filled \in [AuditTenants -> [Tables -> SUBSET (0..MaxDeletions)]]
  BY DEF AuditInit
<1>3. guarded \in [call : GuardedCalls, served : SUBSET AuditTenants]
  BY DEF AuditInit, GuardedCalls
<1> QED
  BY <1>1, <1>2, <1>3 DEF AuditInit, Types

\* Nothing but an append ever happens to the entries: not even the statements
\* that are to delete some.
RowsGrow == auditRows' = auditRows \/ \E e \in Entries : auditRows' = Append(auditRows, e)

LEMMA StepAppends == Types /\ [AuditNext]_auditVars => RowsGrow
<1> SUFFICES ASSUME Types, [AuditNext]_auditVars PROVE RowsGrow
  OBVIOUS
<1>1. ASSUME NEW t \in AuditTenants, GuardedEmit(t) PROVE RowsGrow
  <2>1. Entry(t, "privileged") \in Entries
    BY DEF Entry, Entries
  <2> QED
    BY <1>1, <2>1, EmitAppends DEF GuardedEmit, RowsGrow
<1>2. ASSUME NEW t \in AuditTenants, NEW by, RequestDeletion(t, by) PROVE RowsGrow
  <2>1. Entry(t, "deletion_requested") \in Entries
    BY DEF Entry, Entries
  <2> QED
    BY <1>2, <2>1, EmitAppends DEF RequestDeletion, RowsGrow
<1>3. ASSUME EmitCompleted PROVE RowsGrow
  <2>1. deletion.tenant \in AuditTenants
    BY <1>3 DEF EmitCompleted, Types, Idle, PendingCalls, RunningCalls
  <2>2. Entry(deletion.tenant, "deletion_completed") \in Entries
    BY <2>1 DEF Entry, Entries
  <2> QED
    BY <1>3, <2>2, EmitAppends DEF EmitCompleted, RowsGrow
<1>4. ASSUME GuardedBody \/ MarkPending \/ DeleteTable \/ CountEntries
             \/ PreserveEntries \/ MarkDeletedTenant \/ DeletionRaises \/ HourPasses
      PROVE  RowsGrow
  BY <1>4 DEF GuardedBody, MarkPending, DeleteTable, CountEntries, PreserveEntries,
              MarkDeletedTenant, DeletionRaises, HourPasses, RowsGrow
<1>5. ASSUME NEW t \in AuditTenants, NEW by, ExecuteDeletion(t, by) PROVE RowsGrow
  BY <1>5 DEF ExecuteDeletion, RowsGrow
<1>6. ASSUME NEW t \in AuditTenants, NEW b \in Tables, TenantWrites(t, b)
      PROVE  RowsGrow
  BY <1>6 DEF TenantWrites, RowsGrow
<1>7. ASSUME NEW t \in AuditTenants, PlaceHold(t) PROVE RowsGrow
  BY <1>7 DEF PlaceHold, RowsGrow
<1>8. ASSUME DeleteEntries \/ CleanupExpired PROVE RowsGrow
  BY <1>8 DEF DeleteEntries, CleanupExpired, AuditDelete, RowsGrow
<1>9. ASSUME UNCHANGED auditVars PROVE RowsGrow
  BY <1>9 DEF auditVars, RowsGrow
<1> QED
  BY <1>1, <1>2, <1>3, <1>4, <1>5, <1>6, <1>7, <1>8, <1>9 DEF AuditNext

Privileged(t) == \E i \in Rows(t) : auditRows[i].action = "privileged"

\* What an append leaves: every entry in its place, so that a tenant's entries
\* only become more, and a request stays on record.
LEMMA EntriesStay ==
    ASSUME auditRows \in Seq(Entries), RowsGrow
    PROVE  /\ auditRows' \in Seq(Entries)
           /\ IsPrefix(auditRows, auditRows')
           /\ \A i \in DOMAIN auditRows :
                  i \in DOMAIN auditRows' /\ auditRows'[i] = auditRows[i]
           /\ \A t \in AuditTenants : Rows(t) \subseteq Rows(t)'
           /\ \A t \in AuditTenants : Requested(t) => Requested(t)'
           /\ \A t \in AuditTenants : Privileged(t) => Privileged(t)'
<1>1. CASE auditRows' = auditRows
  BY <1>1 DEF IsPrefix, Rows, Requested, Privileged
<1>2. CASE \E e \in Entries : auditRows' = Append(auditRows, e)
  <2>1. PICK e \in Entries : auditRows' = Append(auditRows, e)
    BY <1>2
  <2>2. /\ auditRows' \in Seq(Entries)
        /\ Len(auditRows') = Len(auditRows) + 1
        /\ Len(auditRows) \in Nat
        /\ \A i \in 1..Len(auditRows) : auditRows'[i] = auditRows[i]
    BY <2>1, AppendProperties
  <2>3. DOMAIN auditRows = 1..Len(auditRows) /\ DOMAIN auditRows' = 1..Len(auditRows')
    BY <2>2
  <2>4. \A i \in DOMAIN auditRows :
            i \in DOMAIN auditRows' /\ auditRows'[i] = auditRows[i]
    BY <2>2, <2>3
  <2>5. SubSeq(auditRows, 1, Len(auditRows)) = SubSeq(auditRows', 1, Len(auditRows))
    BY <2>2, <2>3, <2>4
  <2>6. IsPrefix(auditRows, auditRows')
    BY <2>2, <2>5 DEF IsPrefix
  <2>7. \A t \in AuditTenants : Rows(t) \subseteq Rows(t)'
    BY <2>4 DEF Rows
  <2>8. \A t \in AuditTenants : Requested(t) => Requested(t)'
    BY <2>4, <2>7 DEF Requested, Rows
  <2>9. \A t \in AuditTenants : Privileged(t) => Privileged(t)'
    BY <2>4, <2>7 DEF Privileged, Rows
  <2> QED
    BY <2>2, <2>4, <2>6, <2>7, <2>8, <2>9
<1> QED
  BY <1>1, <1>2 DEF RowsGrow

-----------------------------------------------------------------------------

LEMMA TypesStep == Types /\ [AuditNext]_auditVars => Types'
<1> SUFFICES ASSUME Types, [AuditNext]_auditVars PROVE Types'
  OBVIOUS
<1>1. auditRows' \in Seq(Entries)
  BY StepAppends, EntriesStay DEF Types
<1>3. ASSUME NEW t \in AuditTenants, GuardedEmit(t) PROVE Types'
  <2>1. [at |-> "body", tenant |-> t] \in GuardedCalls /\ Idle \in GuardedCalls
    BY DEF GuardedCalls
  <2>2. PICK c \in GuardedCalls : guarded' = [guarded EXCEPT !.call = c]
    BY <1>3, <2>1 DEF GuardedEmit
  <2>3. guarded' \in [call : GuardedCalls, served : SUBSET AuditTenants]
    BY <2>2 DEF Types
  <2> QED
    BY <1>3, <1>1, <2>3 DEF GuardedEmit, Types
<1>4. ASSUME GuardedBody PROVE Types'
  BY <1>4, <1>1 DEF GuardedBody, Types, GuardedCalls, Idle
<1>5. ASSUME NEW t \in AuditTenants, NEW by, RequestDeletion(t, by) PROVE Types'
  <2>1. deletion' \in {Idle} \cup PendingCalls
    BY <1>5 DEF RequestDeletion, PendingCalls
  <2> QED
    BY <1>5, <1>1, <2>1 DEF RequestDeletion, Types
<1>6. ASSUME MarkPending PROVE Types'
  <2>1. deletionState' \in [AuditTenants -> {"none", "pending", "deleted"}]
    BY <1>6 DEF MarkPending, Types
  <2> QED
    BY <1>6, <1>1, <2>1 DEF MarkPending, Types
<1>7. ASSUME NEW t \in AuditTenants, NEW by, ExecuteDeletion(t, by) PROVE Types'
  <2>1. deletion' \in RunningCalls
    BY <1>7 DEF ExecuteDeletion, RunningCalls, OnHold, Requested
  <2> QED
    BY <1>7, <1>1, <2>1 DEF ExecuteDeletion, Types
<1>8. ASSUME DeleteTable PROVE Types'
  <2>1. deletion \in RunningCalls /\ deletion.left # <<>>
    BY <1>8 DEF DeleteTable, Types, Idle, PendingCalls
  <2>2. Tail(deletion.left) \in Seq(STRING)
    BY <2>1 DEF RunningCalls
  <2>3. deletion' \in RunningCalls
    BY <1>8, <2>1, <2>2 DEF DeleteTable, RunningCalls
  <2>4. filled' \in [AuditTenants -> [Tables -> SUBSET (0..MaxDeletions)]]
    BY <1>8 DEF DeleteTable, Types
  <2> QED
    BY <1>8, <1>1, <2>3, <2>4 DEF DeleteTable, Types
<1>9. ASSUME NEW t \in AuditTenants, NEW b \in Tables, TenantWrites(t, b) PROVE Types'
  <2>1. filled' \in [AuditTenants -> [Tables -> SUBSET (0..MaxDeletions)]]
    BY <1>9 DEF TenantWrites, Types
  <2> QED
    BY <1>9, <1>1, <2>1 DEF TenantWrites, Types
<1>10. ASSUME CountEntries PROVE Types'
  <2>1. deletion \in RunningCalls
    BY <1>10 DEF CountEntries, Types, Idle, PendingCalls
  <2>2. Cardinality(Rows(deletion.tenant)) \in Nat
    BY RowsFinite DEF Types
  <2>3. deletion' \in RunningCalls
    BY <1>10, <2>1, <2>2 DEF CountEntries, RunningCalls
  <2> QED
    BY <1>10, <1>1, <2>3 DEF CountEntries, Types
<1>11. ASSUME PreserveEntries PROVE Types'
  <2>1. deletion \in RunningCalls
    BY <1>11 DEF PreserveEntries, Types, Idle, PendingCalls
  <2>2. Rows(deletion.tenant) \in SUBSET Nat
    BY RowsFinite DEF Types
  <2>3. deletion' \in RunningCalls
    BY <1>11, <2>1, <2>2 DEF PreserveEntries, RunningCalls
  <2> QED
    BY <1>11, <1>1, <2>3 DEF PreserveEntries, Types
<1>12. ASSUME DeleteEntries PROVE Types'
  <2>1. deletion \in RunningCalls
    BY <1>12 DEF DeleteEntries, Types, Idle, PendingCalls
  <2>2. deletion' \in RunningCalls
    BY <1>12, <2>1 DEF DeleteEntries, RunningCalls
  <2> QED
    BY <1>12, <1>1, <2>2 DEF DeleteEntries, Types
<1>13. ASSUME MarkDeletedTenant PROVE Types'
  <2>1. deletion \in RunningCalls
    BY <1>13 DEF MarkDeletedTenant, Types, Idle, PendingCalls
  <2>2. deletion' \in RunningCalls
    BY <1>13, <2>1 DEF MarkDeletedTenant, RunningCalls
  <2>3. deletionState' \in [AuditTenants -> {"none", "pending", "deleted"}]
    BY <1>13 DEF MarkDeletedTenant, Types
  <2>4. markedBy' \in [AuditTenants -> 0..MaxDeletions]
    BY <1>13 DEF MarkDeletedTenant, Types
  <2> QED
    BY <1>13, <1>1, <2>2, <2>3, <2>4 DEF MarkDeletedTenant, Types
<1>14. ASSUME EmitCompleted \/ DeletionRaises PROVE Types'
  BY <1>14, <1>1 DEF EmitCompleted, DeletionRaises, Types
<1>15. ASSUME CleanupExpired PROVE Types'
  BY <1>15, <1>1 DEF CleanupExpired, Types
<1>16. ASSUME NEW t \in AuditTenants, PlaceHold(t) PROVE Types'
  <2>1. holdUntil' \in [AuditTenants -> 0..LastHour]
    BY <1>16 DEF PlaceHold, Types
  <2> QED
    BY <1>16, <1>1, <2>1 DEF PlaceHold, Types
<1>17. ASSUME HourPasses PROVE Types'
  BY <1>17, <1>1 DEF HourPasses, Types
<1>18. ASSUME UNCHANGED auditVars PROVE Types'
  BY <1>18, <1>1 DEF auditVars, Types
<1> QED
  BY <1>3, <1>4, <1>5, <1>6, <1>7, <1>8, <1>9, <1>10, <1>11, <1>12, <1>13, <1>14,
     <1>15, <1>16, <1>17, <1>18 DEF AuditNext

LEMMA TypesCorrect == AuditSpec => []Types
  BY TypesInit, TypesStep, PTL DEF AuditSpec

(* The state of the audit log and of the deletions stays well typed.       *)
THEOREM TypeCorrect == AuditSpec => []AuditTypeOK
<1>1. Types => AuditTypeOK
  <2> SUFFICES ASSUME Types PROVE AuditTypeOK
    OBVIOUS
  <2>1. ASSUME NEW i \in DOMAIN auditRows PROVE auditRows[i].tenant \in AuditTenants
    <3>1. auditRows[i] \in Entries
      BY DEF Types
    <3> QED
      BY <3>1 DEF Entries
  <2>2. deletion.at \in {"idle", "pend", "tables", "list", "mark", "complete"}
    <3>1. CASE deletion = Idle
      BY <3>1 DEF Idle
    <3>2. CASE deletion \in PendingCalls
      BY <3>2 DEF PendingCalls
    <3>3. CASE deletion \in RunningCalls
      BY <3>3 DEF RunningCalls
    <3> QED
      BY <3>1, <3>2, <3>3 DEF Types
  <2>3. guarded.served \subseteq AuditTenants
    BY DEF Types
  <2> QED
    BY <2>1, <2>2, <2>3 DEF Types, AuditTypeOK
<1> QED
  BY <1>1, TypesCorrect, PTL

(* Every step of everyone only appends to the audit entries.               *)
THEOREM AuditAppendOnlyCorrect == AuditSpec => AuditAppendOnly
<1>1. Types /\ [AuditNext]_auditVars => [IsPrefix(auditRows, auditRows')]_auditVars
  BY StepAppends, EntriesStay DEF Types
<1> QED
  BY <1>1, TypesCorrect, PTL DEF AuditSpec, AuditAppendOnly

-----------------------------------------------------------------------------
(* Privileged actions and their entries.                                   *)

LEMMA AppendedIsFound ==
    ASSUME auditRows \in Seq(Entries), NEW t \in AuditTenants,
           NEW a, Entry(t, a) \in Entries,
           auditRows' = Append(auditRows, Entry(t, a))
    PROVE  \E i \in Rows(t)' : auditRows'[i].action = a
<1>1. /\ auditRows' \in Seq(Entries)
      /\ Len(auditRows') = Len(auditRows) + 1 /\ Len(auditRows) \in Nat
      /\ auditRows'[Len(auditRows) + 1] = Entry(t, a)
  BY AppendProperties
<1>2. Len(auditRows) + 1 \in DOMAIN auditRows'
  BY <1>1
<1>3. Len(auditRows) + 1 \in Rows(t)'
  BY <1>1, <1>2 DEF Rows, Entry
<1> QED
  BY <1>1, <1>3 DEF Entry

\* Between the entry and what it is for, the entry is there.
Audited ==
    /\ \A t \in guarded.served : Privileged(t)
    /\ guarded.call.at = "body" => Privileged(guarded.call.tenant)
    /\ deletion.at = "pend" => Requested(deletion.tenant)
    /\ \A t \in AuditTenants : deletionState[t] = "pending" => Requested(t)

LEMMA AuditedInit == AuditInit => Audited
  BY DEF AuditInit, Audited, Idle

LEMMA AuditedStep == Types /\ Audited /\ [AuditNext]_auditVars => Audited'
<1> SUFFICES ASSUME Types, Audited, [AuditNext]_auditVars PROVE Audited'
  OBVIOUS
<1>1. /\ \A t \in AuditTenants : Requested(t) => Requested(t)'
      /\ \A t \in AuditTenants : Privileged(t) => Privileged(t)'
  BY StepAppends, EntriesStay DEF Types
<1>2. guarded.served \subseteq AuditTenants
  BY DEF Types
<1>3. guarded.call.at = "body" => guarded.call.tenant \in AuditTenants
  BY DEF Types, GuardedCalls, Idle
<1>4. deletion.at = "pend" => deletion.tenant \in AuditTenants
  BY DEF Types, Idle, PendingCalls, RunningCalls
<1> DEFINE Served == \A t \in guarded.served : Privileged(t)
           Body == guarded.call.at = "body" => Privileged(guarded.call.tenant)
           Pend == deletion.at = "pend" => Requested(deletion.tenant)
           Pending == \A t \in AuditTenants :
                          deletionState[t] = "pending" => Requested(t)
<1>5. ASSUME UNCHANGED guarded PROVE Served' /\ Body'
  BY <1>1, <1>2, <1>3, <1>5 DEF Audited
<1>6. ASSUME UNCHANGED deletion PROVE Pend'
  BY <1>1, <1>4, <1>6 DEF Audited
<1>7. ASSUME UNCHANGED deletionState PROVE Pending'
  BY <1>1, <1>7 DEF Audited
<1>8. ASSUME NEW t \in AuditTenants, GuardedEmit(t) PROVE Audited'
  <2>1. PICK told \in BOOLEAN :
            /\ Emit(Entry(t, "privileged"), told)
            /\ guarded' = [guarded EXCEPT !.call =
                  IF told THEN [at |-> "body", tenant |-> t] ELSE Idle]
    BY <1>8 DEF GuardedEmit
  <2>2. guarded'.served = guarded.served
    BY <2>1 DEF Types
  <2>3. Served'
    BY <1>1, <1>2, <2>2 DEF Audited
  <2>4. Body'
    <3>1. CASE told
      <4>1. Entry(t, "privileged") \in Entries
        BY DEF Entry, Entries
      <4>2. auditRows' = Append(auditRows, Entry(t, "privileged"))
        BY <3>1, <2>1 DEF Emit
      <4>3. Privileged(t)'
        BY <4>1, <4>2, AppendedIsFound DEF Types, Privileged
      <4>4. guarded'.call = [at |-> "body", tenant |-> t]
        BY <3>1, <2>1 DEF Types
      <4> QED
        BY <4>3, <4>4
    <3>2. CASE ~told
      <4>1. guarded'.call = Idle
        BY <3>2, <2>1 DEF Types
      <4> QED
        BY <4>1 DEF Idle
    <3> QED
      BY <3>1, <3>2
  <2> QED
    BY <1>8, <1>6, <1>7, <2>3, <2>4 DEF GuardedEmit, Audited
<1>9. ASSUME GuardedBody PROVE Audited'
  <2>1. guarded' = [call |-> Idle,
                    served |-> guarded.served \cup {guarded.call.tenant}]
    BY <1>9 DEF GuardedBody
  <2>2. Privileged(guarded.call.tenant) /\ guarded.call.tenant \in AuditTenants
    BY <1>9, <1>3 DEF GuardedBody, Audited
  <2>3. Served' /\ Body'
    BY <1>1, <1>2, <2>1, <2>2 DEF Audited, Idle
  <2> QED
    BY <1>9, <1>6, <1>7, <2>3 DEF GuardedBody, Audited
<1>10. ASSUME NEW t \in AuditTenants, NEW by, RequestDeletion(t, by) PROVE Audited'
  <2>1. PICK told \in BOOLEAN :
            /\ Emit(Entry(t, "deletion_requested"), told)
            /\ deletion' = IF told THEN [at |-> "pend", tenant |-> t] ELSE Idle
    BY <1>10 DEF RequestDeletion
  <2>2. Pend'
    <3>1. CASE told
      <4>1. Entry(t, "deletion_requested") \in Entries
        BY DEF Entry, Entries
      <4>2. auditRows' = Append(auditRows, Entry(t, "deletion_requested"))
        BY <3>1, <2>1 DEF Emit
      <4>3. Requested(t)'
        BY <4>1, <4>2, AppendedIsFound DEF Types, Requested
      <4> QED
        BY <4>3, <3>1, <2>1
    <3>2. CASE ~told
      BY <3>2, <2>1 DEF Idle
    <3> QED
      BY <3>1, <3>2
  <2> QED
    BY <1>10, <1>5, <1>7, <2>2 DEF RequestDeletion, Audited
<1>11. ASSUME MarkPending PROVE Audited'
  <2>1. Requested(deletion.tenant)
    BY <1>11 DEF MarkPending, Audited
  <2>2. Pend'
    BY <1>11 DEF MarkPending, Idle
  <2>3. Pending'
    <3> SUFFICES ASSUME NEW t \in AuditTenants, deletionState'[t] = "pending"
                 PROVE  Requested(t)'
      OBVIOUS
    <3>1. t = deletion.tenant \/ deletionState'[t] = deletionState[t]
      BY <1>11 DEF MarkPending, Types
    <3>2. UNCHANGED auditRows
      BY <1>11 DEF MarkPending
    <3>3. CASE t = deletion.tenant
      BY <3>2, <3>3, <2>1 DEF Requested, Rows
    <3>4. CASE deletionState'[t] = deletionState[t]
      BY <3>4, <1>1 DEF Audited
    <3> QED
      BY <3>1, <3>3, <3>4
  <2> QED
    BY <1>11, <1>5, <2>2, <2>3 DEF MarkPending, Audited
<1>12. ASSUME NEW t \in AuditTenants, NEW by, ExecuteDeletion(t, by) PROVE Audited'
  <2>1. Pend'
    BY <1>12 DEF ExecuteDeletion
  <2> QED
    BY <1>12, <1>5, <1>7, <2>1 DEF ExecuteDeletion, Audited
<1>13. ASSUME DeleteTable \/ CountEntries \/ PreserveEntries \/ DeleteEntries
       PROVE  Audited'
  <2>1. deletion \in RunningCalls
    BY <1>13 DEF DeleteTable, CountEntries, PreserveEntries, DeleteEntries, Types,
                 Idle, PendingCalls
  <2>2. deletion'.at # "pend"
    BY <1>13, <2>1 DEF DeleteTable, CountEntries, PreserveEntries, DeleteEntries,
                       RunningCalls
  <2> QED
    BY <1>13, <1>5, <1>7, <2>2 DEF DeleteTable, CountEntries, PreserveEntries,
                                   DeleteEntries, Audited
<1>14. ASSUME MarkDeletedTenant PROVE Audited'
  <2>1. deletion \in RunningCalls
    BY <1>14 DEF MarkDeletedTenant, Types, Idle, PendingCalls
  <2>2. deletion'.at # "pend"
    BY <1>14, <2>1 DEF MarkDeletedTenant, RunningCalls
  <2>3. \A t \in AuditTenants :
            deletionState'[t] = "pending" => deletionState[t] = "pending"
    BY <1>14 DEF MarkDeletedTenant, Types
  <2>4. Pending'
    BY <2>3, <1>1 DEF Audited
  <2> QED
    BY <1>14, <1>5, <2>2, <2>4 DEF MarkDeletedTenant, Audited
<1>15. ASSUME EmitCompleted \/ DeletionRaises PROVE Audited'
  <2>1. Pend'
    BY <1>15 DEF EmitCompleted, DeletionRaises, Idle
  <2> QED
    BY <1>15, <1>5, <1>7, <2>1 DEF EmitCompleted, DeletionRaises, Audited
<1>16. ASSUME NEW t \in AuditTenants, NEW b \in Tables, TenantWrites(t, b)
       PROVE  Audited'
  BY <1>16, <1>5, <1>6, <1>7 DEF TenantWrites, Audited
<1>17. ASSUME NEW t \in AuditTenants, PlaceHold(t) PROVE Audited'
  BY <1>17, <1>5, <1>6, <1>7 DEF PlaceHold, Audited
<1>18. ASSUME CleanupExpired \/ HourPasses \/ UNCHANGED auditVars PROVE Audited'
  BY <1>18, <1>5, <1>6, <1>7 DEF CleanupExpired, HourPasses, auditVars, Audited
<1> QED
  BY <1>8, <1>9, <1>10, <1>11, <1>12, <1>13, <1>14, <1>15, <1>16, <1>17, <1>18
     DEF AuditNext

(* No guarded body without its entry, no pending deletion without its      *)
(* request, whichever appends fail or time out after they committed.       *)
THEOREM PrivilegedAuditedCorrect == AuditSpec => []PrivilegedAudited
<1>1. Audited => PrivilegedAudited
  BY DEF Audited, PrivilegedAudited, Privileged
<1> QED
  BY <1>1, AuditedInit, AuditedStep, TypesCorrect, PTL DEF AuditSpec

-----------------------------------------------------------------------------
(* What a deletion comes to.                                               *)

LEMMA TailKeepsRest ==
    ASSUME NEW S, NEW s \in Seq(S), s # <<>>, NEW x, x \notin ToSet(Tail(s))
    PROVE  x = Head(s) \/ x \notin ToSet(s)
<1> SUFFICES ASSUME x \in ToSet(s), x # Head(s) PROVE FALSE
  OBVIOUS
<1>1. PICK i \in 1..Len(s) : s[i] = x
  BY DEF ToSet
<1>2. i # 1
  BY <1>1
<1>3. i - 1 \in 1..Len(Tail(s)) /\ Tail(s)[i - 1] = x
  BY <1>1, <1>2
<1>4. DOMAIN Tail(s) = 1..Len(Tail(s))
  OBVIOUS
<1> QED
  BY <1>3, <1>4 DEF ToSet

\* Every row in a table has been written by the present call's time, or later.
Since(t, b, n) == \A k \in filled[t][b] : k >= n

\* The marks: a tenant's tables hold nothing older than its mark.
Marked ==
    \A t \in AuditTenants :
        /\ markedBy[t] <= deletions
        /\ deletionState[t] = "deleted" => \A b \in Tables : Since(t, b, markedBy[t])

\* The call in progress: the tables it has been at hold what was written during
\* it, and nothing is counted or preserved before its time.
Swept ==
    deletion \in RunningCalls =>
        /\ \A b \in Tables \ ToSet(deletion.left) : Since(deletion.tenant, b, deletions)
        /\ deletion.at \in {"list", "mark", "complete"} => deletion.left = <<>>

Told ==
    deletion \in RunningCalls =>
        /\ deletion.requested => Requested(deletion.tenant)
        /\ deletion.at = "tables" => deletion.counted = 0 /\ deletion.preserved = {}
        /\ deletion.at = "list" =>
               /\ deletion.held
               /\ deletion.counted <= Cardinality(Rows(deletion.tenant))
        /\ deletion.at \in {"mark", "complete"} =>
               /\ deletion.preserved \subseteq Rows(deletion.tenant)
               /\ deletion.counted <= Cardinality(deletion.preserved)
               /\ deletion.requested => deletion.held

LEMMA AccountedInit == AuditInit => Marked /\ Swept /\ Told
<1> SUFFICES ASSUME AuditInit PROVE Marked /\ Swept /\ Told
  OBVIOUS
<1>1. deletion \notin RunningCalls
  BY DEF AuditInit, Idle, RunningCalls
<1>2. Marked
  BY DEF AuditInit, Marked
<1> QED
  BY <1>1, <1>2 DEF Swept, Told

\* Steps that leave the call and the tenants' rows alone.
LEMMA MarkedStay ==
    ASSUME Types, Marked, deletions' >= deletions, deletions' \in Nat,
           UNCHANGED <<deletionState, filled, markedBy>>
    PROVE  Marked'
  BY DEF Types, Marked, Since

LEMMA SweptStay ==
    ASSUME Swept, UNCHANGED <<deletion, deletions, filled>>
    PROVE  Swept'
  BY DEF Swept, Since

LEMMA ToldStay ==
    ASSUME Types, Told, RowsGrow, UNCHANGED deletion
    PROVE  Told'
<1> SUFFICES ASSUME deletion \in RunningCalls PROVE Told'
  BY DEF Told
<1> DEFINE t == deletion.tenant
<1>1. t \in AuditTenants
  BY DEF RunningCalls
<1>2. Rows(t) \subseteq Rows(t)' /\ (Requested(t) => Requested(t)')
  BY <1>1, EntriesStay DEF Types
<1>3. auditRows' \in Seq(Entries)
  BY EntriesStay DEF Types
<1>4. IsFiniteSet(Rows(t)') /\ Cardinality(Rows(t)') \in Nat
  <2>1. Rows(t)' \subseteq 1..Len(auditRows')
    BY <1>3 DEF Rows
  <2>2. Len(auditRows') \in Nat
    BY <1>3
  <2>3. IsFiniteSet(1..Len(auditRows'))
    BY <2>2, FS_Interval
  <2>4. IsFiniteSet(Rows(t)')
    BY <2>1, <2>3, FS_Subset
  <2> QED
    BY <2>4, FS_CardinalityType
<1>5. Cardinality(Rows(t)) <= Cardinality(Rows(t)')
  BY <1>2, <1>4, FS_Subset
<1>6. Cardinality(Rows(t)) \in Nat
  BY RowsFinite DEF Types
<1>7. deletion.counted \in Nat
  BY DEF RunningCalls
<1> HIDE DEF t
<1> QED
  BY <1>2, <1>4, <1>5, <1>6, <1>7 DEF Told, t

LEMMA AccountedStep ==
    Types /\ Marked /\ Swept /\ Told /\ [AuditNext]_auditVars
        => (Marked /\ Swept /\ Told)'
<1> SUFFICES ASSUME Types, Marked, Swept, Told, [AuditNext]_auditVars
             PROVE  (Marked /\ Swept /\ Told)'
  OBVIOUS
<1>1. RowsGrow
  BY StepAppends
<1>2. deletions \in Nat /\ deletions <= MaxDeletions
  BY DEF Types
<1>3. ASSUME UNCHANGED <<deletion, deletions, filled, deletionState, markedBy>>
      PROVE  (Marked /\ Swept /\ Told)'
  BY <1>1, <1>2, <1>3, MarkedStay, SweptStay, ToldStay
<1>4. ASSUME deletion' \notin RunningCalls, deletions' >= deletions, deletions' \in Nat,
             UNCHANGED <<filled, deletionState, markedBy>>
      PROVE  (Marked /\ Swept /\ Told)'
  BY <1>4, MarkedStay DEF Swept, Told
<1>5. ASSUME NEW t \in AuditTenants, GuardedEmit(t) PROVE (Marked /\ Swept /\ Told)'
  BY <1>5, <1>3 DEF GuardedEmit
<1>6. ASSUME GuardedBody \/ CleanupExpired \/ HourPasses \/ UNCHANGED auditVars
      PROVE  (Marked /\ Swept /\ Told)'
  BY <1>6, <1>3 DEF GuardedBody, CleanupExpired, HourPasses, auditVars
<1>7. ASSUME NEW t \in AuditTenants, PlaceHold(t) PROVE (Marked /\ Swept /\ Told)'
  BY <1>7, <1>3 DEF PlaceHold
<1>8. ASSUME NEW t \in AuditTenants, NEW by, RequestDeletion(t, by)
      PROVE  (Marked /\ Swept /\ Told)'
  <2>1. deletion' \notin RunningCalls
    BY <1>8 DEF RequestDeletion, Idle, RunningCalls
  <2>2. deletions' = deletions + 1
    BY <1>8 DEF RequestDeletion
  <2> QED
    BY <1>8, <1>2, <1>4, <2>1, <2>2 DEF RequestDeletion
<1>9. ASSUME MarkPending PROVE (Marked /\ Swept /\ Told)'
  <2>1. deletion' \notin RunningCalls
    BY <1>9 DEF MarkPending, Idle, RunningCalls
  <2>2. \A t \in AuditTenants :
            deletionState'[t] = "deleted" => deletionState[t] = "deleted"
    BY <1>9 DEF MarkPending, Types
  <2>3. Marked'
    BY <1>9, <2>2 DEF MarkPending, Marked, Since
  <2> QED
    BY <2>1, <2>3 DEF Swept, Told
<1>10. ASSUME NEW t \in AuditTenants, NEW by, ExecuteDeletion(t, by)
       PROVE  (Marked /\ Swept /\ Told)'
  <2>1. deletion' = [at |-> "tables", tenant |-> t, held |-> OnHold(t),
                     left |-> TenantTables, counted |-> 0, preserved |-> {},
                     requested |-> Requested(t)]
    BY <1>10 DEF ExecuteDeletion
  <2>2. Marked'
    BY <1>10, <1>2, MarkedStay DEF ExecuteDeletion
  <2>3. Swept'
    BY <2>1 DEF Swept, Tables
  <2>4. Requested(t) => Requested(t)'
    BY <1>1, EntriesStay DEF Types
  <2>5. Told'
    BY <2>1, <2>4 DEF Told
  <2> QED
    BY <2>2, <2>3, <2>5
<1>11. ASSUME DeleteTable PROVE (Marked /\ Swept /\ Told)'
  <2>1. deletion \in RunningCalls /\ deletion.left # <<>> /\ deletion.at = "tables"
    BY <1>11 DEF DeleteTable, Types, Idle, PendingCalls
  <2>2. /\ deletion.left \in Seq(STRING)
        /\ deletion' = [deletion EXCEPT !.left = Tail(deletion.left)]
        /\ deletion.tenant \in AuditTenants
    BY <1>11, <2>1 DEF DeleteTable, RunningCalls
  <2>3. /\ deletion'.at = "tables" /\ deletion'.tenant = deletion.tenant
        /\ deletion'.left = Tail(deletion.left)
        /\ deletion'.requested = deletion.requested
        /\ deletion'.counted = deletion.counted
        /\ deletion'.preserved = deletion.preserved
    BY <2>1, <2>2 DEF RunningCalls
  <2>4. \A u \in AuditTenants, b \in Tables :
            /\ filled'[u][b] \subseteq filled[u][b]
            /\ u = deletion.tenant /\ b = Head(deletion.left) => filled'[u][b] = {}
    BY <1>11, <2>2 DEF DeleteTable, Types
  <2>5. Marked'
    BY <1>11, <2>4 DEF DeleteTable, Marked, Since
  <2>6. Swept'
    <3>1. ASSUME NEW b \in Tables, b \notin ToSet(deletion'.left)
          PROVE  Since(deletion.tenant, b, deletions)'
      <4>1. b = Head(deletion.left) \/ b \notin ToSet(deletion.left)
        BY <3>1, <2>1, <2>2, <2>3, TailKeepsRest
      <4>2. CASE b = Head(deletion.left)
        BY <4>2, <2>2, <2>3, <2>4 DEF Since
      <4>3. CASE b \notin ToSet(deletion.left)
        <5>1. Since(deletion.tenant, b, deletions)
          BY <4>3, <2>1 DEF Swept
        <5> QED
          BY <5>1, <2>2, <2>3, <2>4, <1>11 DEF Since, DeleteTable
      <4> QED
        BY <4>1, <4>2, <4>3
    <3> QED
      BY <3>1, <2>3 DEF Swept
  <2>7. Told'
    BY <2>1, <2>3, <1>11 DEF Told, DeleteTable, Requested, Rows
  <2> QED
    BY <2>5, <2>6, <2>7
<1>12. ASSUME NEW t \in AuditTenants, NEW b \in Tables, TenantWrites(t, b)
       PROVE  (Marked /\ Swept /\ Told)'
  <2>1. \A u \in AuditTenants, d \in Tables :
            filled'[u][d] \subseteq filled[u][d] \cup {deletions}
    BY <1>12 DEF TenantWrites, Types
  <2>2. \A u \in AuditTenants, d \in Tables, n \in Nat :
            n <= deletions /\ Since(u, d, n) => \A k \in filled'[u][d] : k >= n
    BY <2>1, <1>2 DEF Since
  <2>3. \A u \in AuditTenants : markedBy[u] \in Nat
    BY DEF Types
  <2>4. Marked'
    BY <1>12, <2>2, <2>3 DEF TenantWrites, Marked, Since
  <2>5. deletion \in RunningCalls => deletion.tenant \in AuditTenants
    BY DEF RunningCalls
  <2>6. Swept'
    BY <1>12, <1>2, <2>2, <2>5 DEF TenantWrites, Swept, Since
  <2>7. Told'
    BY <1>12, <1>1, ToldStay DEF TenantWrites
  <2> QED
    BY <2>4, <2>6, <2>7
<1>13. ASSUME CountEntries PROVE (Marked /\ Swept /\ Told)'
  <2>1. deletion \in RunningCalls /\ deletion.left = <<>> /\ deletion.held
    BY <1>13 DEF CountEntries, Types, Idle, PendingCalls
  <2>2. deletion' = [deletion EXCEPT !.at = "list",
                                     !.counted = Cardinality(Rows(deletion.tenant))]
    BY <1>13 DEF CountEntries
  <2>3. /\ deletion'.at = "list" /\ deletion'.tenant = deletion.tenant
        /\ deletion'.left = deletion.left /\ deletion'.held = deletion.held
        /\ deletion'.requested = deletion.requested
        /\ deletion'.counted = Cardinality(Rows(deletion.tenant))
    BY <2>1, <2>2 DEF RunningCalls
  <2>4. Marked'
    BY <1>13, <1>2, MarkedStay DEF CountEntries
  <2>5. Swept'
    BY <1>13, <2>1, <2>3 DEF CountEntries, Swept, Since
  <2>6. Cardinality(Rows(deletion.tenant)) \in Nat
    BY RowsFinite DEF Types
  <2>7. Told'
    BY <1>13, <2>1, <2>3, <2>6 DEF CountEntries, Told, Rows, Requested
  <2> QED
    BY <2>4, <2>5, <2>7
<1>14. ASSUME PreserveEntries PROVE (Marked /\ Swept /\ Told)'
  <2>1. deletion \in RunningCalls /\ deletion.at = "list"
    BY <1>14 DEF PreserveEntries, Types, Idle, PendingCalls
  <2>2. deletion' = [deletion EXCEPT !.at = "mark", !.preserved = Rows(deletion.tenant)]
    BY <1>14 DEF PreserveEntries
  <2>3. /\ deletion'.at = "mark" /\ deletion'.tenant = deletion.tenant
        /\ deletion'.left = deletion.left /\ deletion'.held = deletion.held
        /\ deletion'.requested = deletion.requested
        /\ deletion'.counted = deletion.counted
        /\ deletion'.preserved = Rows(deletion.tenant)
    BY <2>1, <2>2 DEF RunningCalls
  <2>4. Marked'
    BY <1>14, <1>2, MarkedStay DEF PreserveEntries
  <2>5. Swept'
    BY <1>14, <2>1, <2>3 DEF PreserveEntries, Swept, Since
  <2>6. Told'
    BY <1>14, <2>1, <2>3 DEF PreserveEntries, Told, Rows, Requested
  <2> QED
    BY <2>4, <2>5, <2>6
<1>15. ASSUME DeleteEntries PROVE (Marked /\ Swept /\ Told)'
  <2>1. /\ deletion \in RunningCalls /\ deletion.at = "tables"
        /\ deletion.left = <<>>
    BY <1>15 DEF DeleteEntries, Types, Idle, PendingCalls
  <2>2. deletion' = [deletion EXCEPT !.at = "mark"]
    BY <1>15 DEF DeleteEntries
  <2>3. /\ deletion'.at = "mark" /\ deletion'.tenant = deletion.tenant
        /\ deletion'.left = deletion.left
        /\ deletion'.requested = deletion.requested
        /\ deletion'.counted = deletion.counted
        /\ deletion'.preserved = deletion.preserved
    BY <2>1, <2>2 DEF RunningCalls
  <2>4. Rows(deletion.tenant) = {}
    BY <1>15 DEF DeleteEntries, AuditDelete
  <2>5. ~deletion.requested
    BY <2>1, <2>4 DEF Told, Requested, RunningCalls
  <2>6. Marked'
    BY <1>15, <1>2, MarkedStay DEF DeleteEntries
  <2>7. Swept'
    BY <1>15, <2>1, <2>3 DEF DeleteEntries, Swept, Since
  <2>8. deletion.counted = 0 /\ deletion.preserved = {}
    BY <2>1 DEF Told
  <2>9. Cardinality(deletion.preserved) = 0
    BY <2>8, FS_EmptySet
  <2>10. deletion'.counted <= Cardinality(deletion'.preserved)
    BY <2>3, <2>8, <2>9
  <2>11. /\ deletion'.preserved \subseteq Rows(deletion.tenant)'
         /\ ~deletion'.requested
    BY <2>3, <2>5, <2>8
  <2>12. Told'
    BY <2>3, <2>10, <2>11 DEF Told
  <2> QED
    BY <2>6, <2>7, <2>12
<1>16. ASSUME MarkDeletedTenant PROVE (Marked /\ Swept /\ Told)'
  <2>1. deletion \in RunningCalls /\ deletion.at = "mark"
    BY <1>16 DEF MarkDeletedTenant, Types, Idle, PendingCalls
  <2>2. deletion' = [deletion EXCEPT !.at = "complete"]
    BY <1>16 DEF MarkDeletedTenant
  <2>3. /\ deletion'.at = "complete" /\ deletion'.tenant = deletion.tenant
        /\ deletion'.left = deletion.left /\ deletion'.held = deletion.held
        /\ deletion'.requested = deletion.requested
        /\ deletion'.counted = deletion.counted
        /\ deletion'.preserved = deletion.preserved
    BY <2>1, <2>2 DEF RunningCalls
  <2>4. \A b \in Tables : Since(deletion.tenant, b, deletions)
    BY <2>1 DEF Swept, ToSet
  <2>5. \A u \in AuditTenants :
            /\ u = deletion.tenant => markedBy'[u] = deletions
            /\ u # deletion.tenant =>
                   markedBy'[u] = markedBy[u] /\ deletionState'[u] = deletionState[u]
    BY <1>16 DEF MarkDeletedTenant, Types
  <2>6. Marked'
    BY <1>16, <1>2, <2>4, <2>5 DEF MarkDeletedTenant, Marked, Since
  <2>7. Swept'
    BY <1>16, <2>1, <2>3 DEF MarkDeletedTenant, Swept, Since
  <2>8. Told'
    BY <1>16, <2>1, <2>3 DEF MarkDeletedTenant, Told, Rows, Requested
  <2> QED
    BY <2>6, <2>7, <2>8
<1>17. ASSUME EmitCompleted \/ DeletionRaises PROVE (Marked /\ Swept /\ Told)'
  <2>1. deletion' \notin RunningCalls
    BY <1>17 DEF EmitCompleted, DeletionRaises, Idle, RunningCalls
  <2> QED
    BY <1>17, <1>2, <1>4, <2>1 DEF EmitCompleted, DeletionRaises
<1> QED
  BY <1>5, <1>6, <1>7, <1>8, <1>9, <1>10, <1>11, <1>12, <1>13, <1>14, <1>15, <1>16,
     <1>17 DEF AuditNext

(* A tenant marked deleted has no older row, what is called preserved is    *)
(* there, and a requested deletion passes its own entry only under a hold, *)
(* whichever statement of whichever call fails.                            *)
THEOREM DeletionAccountedCorrect == AuditSpec => []DeletionAccounted
<1>1. Types /\ Marked /\ Swept /\ Told => DeletionAccounted
  <2> SUFFICES ASSUME Types, Marked, Swept, Told PROVE DeletionAccounted
    OBVIOUS
  <2>1. deletion.at \in {"mark", "complete"} => deletion \in RunningCalls
    BY DEF Types, Idle, PendingCalls
  <2> QED
    BY <2>1 DEF Marked, Since, Told, DeletionAccounted
<1> QED
  BY <1>1, AccountedInit, AccountedStep, TypesCorrect, PTL DEF AuditSpec

=============================================================================
