--------------------------- MODULE MeteringBuffer ---------------------------
(***************************************************************************)
(* Usage metering of one gateway process: MeteringService.emit_metering_   *)
(* event writes a row for each billable response and falls back to the     *)
(* in-memory DurableMeteringBuffer; flush drains that buffer into the      *)
(* metering_events table.  All of it runs on one asyncio event loop, so a  *)
(* step of the model is the code between two awaits; the database commits  *)
(* and answers in steps of its own, and may fail before or after commit.   *)
(***************************************************************************)
EXTENDS Integers, FiniteSets, SequencesExt

CONSTANTS
    Emissions,      \* calls of emit_metering_event
    Requests,       \* request ids; the dedup key is a function of one
    RequestOf,      \* the request id of each call (a retried request repeats it)
    Malformed,      \* calls whose tenant_id is no UUID: their insert always raises
    Flushers,       \* tasks that call flush
    MaxSize,        \* max_size of the buffer
    DegradedNum,    \* _DEGRADED_THRESHOLD is DegradedNum / DegradedDen
    DegradedDen,
    NoEvent         \* not an emission: a flush that has peeked at nothing

ASSUME ConstantsAssumption ==
    /\ RequestOf \in [Emissions -> Requests]
    /\ Malformed \subseteq Emissions
    /\ MaxSize \in Nat \ {0}
    /\ DegradedNum \in Nat \ {0}
    /\ DegradedDen \in Nat \ {0}
    /\ IsFiniteSet(Emissions)
    /\ NoEvent \notin Emissions

VARIABLES
    emit,           \* emit[e]: how far the call e has come
    rows,           \* rows[r]: rows of metering_events with r's dedup key
    buffer,         \* the deque: emissions whose event waits, oldest first
    degraded,       \* _degraded_audit_emitted
    flush,          \* flush[f]: the task's position and the event it peeked
    dropped,        \* history: events the full deque discarded
    overlapped      \* history: have two flushes ever been under way at once

vars == <<emit, rows, buffer, degraded, flush, dropped, overlapped>>

EmitStates == {"idle", "inserting", "written", "done",
               "auditing", "buffered", "crashed"}

IdleFlush == [pc |-> "idle", event |-> NoEvent]

FlushStates == {IdleFlush} \cup [pc : {"inserting", "written"}, event : Emissions]

TypeOK ==
    /\ emit \in [Emissions -> EmitStates]
    /\ rows \in [Requests -> Nat]
    /\ buffer \in Seq(Emissions)
    /\ Len(buffer) <= MaxSize
    /\ degraded \in BOOLEAN
    /\ flush \in [Flushers -> FlushStates]
    /\ dropped \subseteq Emissions
    /\ overlapped \in BOOLEAN

Init ==
    /\ emit = [e \in Emissions |-> "idle"]
    /\ rows = [r \in Requests |-> 0]
    /\ buffer = <<>>
    /\ degraded = FALSE
    /\ flush = [f \in Flushers |-> IdleFlush]
    /\ dropped = {}
    /\ overlapped = FALSE

-----------------------------------------------------------------------------
(* The INSERT ... ON CONFLICT (dedup_key) DO NOTHING of both writers.      *)

InsertRowNoConflictClause(e) ==
    rows' = [rows EXCEPT ![RequestOf[e]] = @ + 1]

InsertRow(e) ==
    rows' = [rows EXCEPT ![RequestOf[e]] = IF @ = 0 THEN 1 ELSE @]

Billed(e) == rows[RequestOf[e]] > 0

-----------------------------------------------------------------------------
(* emit_metering_event                                                     *)

EmitStart(e, billable) ==
    /\ emit[e] = "idle"
    /\ emit' = [emit EXCEPT ![e] = IF billable THEN "inserting" ELSE "done"]
    /\ UNCHANGED <<rows, buffer, degraded, flush, dropped, overlapped>>

EmitCommit(e) ==
    /\ emit[e] = "inserting"
    /\ e \notin Malformed
    /\ InsertRow(e)
    /\ emit' = [emit EXCEPT ![e] = "written"]
    /\ UNCHANGED <<buffer, degraded, flush, dropped, overlapped>>

EmitAck(e) ==
    /\ emit[e] = "written"
    /\ emit' = [emit EXCEPT ![e] = "done"]
    /\ UNCHANGED <<rows, buffer, degraded, flush, dropped, overlapped>>

\* fill_ratio >= _DEGRADED_THRESHOLD
AtThreshold(len) == len * DegradedDen >= DegradedNum * MaxSize

DequeAppendUnbounded(e) ==
    /\ buffer' = Append(buffer, e)
    /\ UNCHANGED dropped

DequeAppendRejects(e) ==
    /\ buffer' = IF Len(buffer) < MaxSize THEN Append(buffer, e) ELSE buffer
    /\ UNCHANGED dropped

\* deque.append of a deque with maxlen: the oldest event makes room.
DequeAppend(e) ==
    IF Len(buffer) < MaxSize
    THEN /\ buffer' = Append(buffer, e)
         /\ UNCHANGED dropped
    ELSE /\ buffer' = Append(Tail(buffer), e)
         /\ dropped' = dropped \cup {Head(buffer)}

ReportCrossingBeforeAppend(e) ==
    LET crossing == ~degraded /\ AtThreshold(Len(buffer))
    IN  /\ degraded' = (degraded \/ crossing)
        /\ emit' = [emit EXCEPT ![e] = IF crossing THEN "auditing" ELSE "buffered"]

\* On a threshold crossing the call goes on to await the audit emitter.
ReportCrossing(e) ==
    LET crossing == ~degraded /\ AtThreshold(Len(buffer'))
    IN  /\ degraded' = (degraded \/ crossing)
        /\ emit' = [emit EXCEPT ![e] = IF crossing THEN "auditing" ELSE "buffered"]

(* The insert raised, with or without having committed: buffer_event.      *)
EmitFail(e) ==
    /\ emit[e] \in {"inserting", "written"}
    /\ DequeAppend(e)
    /\ ReportCrossing(e)
    /\ UNCHANGED <<rows, flush, overlapped>>

\* The audit emitter returned or raised; either way the call ends.
AuditReturns(e) ==
    /\ emit[e] = "auditing"
    /\ emit' = [emit EXCEPT ![e] = "buffered"]
    /\ UNCHANGED <<rows, buffer, degraded, flush, dropped, overlapped>>

-----------------------------------------------------------------------------
(* flush                                                                   *)

Busy(f) == flush[f].pc # "idle"

Inserting(event) == [pc |-> "inserting", event |-> event]

Written(event) == [pc |-> "written", event |-> event]

(* Peek at the front and await the insert.  On an empty buffer flush only  *)
(* clears a flag that is clear already, so it is no step of the model.     *)
FlushStart(f) ==
    /\ ~Busy(f)
    /\ buffer # <<>>
    /\ flush' = [flush EXCEPT ![f] = Inserting(Head(buffer))]
    /\ overlapped' = (overlapped \/ \E g \in Flushers : Busy(g))
    /\ UNCHANGED <<emit, rows, buffer, degraded, dropped>>

FlushCommit(f) ==
    /\ flush[f].pc = "inserting"
    /\ flush[f].event \notin Malformed
    /\ InsertRow(flush[f].event)
    /\ flush' = [flush EXCEPT ![f] = Written(@.event)]
    /\ UNCHANGED <<emit, buffer, degraded, dropped, overlapped>>

\* "if not self._buffer: self._degraded_audit_emitted = False"
ResetIfDrained(remaining) == degraded' = (degraded /\ remaining # <<>>)

FlushAckKeepsEvent(f) ==
    /\ flush[f].pc = "written"
    /\ ResetIfDrained(buffer)
    /\ flush' = [flush EXCEPT ![f] = IF buffer = <<>> THEN IdleFlush ELSE Inserting(Head(buffer))]
    /\ UNCHANGED <<emit, rows, buffer, dropped, overlapped>>

(* The insert returned: popleft, then peek at the next event or finish.    *)
(* popleft of a buffer emptied meanwhile raises and ends the flush.        *)
FlushAck(f) ==
    /\ flush[f].pc = "written"
    /\ LET rest == IF buffer = <<>> THEN <<>> ELSE Tail(buffer)
       IN  /\ buffer' = rest
           /\ ResetIfDrained(rest)
           /\ flush' = [flush EXCEPT ![f] =
                            IF rest = <<>> THEN IdleFlush ELSE Inserting(Head(rest))]
    /\ UNCHANGED <<emit, rows, dropped, overlapped>>

FlushFailResetsFlag(f) ==
    /\ Busy(f)
    /\ flush' = [flush EXCEPT ![f] = IdleFlush]
    /\ degraded' = FALSE
    /\ UNCHANGED <<emit, rows, buffer, dropped, overlapped>>

\* The insert raised (with or without having committed): break.
FlushFail(f) ==
    /\ Busy(f)
    /\ flush' = [flush EXCEPT ![f] = IdleFlush]
    /\ ResetIfDrained(buffer)
    /\ UNCHANGED <<emit, rows, buffer, dropped, overlapped>>

-----------------------------------------------------------------------------
(* The process restarts: the deque and every task under way are gone.      *)
Restart ==
    /\ emit' = [e \in Emissions |->
                   IF \/ emit[e] \in {"inserting", "written", "auditing"}
                      \/ e \in ToSet(buffer)
                   THEN "crashed" ELSE emit[e]]
    /\ buffer' = <<>>
    /\ degraded' = FALSE
    /\ flush' = [f \in Flushers |-> IdleFlush]
    /\ UNCHANGED <<rows, dropped, overlapped>>

Next ==
    \/ \E e \in Emissions :
         \/ \E billable \in BOOLEAN : EmitStart(e, billable)
         \/ EmitCommit(e)
         \/ EmitAck(e)
         \/ EmitFail(e)
         \/ AuditReturns(e)
    \/ \E f \in Flushers :
         \/ FlushStart(f)
         \/ FlushCommit(f)
         \/ FlushAck(f)
         \/ FlushFail(f)
    \/ Restart

(* flush is called again and again by a task outside this code, and the    *)
(* database is not down for ever: what its module documentation asks for.  *)
(* The insert of a malformed event does raise.                             *)
Fairness ==
    \A f \in Flushers :
        /\ WF_vars(FlushStart(f))
        /\ SF_vars(FlushCommit(f))
        /\ SF_vars(FlushAck(f))
        /\ WF_vars(flush[f].event \in Malformed /\ FlushFail(f))

Spec == Init /\ [][Next]_vars

FairSpec == Spec /\ Fairness

-----------------------------------------------------------------------------
(* An event handed to the buffer that is neither waiting there nor billed. *)
Unaccounted ==
    {e \in Emissions : /\ emit[e] \in {"auditing", "buffered"}
                       /\ e \notin ToSet(buffer)
                       /\ ~Billed(e)}

(* However often an insert is repeated (a retried request, a lost answer   *)
(* followed by a flush, two flushes of one event), a request has one row   *)
(* (R14.3: downstream deduplication by request_id).                        *)
AtMostOneRow == \A r \in Requests : rows[r] <= 1

(* As long as the deque never overflowed and no two flushes overlapped,    *)
(* no event that reached the buffer is lost: the popleft after the await   *)
(* in flush removes the event that was written (R14.3, at least once).     *)
LossNeedsOverflow == (~overlapped /\ dropped = {}) => Unaccounted = {}

(* With overflow the popleft may remove an event that was never written,   *)
(* but then the event it did write had been discarded: without overlapping *)
(* flushes no more events are lost than the deque discarded.               *)
LossBoundedByOverflow ==
    ~overlapped => Cardinality(Unaccounted) <= Cardinality(dropped)

(* A buffer at or above the threshold has been reported: no interleaving   *)
(* of appends, flushes and failures leaves it high and unreported (R14.5). *)
HighFillReported == AtThreshold(Len(buffer)) => degraded

(* "Once per threshold crossing": the flag falls only when the buffer is   *)
(* drained, so a partial flush never makes a second report possible.       *)
ReportOncePerCrossing ==
    [][degraded /\ ~degraded' => buffer' = <<>>]_vars

(* With a flush that is called again and a database that comes back, no    *)
(* backlog lasts, whatever was duplicated, dropped or flushed twice, unless *)
(* an event whose insert can never succeed has reached the front: flush    *)
(* stops at it every time.  With LossBoundedByOverflow this is what the    *)
(* code gives of the at-least-once delivery of R14.3.                      *)
BacklogDrains == []<>(buffer = <<>> \/ Head(buffer) \in Malformed)

(* The module's account of losses: only the oldest events of a full deque  *)
(* are dropped; flush removes what it has written.                         *)
OnlyOldestDropped == ~overlapped => Unaccounted \subseteq dropped

=============================================================================
