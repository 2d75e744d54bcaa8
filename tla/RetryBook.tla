------------------------------ MODULE RetryBook ------------------------------
(* The indexer's in-memory books on a source (backend/indexer): failed     *)
(* attempts and dead letters (dlq.py, index_document_with_retry) and the   *)
(* priority sources that have to be crawled again (scheduler.py).  An      *)
(* attempt is crawled, indexed and recorded by a worker that looks at the  *)
(* books before and after it.                                              *)
EXTENDS Integers, Sequences

CONSTANTS
    BookSources,
    MaxAttempts,        \* MAX_RETRY_ATTEMPTS
    RetrySpacing,       \* MIN_RETRY_SPACING_SECONDS, in ticks
    MaxFailures,        \* bound: failures recorded
    LastBeat            \* bound on time

ASSUME BookAssumption ==
    /\ MaxAttempts \in Nat \ {0} /\ RetrySpacing \in Nat
    /\ MaxFailures \in Nat /\ LastBeat \in Nat

VARIABLES
    failures,       \* [BookSources -> RetryState.attempt_timestamps]
    failuresEver,   \* all times a failure of the source was recorded (history)
    deadEntries,    \* DLQEntry: source, attempts told, how many failed by then
    failureAudit,   \* index_failure events emitted
    priority,       \* PriorityScheduler._sources: last_crawled_at, -1 for never
    beat

bookVars == <<failures, failuresEver, deadEntries, failureAudit, priority, beat>>

Unknown == -2

Never == -1

BookInit ==
    /\ failures = [s \in BookSources |-> <<>>]
    /\ failuresEver = [s \in BookSources |-> <<>>]
    /\ deadEntries = <<>> /\ failureAudit = <<>>
    /\ priority = [s \in BookSources |-> Unknown]
    /\ beat = 0

ShouldRouteUnspaced(times) == Len(times) >= MaxAttempts

\* should_route_to_dlq looks at the last MaxAttempts attempts.
ShouldRoute(times) ==
    /\ Len(times) >= MaxAttempts
    /\ \A i \in (Len(times) - MaxAttempts + 1)..(Len(times) - 1) :
           times[i + 1] - times[i] >= RetrySpacing

RecordAttempt(s) == Append(failures[s], beat)

\* route_to_dlq: the entry tells the attempts, and the book is closed.
RouteToDlq(s, times) ==
    /\ failures' = [failures EXCEPT ![s] = <<>>]
    /\ deadEntries' = Append(deadEntries,
           [source |-> s, attempts |-> Len(times), failed |-> Len(failuresEver[s]) + 1])

\* index_document_with_retry: the attempt is recorded and the source routed if
\* it was the last one allowed; the emission of index_failure may raise.
IndexFailed(s) ==
    /\ Len(failuresEver[s]) < MaxFailures
    /\ failuresEver' = [failuresEver EXCEPT ![s] = Append(@, beat)]
    /\ IF ShouldRoute(RecordAttempt(s))
       THEN /\ RouteToDlq(s, RecordAttempt(s))
            /\ failureAudit' \in {failureAudit, Append(failureAudit, s)}
       ELSE /\ failures' = [failures EXCEPT ![s] = RecordAttempt(s)]
            /\ UNCHANGED <<deadEntries, failureAudit>>
    /\ UNCHANGED <<priority, beat>>

\* add_source keeps what is known of a source; remove_source forgets it.
AddSource(s) ==
    /\ priority[s] = Unknown
    /\ priority' = [priority EXCEPT ![s] = Never]
    /\ UNCHANGED <<failures, failuresEver, deadEntries, failureAudit, beat>>

RemoveSource(s) ==
    /\ priority[s] # Unknown
    /\ priority' = [priority EXCEPT ![s] = Unknown]
    /\ UNCHANGED <<failures, failuresEver, deadEntries, failureAudit, beat>>

\* record_crawl, whether the source was due or not; the time may be the
\* caller's.  (get_due_sources and is_source_due only tell who is due.)
RecordCrawl(s) ==
    /\ priority[s] # Unknown
    /\ \E at \in 0..beat : priority' = [priority EXCEPT ![s] = at]
    /\ UNCHANGED <<failures, failuresEver, deadEntries, failureAudit, beat>>

BeatPasses ==
    /\ beat < LastBeat
    /\ beat' = beat + 1
    /\ UNCHANGED <<failures, failuresEver, deadEntries, failureAudit, priority>>

BookNext ==
    \/ \E s \in BookSources :
           IndexFailed(s) \/ AddSource(s) \/ RemoveSource(s) \/ RecordCrawl(s)
    \/ BeatPasses

BookSpec == BookInit /\ [][BookNext]_bookVars

-----------------------------------------------------------------------------

BookTypeOK ==
    /\ \A s \in BookSources :
           /\ failures[s] \in Seq(0..LastBeat)
           /\ priority[s] \in {Unknown, Never} \cup 0..LastBeat
    /\ beat \in 0..LastBeat

LettersOf(s) == {i \in DOMAIN deadEntries : deadEntries[i].source = s}

\* Together these dead letters tell a source's first n failures.
ToldUpTo(letters, n) ==
    /\ \A j \in letters : deadEntries[j].failed <= n
    /\ n = 0 \/ \E j \in letters : deadEntries[j].failed = n

\* Dead letters account for failures (R2.5): the failures of a source are those
\* told by its dead letters, each from where the one before it ended, and then
\* those still in its book; and each dead letter tells at least MaxAttempts, the
\* last ones spaced.
RoutedAfterRetries ==
    \A s \in BookSources :
        LET ever == failuresEver[s]
            told == Len(ever) - Len(failures[s])
        IN  /\ \A i \in LettersOf(s) :
                   LET e == deadEntries[i] IN
                   /\ ToldUpTo({j \in LettersOf(s) : j < i}, e.failed - e.attempts)
                   /\ e.attempts >= MaxAttempts
                   /\ ever[e.failed] - ever[e.failed - MaxAttempts + 1]
                          >= (MaxAttempts - 1) * RetrySpacing
            /\ ToldUpTo(LettersOf(s), told)
            /\ failures[s] = SubSeq(ever, told + 1, Len(ever))
=============================================================================
