----------------------------- MODULE ResearchJob -----------------------------
(***************************************************************************)
(* Research jobs (backend/research_agent): a job is planned, its steps are *)
(* executed one after the other within its budgets, and each emits events  *)
(* into a buffer that readers replay from the last event they have.        *)
(*                                                                         *)
(* start_job runs the job in its caller's thread and returns the job id at *)
(* the end, so nobody reads a job that is under way, and a thread that     *)
(* runs a job answers no request.  The service guards its dictionaries     *)
(* with locks for any number of threads; the gateway has one, its event    *)
(* loop.                                                                   *)
(***************************************************************************)
EXTENDS Integers, FiniteSets, SequencesExt, FiniteSetsExt

CONSTANTS
    Jobs,           \* calls of start_job that pass its validation
    Readers,        \* clients of GET /v1/research/{job_id}/events
    Docs,           \* documents of the index
    Simulated,      \* a document made up when the retriever fails
    NoDoc,
    Plans,          \* the sequences of step types the planner may return
    Budgets,        \* the budgets requests may set
    NumResults,     \* hits of a retrieval, at most
    ReadWindow,     \* documents that a read step looks at
    Retention,      \* seconds an ended job's events are kept
    Threads,        \* threads that serve requests; one in the gateway
    MaxTime         \* bound on the clock

StepTypes == {"sub_query", "retrieval", "read", "synthesis"}

ASSUME PlansAssumption == Plans \subseteq Seq(StepTypes) \ {<<>>}

ASSUME BudgetsAssumption ==
    Budgets \subseteq [max_steps : Int, max_duration : Int, max_tool_calls : Int]

ASSUME BoundsAssumption ==
    /\ {NumResults, ReadWindow, Retention, MaxTime} \subseteq Nat
    /\ ReadWindow > 0
    /\ Threads \in Nat \ {0}

ASSUME DocsAssumption == Simulated \notin Docs /\ NoDoc \notin Docs \cup {Simulated}

VARIABLES
    clock,
    job,            \* _jobs, with the locals of the executor and the tracker
    events,         \* EventBuffer._buffers
    terminalAt,     \* EventBuffer._terminal_times
    counter,        \* EventEmitter._counters
    reader,         \* reader[c]: the job it reads, the events it has received
    emitted,        \* history: what events held before it was cleaned up
    lastAt          \* history: when the last event of a type was emitted

vars == <<clock, job, events, terminalAt, counter, reader, emitted, lastAt>>

Found == Docs \cup {Simulated}

NoTime == -1

\* The ERROR event is named by the code in its payload.
Terminal == {"done", "budget_exceeded", "internal_error"}

Timed == {"step_started"} \cup Terminal

EventTypes == {"plan_updated", "step_started", "step_completed", "citation",
               "report_chunk"} \cup Terminal

Event == [id : Nat, type : EventTypes, step : Nat, doc : Found \cup {NoDoc}]

NoBudget == [max_steps |-> 0, max_duration |-> 0, max_tool_calls |-> 0]

\* A chunk of the report stands for the step that wrote it.
Report == [citations : Seq(Found), chunks : Seq(Nat), partial : BOOLEAN]

EmptyReport == [citations |-> <<>>, chunks |-> <<>>, partial |-> TRUE]

Job == [state : {"queued", "running", "succeeded", "failed", "budget_exceeded"},
        plan : Plans \cup {<<>>}, budget : Budgets \cup {NoBudget},
        next : Nat, open : BOOLEAN, started : Nat, steps : Nat, calls : Nat,
        docs : Seq(Found), citations : Seq(Found), chunks : Seq(Nat),
        report : Report]

TypeOK ==
    /\ clock \in 0..MaxTime
    /\ job \in [Jobs -> Job]
    /\ events \in [Jobs -> Seq(Event)]
    /\ terminalAt \in [Jobs -> Nat \cup {NoTime}]
    /\ counter \in [Jobs -> Nat]
    /\ reader \in [Readers -> [job : Jobs, got : Seq(Event)]]
    /\ emitted \in [Jobs -> Seq(Event)]
    /\ lastAt \in [Jobs -> [Timed -> Nat \cup {NoTime}]]

Queued == [state |-> "queued", plan |-> <<>>, budget |-> NoBudget,
           next |-> 1, open |-> FALSE, started |-> 0, steps |-> 0, calls |-> 0,
           docs |-> <<>>, citations |-> <<>>, chunks |-> <<>>,
           report |-> EmptyReport]

Init ==
    /\ clock = 0
    /\ job = [j \in Jobs |-> Queued]
    /\ events = [j \in Jobs |-> <<>>]
    /\ terminalAt = [j \in Jobs |-> NoTime]
    /\ counter = [j \in Jobs |-> 0]
    /\ reader \in [Readers -> [job : Jobs, got : {<<>>}]]
    /\ emitted = [j \in Jobs |-> <<>>]
    /\ lastAt = [j \in Jobs |-> [t \in Timed |-> NoTime]]

-----------------------------------------------------------------------------
(* EventEmitter.emit and EventBuffer.append                                *)

Plain(type) == [type |-> type, step |-> 0, doc |-> NoDoc]

OfStep(type, i) == [type |-> type, step |-> i, doc |-> NoDoc]

Cites(d, i) == [type |-> "citation", step |-> i, doc |-> d]

Stamp(j, kinds) ==
    [i \in DOMAIN kinds |->
        [id |-> counter[j] + i, type |-> kinds[i].type, step |-> kinds[i].step,
         doc |-> kinds[i].doc]]

TerminalTime(j, kinds) ==
    IF \E i \in DOMAIN kinds : kinds[i].type \in Terminal
    THEN clock ELSE terminalAt[j]

Emit(j, kinds) ==
    /\ counter' = [counter EXCEPT ![j] = @ + Len(kinds)]
    /\ events' = [events EXCEPT ![j] = @ \o Stamp(j, kinds)]
    /\ emitted' = [emitted EXCEPT ![j] = @ \o Stamp(j, kinds)]
    /\ terminalAt' = [terminalAt EXCEPT ![j] = TerminalTime(j, kinds)]
    /\ lastAt' = [lastAt EXCEPT ![j] = [t \in Timed |->
                      IF \E i \in DOMAIN kinds : kinds[i].type = t
                      THEN clock ELSE @[t]]]

-----------------------------------------------------------------------------
(* start_job, _execute_job and execute_plan, in the thread of their caller *)

ThreadFree ==
    Cardinality({j \in Jobs : job[j].state = "running"}) < Threads

\* The planner returned a plan.
StartJob(j) ==
    /\ job[j].state = "queued"
    /\ ThreadFree
    /\ \E plan \in Plans, budget \in Budgets :
           job' = [job EXCEPT ![j].state = "running", ![j].plan = plan,
                              ![j].budget = budget, ![j].started = clock]
    /\ Emit(j, <<Plain("plan_updated")>>)
    /\ UNCHANGED <<clock, reader>>

\* The planner raised; the job has no report then, which reads as an empty one.
PlanFails(j) ==
    /\ job[j].state = "queued"
    /\ ThreadFree
    /\ job' = [job EXCEPT ![j].state = "failed"]
    /\ Emit(j, <<Plain("internal_error")>>)
    /\ UNCHANGED <<clock, reader>>

\* Mutant of Exhausted: a limit is exceeded only when it is passed.
ExhaustedWhenPassed(j) ==
    LET b == job[j].budget IN
        \/ job[j].steps > b.max_steps
        \/ clock - job[j].started >= b.max_duration
        \/ job[j].calls > b.max_tool_calls

\* BudgetTracker.check
Exhausted(j) ==
    LET b == job[j].budget IN
        \/ job[j].steps >= b.max_steps
        \/ clock - job[j].started >= b.max_duration
        \/ job[j].calls >= b.max_tool_calls

\* At the head of the loop over the plan's steps.
BeforeStep(j) ==
    /\ job[j].state = "running"
    /\ ~job[j].open
    /\ job[j].next <= Len(job[j].plan)

BeginStep(j) ==
    /\ BeforeStep(j)
    /\ ~Exhausted(j)
    /\ job' = [job EXCEPT ![j].open = TRUE]
    /\ Emit(j, <<OfStep("step_started", job[j].next)>>)
    /\ UNCHANGED <<clock, reader>>

\* The part of a sequence at the positions of a set, in order.
Picked(s, positions) ==
    LET upTo[n \in 0..Len(s)] ==
            IF n = 0 THEN <<>>
            ELSE IF n \in positions THEN Append(upTo[n - 1], s[n]) ELSE upTo[n - 1]
    IN  upTo[Len(s)]

OfType(s, type) == {i \in DOMAIN s : s[i].type = type}

CitedDocs(s) ==
    LET cited == Picked(s, OfType(s, "citation"))
    IN [i \in DOMAIN cited |-> cited[i].doc]

ChunksOf(s) ==
    LET chunks == Picked(s, OfType(s, "report_chunk"))
    IN [i \in DOMAIN chunks |-> chunks[i].step]

\* Mutant of PartialReport: all that was retrieved counts as cited.
PartialReportOfDocs(j) == [citations |-> job[j].docs,
                           chunks |-> ChunksOf(events[j]), partial |-> TRUE]

\* What was gathered so far is read back from the event buffer.
PartialReport(j) == [citations |-> CitedDocs(events[j]),
                     chunks |-> ChunksOf(events[j]), partial |-> TRUE]

BudgetExceeded(j) ==
    /\ BeforeStep(j)
    /\ Exhausted(j)
    /\ job' = [job EXCEPT ![j].state = "budget_exceeded",
                          ![j].report = PartialReport(j)]
    /\ Emit(j, <<Plain("budget_exceeded")>>)
    /\ UNCHANGED <<clock, reader>>

\* The hits of a search, or the one document the fallback makes up.
Hits == {h \in BoundedSeq(Docs, NumResults) : IsInjective(h)} \cup {<<Simulated>>}

LastDocs(docs) == SubSeq(docs, Max({1, Len(docs) - ReadWindow + 1}), Len(docs))

\* _execute_step: what a step of each type finds, cites and writes.
Results(j, type) == IF type = "retrieval" THEN Hits ELSE {<<>>}

\* Mutant of Citations: with nothing to read, a citation of nothing.
CitationsOfNothing(j, type) ==
    IF type = "read" THEN IF job[j].docs = <<>> THEN <<NoDoc>>
                                                ELSE LastDocs(job[j].docs)
                     ELSE <<>>

Citations(j, type) == IF type = "read" THEN LastDocs(job[j].docs) ELSE <<>>

Chunk(i, type) == IF type = "retrieval" THEN <<>> ELSE <<i>>

\* Mutant of CompleteStep: the step's end is told before what it found.
CompleteStepThenTell(j) ==
    LET i == job[j].next
        type == job[j].plan[i]
        cites == Citations(j, type)
        chunk == Chunk(i, type)
    IN
    /\ job[j].open
    /\ \E found \in Results(j, type) :
           job' = [job EXCEPT ![j].open = FALSE,
                              ![j].next = @ + 1,
                              ![j].calls = @ + 1,
                              ![j].steps = @ + 1,
                              ![j].docs = @ \o found,
                              ![j].citations = @ \o cites,
                              ![j].chunks = @ \o chunk]
    /\ Emit(j, <<OfStep("step_completed", i)>>
                   \o [k \in DOMAIN cites |-> Cites(cites[k], i)]
                   \o [k \in DOMAIN chunk |-> OfStep("report_chunk", i)])
    /\ UNCHANGED <<clock, reader>>

CompleteStep(j) ==
    LET i == job[j].next
        type == job[j].plan[i]
        cites == Citations(j, type)
        chunk == Chunk(i, type)
    IN
    /\ job[j].open
    /\ \E found \in Results(j, type) :
           job' = [job EXCEPT ![j].open = FALSE,
                              ![j].next = @ + 1,
                              ![j].calls = @ + 1,
                              ![j].steps = @ + 1,
                              ![j].docs = @ \o found,
                              ![j].citations = @ \o cites,
                              ![j].chunks = @ \o chunk]
    /\ Emit(j, [k \in DOMAIN cites |-> Cites(cites[k], i)]
                   \o [k \in DOMAIN chunk |-> OfStep("report_chunk", i)]
                   \o <<OfStep("step_completed", i)>>)
    /\ UNCHANGED <<clock, reader>>

\* A step of these types cuts up its description, which a plan from the
\* language model may leave null; a retrieval does so in its fallback.
MayRaise == {"sub_query", "retrieval"}

\* The exception leaves the executor after the tool call was counted and
\* before anything is told: the job ends with its step open.
StepRaises(j) ==
    /\ job[j].open
    /\ job[j].plan[job[j].next] \in MayRaise
    /\ job' = [job EXCEPT ![j].state = "failed", ![j].open = FALSE,
                          ![j].calls = @ + 1, ![j].report = EmptyReport]
    /\ Emit(j, <<Plain("internal_error")>>)
    /\ UNCHANGED <<clock, reader>>

\* The loop is over: no budget is checked any more.
PlanDone(j) == job[j].state = "running" /\ job[j].next > Len(job[j].plan)

FullReport(j) == [citations |-> job[j].citations, chunks |-> job[j].chunks,
                  partial |-> FALSE]

\* Mutant of JobSucceeds: the done event is forgotten.
JobSucceedsSilently(j) ==
    /\ PlanDone(j)
    /\ job' = [job EXCEPT ![j].state = "succeeded", ![j].report = FullReport(j)]
    /\ UNCHANGED <<clock, reader, events, emitted, counter, terminalAt, lastAt>>

JobSucceeds(j) ==
    /\ PlanDone(j)
    /\ job' = [job EXCEPT ![j].state = "succeeded", ![j].report = FullReport(j)]
    /\ Emit(j, <<Plain("done")>>)
    /\ UNCHANGED <<clock, reader>>

\* The request's output_schema wants a field the report has not: the report
\* is dropped, although its parts were told.
SchemaUnmet(j) ==
    /\ PlanDone(j)
    /\ job' = [job EXCEPT ![j].state = "failed", ![j].report = EmptyReport]
    /\ Emit(j, <<Plain("internal_error")>>)
    /\ UNCHANGED <<clock, reader>>

-----------------------------------------------------------------------------
(* Readers, retention, time                                                *)

Over(j) == job[j].state \in {"succeeded", "failed", "budget_exceeded"}

\* Mutant of Replay: the event the reader has is sent again.
ReplayInclusive(j, lastId) ==
    Picked(events[j], {i \in DOMAIN events[j] : events[j][i].id >= lastId})

\* EventBuffer.replay with the header Last-Event-ID, or without one.
Replay(j, lastId) ==
    Picked(events[j], {i \in DOMAIN events[j] : events[j][i].id > lastId})

LastEventId(c) == IF reader[c].got = <<>> THEN 0 ELSE Last(reader[c].got).id

\* GET .../events: the reader takes in the first n events of the response.
ReadEvents(c) ==
    LET response == Replay(reader[c].job, LastEventId(c)) IN
    /\ Over(reader[c].job)
    /\ ThreadFree
    /\ \E n \in 1..Len(response) :
           reader' = [reader EXCEPT ![c].got = @ \o SubSeq(response, 1, n)]
    /\ UNCHANGED <<clock, job, events, terminalAt, counter, emitted, lastAt>>

\* cleanup_expired, called by nothing in the repository.
Expired(j) == terminalAt[j] # NoTime /\ clock - terminalAt[j] > Retention

CleanupExpired ==
    LET expired == {j \in Jobs : Expired(j)} IN
    /\ expired # {}
    /\ events' = [j \in Jobs |-> IF j \in expired THEN <<>> ELSE events[j]]
    /\ terminalAt' = [j \in Jobs |-> IF j \in expired THEN NoTime ELSE terminalAt[j]]
    /\ UNCHANGED <<clock, job, counter, reader, emitted, lastAt>>

Tick ==
    /\ clock < MaxTime
    /\ clock' = clock + 1
    /\ UNCHANGED <<job, events, terminalAt, counter, reader, emitted, lastAt>>

\* Every job has ended and every reader has what there is.
Finished ==
    /\ clock = MaxTime
    /\ \A j \in Jobs : Over(j)
    /\ UNCHANGED vars

Next ==
    \/ \E j \in Jobs :
           \/ StartJob(j) \/ PlanFails(j)
           \/ BeginStep(j) \/ BudgetExceeded(j)
           \/ CompleteStep(j) \/ StepRaises(j)
           \/ JobSucceeds(j) \/ SchemaUnmet(j)
    \/ \E c \in Readers : ReadEvents(c)
    \/ CleanupExpired
    \/ Tick
    \/ Finished

Spec == Init /\ [][Next]_vars

-----------------------------------------------------------------------------
(* Properties                                                              *)

\* The stream of every job, as ever emitted, keeps what EventStream promises:
\* it starts with the plan, tells each step's findings inside that step, in
\* the plan's order, numbers its events without a gap and ends once; only an
\* error inside a step leaves that step open.
Stream == INSTANCE EventStream WITH stream <- emitted

StreamImplemented == Stream!Spec

\* A job's state and the end of its stream tell the same (R7.3, R7.6), also
\* for the job that fails inside a step or after its last one.
StateMatchesStream ==
    \A j \in Jobs :
        /\ Over(j) = Stream!Ended(emitted[j])
        /\ Over(j) =>
               Last(emitted[j]).type = CASE job[j].state = "succeeded" -> "done"
                                         [] job[j].state = "failed" -> "internal_error"
                                         [] OTHER -> job[j].state

\* The report of a job that succeeded, which the executor collects, and that
\* of a job out of budget, which is read back from the buffer, both hold all
\* that the stream told and nothing else, in order; only the first is whole.
ReportMatchesStream ==
    \A j \in Jobs : job[j].state \in {"succeeded", "budget_exceeded"} =>
        /\ job[j].report.citations = CitedDocs(emitted[j])
        /\ job[j].report.chunks = ChunksOf(emitted[j])
        /\ job[j].report.partial = (job[j].state = "budget_exceeded")

StepsStarted(j) == Cardinality(OfType(emitted[j], "step_started"))

\* No job starts more steps than its budgets of steps and tool calls allow, nor
\* any after its duration; and one that is stopped has steps left to do, so a
\* budget that is just enough lets the plan finish (R7.6).
BudgetDecides ==
    \A j \in Jobs :
        /\ StepsStarted(j) > 0 =>
               /\ StepsStarted(j) <= job[j].budget.max_steps
               /\ StepsStarted(j) <= job[j].budget.max_tool_calls
               /\ lastAt[j]["step_started"] - job[j].started
                      < job[j].budget.max_duration
        /\ job[j].state = "budget_exceeded" =>
               StepsStarted(j) < Len(job[j].plan)

\* What a reader has put together from any number of connections, each resumed
\* after the last event it had, is the stream so far: nothing twice, no gap.
ReadersHavePrefix ==
    \A c \in Readers : IsPrefix(reader[c].got, emitted[reader[c].job])

\* "IF a research job exceeds its max_steps, max_duration_ms, or
\* max_tool_calls budget [...] THEN THE Research_Agent SHALL terminate the job
\* with a terminal error event using stable code budget_exceeded" (R7.6).
OverrunIsReported ==
    \A j \in Jobs : job[j].state = "succeeded" =>
        lastAt[j]["done"] - job[j].started <= job[j].budget.max_duration
=============================================================================
