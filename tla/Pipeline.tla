------------------------------ MODULE Pipeline ------------------------------
(* The pipelines of the tenants (backend/pipeline_engine): definitions are *)
(* created against the registry of steps and run on a candidate set, one   *)
(* step after the other with its output as the next one's input, filters   *)
(* before rerankers before transforms.  A step that takes too long is      *)
(* waited for and its output dropped.  A step has a configuration or none; *)
(* a result is a record of what the built-in steps look at: url, domain,   *)
(* age, lang, score, cred.                                                 *)
EXTENDS Integers, Sequences, SequencesExt, FiniteSets

CONSTANTS
    PipelineTenants,
    StepNames,          \* names a definition may ask for, known or not
    CandidateSets,      \* sequences of results to run pipelines on
    MaxSteps,           \* steps of a definition, at most (20)
    MaxPipelines,       \* bound: definitions created
    MaxScore,           \* 1.0
    MaxAge, Languages, Domains,     \* what the filters are configured with
    Boost, Weight,                  \* what the rerankers are, Weight of MaxScore
    DedupField                      \* what dedup_transform is

\* What the steps look at of a result.
Result == [url : STRING, domain : STRING, age : Int, lang : STRING,
           score : Int, cred : Int]

ASSUME PipelineAssumption ==
    /\ CandidateSets \subseteq Seq(Result)
    /\ MaxSteps \in Nat \ {0} /\ MaxPipelines \in Nat /\ MaxScore \in Nat \ {0}
    /\ MaxAge \in Nat /\ Boost \in Nat /\ Weight \in 0..MaxScore
    /\ DedupField \in {"url", "language", "no field"}

VARIABLES
    pipelines,      \* PipelineService._pipelines, an id being the position
    run             \* the execution under way or over

pipelineVars == <<pipelines, run>>

-----------------------------------------------------------------------------
(* The registry.                                                           *)

Filters == {"domain_filter", "freshness_filter", "language_filter"}
Rerankers == {"score_reranker", "credibility_reranker", "reciprocal_rank_reranker"}
Transforms == {"title_transform", "snippet_transform", "dedup_transform"}

Registered == Filters \cup Rerankers \cup Transforms

\* A step of a definition: a name, and whether its config says anything.
StepsOf(names) == [name : names, configured : BOOLEAN]

\* Without a config filters pass all on, score_reranker returns its input as it
\* is, unsorted, and the other rerankers and dedup_transform have defaults.
Filtering(step) == step.name \in Filters /\ step.configured

Reranking(step) ==
    step.name \in Rerankers /\ (step.name = "score_reranker" => step.configured)

Deduplicating(step) == step.name = "dedup_transform"

\* Results without a publication date (age -1) or a language ("") pass.
Keeps(name, r) ==
    CASE name = "domain_filter" -> r.domain \in Domains
      [] name = "freshness_filter" -> r.age <= MaxAge
      [] name = "language_filter" -> r.lang = "" \/ r.lang \in Languages

Capped(n) == IF n > MaxScore THEN MaxScore ELSE n

\* The score a reranker gives the result at place i.
NewScore(name, r, i) ==
    CASE name = "score_reranker" ->
            IF r.domain \in Domains THEN Capped(r.score * Boost) ELSE r.score
      [] name = "credibility_reranker" ->
            Capped(((MaxScore - Weight) * r.score + Weight * r.cred) \div MaxScore)
      [] name = "reciprocal_rank_reranker" -> MaxScore \div (1 + i)

Earlier(i, key) ==
    {j \in DOMAIN key : key[j] < key[i] \/ (key[j] = key[i] /\ j < i)}

\* A stable sort: the entries of s by their keys, equal ones as they are.
StableSort(s, key) ==
    [k \in DOMAIN s |-> s[CHOOSE i \in DOMAIN s : Cardinality(Earlier(i, key)) = k - 1]]

\* What s has at these places, in its order.
Taken(s, places) ==
    [k \in 1..Cardinality(places) |->
        s[CHOOSE i \in places : Cardinality({j \in places : j < i}) = k - 1]]

Rescored(name, rs) ==
    LET r == [i \in DOMAIN rs |-> [rs[i] EXCEPT !.score = NewScore(name, rs[i], i)]]
    IN StableSort(r, [i \in DOMAIN r |-> -r[i].score])

FieldOf(r, field) ==
    CASE field = "url" -> r.url [] field = "language" -> r.lang [] field = "no field" -> ""

FieldFor(step) == IF step.configured THEN DedupField ELSE "url"

\* dedup_transform: the first result of each value of the field.
FirstOfEach(field, rs) ==
    Taken(rs, {i \in DOMAIN rs : \A j \in DOMAIN rs :
                  j < i => FieldOf(rs[j], field) # FieldOf(rs[i], field)})

\* title_transform changes titles only and snippet_transform nothing.
Apply(step, rs) ==
    CASE Filtering(step) -> Taken(rs, {i \in DOMAIN rs : Keeps(step.name, rs[i])})
      [] Reranking(step) -> Rescored(step.name, rs)
      [] Deduplicating(step) -> FirstOfEach(FieldFor(step), rs)
      [] OTHER -> rs

TypeOrder(step) ==
    CASE step.name \in Filters -> 0 [] step.name \in Rerankers -> 1 [] OTHER -> 2

\* has_explicit_type_ordering and apply_type_ordering, as the places of the
\* steps in the order they are executed.
InTypeOrder(steps) ==
    \A i \in DOMAIN steps \ {1} : TypeOrder(steps[i - 1]) <= TypeOrder(steps[i])

AsDeclared(steps) == [i \in DOMAIN steps |-> i]

Ordered(steps) ==
    IF InTypeOrder(steps) THEN AsDeclared(steps)
    ELSE StableSort(AsDeclared(steps), [i \in DOMAIN steps |-> TypeOrder(steps[i])])

-----------------------------------------------------------------------------

NoRun == [at |-> "none"]

PipelineInit == pipelines = <<>> /\ run = NoRun

\* create_pipeline: none, too many or unknown steps are refused.
CreatePipeline(t, steps) ==
    /\ Len(pipelines) < MaxPipelines
    /\ steps # <<>> /\ Len(steps) <= MaxSteps
    /\ ToSet(steps) \subseteq StepsOf(Registered)
    /\ pipelines' = Append(pipelines, [tenant |-> t, steps |-> steps, kept |-> TRUE])
    /\ UNCHANGED run

\* get_pipeline: a missing and a foreign pipeline look alike.
Owned(p, t) == p \in DOMAIN pipelines /\ pipelines[p].kept /\ pipelines[p].tenant = t

DeletePipeline(p, t) ==
    /\ Owned(p, t)
    /\ pipelines' = [pipelines EXCEPT ![p].kept = FALSE]
    /\ UNCHANGED run

\* execute takes the definition and a copy of the candidates.
Execute(p, t, candidates) ==
    /\ run.at = "none"
    /\ Owned(p, t)
    /\ run' = [at |-> "step", tenant |-> t, pipeline |-> p, input |-> candidates,
               todo |-> Ordered(pipelines[p].steps), trace |-> <<>>]
    /\ UNCHANGED pipelines

\* What there is after the first n steps of the execution.
ResultsAfter(r, n) == IF n = 0 THEN r.input ELSE r.trace[n].results

Results == ResultsAfter(run, Len(run.trace))

InStep == run.at = "step" /\ run.todo # <<>>

StepEnds(effect, results) ==
    /\ run' = [run EXCEPT !.todo = Tail(@),
                          !.trace = Append(@, [place |-> Head(run.todo), effect |-> effect,
                                               results |-> results])]
    /\ UNCHANGED pipelines

NextStep == pipelines[run.pipeline].steps[Head(run.todo)]

StepReturns == InStep /\ StepEnds(TRUE, Apply(NextStep, Results))

StepTimesOutLate == InStep /\ StepEnds(FALSE, Apply(NextStep, Results))

\* The timeout passes; the executor still waits for the thread, then goes on
\* with the step's input and a warning.
StepTimesOut == InStep /\ StepEnds(FALSE, Results)

\* An exception of a step ends the execution.
StepRaises ==
    /\ InStep
    /\ run' = [run EXCEPT !.at = "raised"]
    /\ UNCHANGED pipelines

ExecutionReturns ==
    /\ run.at = "step" /\ run.todo = <<>>
    /\ run' = [run EXCEPT !.at = "returned"]
    /\ UNCHANGED pipelines

PipelineNext ==
    \/ \E t \in PipelineTenants, n \in 0..MaxSteps :
           \E steps \in [1..n -> StepsOf(StepNames)] : CreatePipeline(t, steps)
    \/ \E p \in DOMAIN pipelines, t \in PipelineTenants :
           \/ DeletePipeline(p, t)
           \/ \E candidates \in CandidateSets : Execute(p, t, candidates)
    \/ StepReturns \/ StepTimesOut \/ StepRaises \/ ExecutionReturns

PipelineSpec == PipelineInit /\ [][PipelineNext]_pipelineVars

-----------------------------------------------------------------------------

PipelineTypeOK ==
    /\ \A p \in DOMAIN pipelines : pipelines[p].steps \in Seq(StepsOf(Registered))
    /\ run.at \in {"none", "step", "raised", "returned"}

\* The steps that had an effect.
Ran(r, steps) == {steps[r.trace[k].place] : k \in {l \in DOMAIN r.trace : r.trace[l].effect}}

\* Filters before rerankers before transforms, and otherwise as declared (R9.4).
ComesBefore(i, j, steps) ==
    \/ TypeOrder(steps[i]) < TypeOrder(steps[j])
    \/ TypeOrder(steps[i]) = TypeOrder(steps[j]) /\ i < j

\* An execution of a tenant's own pipeline, whichever steps time out
\* (R9.3-R9.7).  Its steps are executed in the order R9.4 asks for, every one
\* once in the end, and one that timed out leaves the results as they were.
\* They are results of the candidates and no others, all passing every filter
\* that ran, wherever it was declared; in the order of the scores once a
\* reranker ran (score_reranker without a config is none); one of each url, or
\* of the field asked for, once dedup_transform ran.
PipelineSound ==
    run.at \in {"step", "returned"} =>
        LET steps == pipelines[run.pipeline].steps  results == Results IN
        /\ pipelines[run.pipeline].tenant = run.tenant
        /\ \A i, j \in DOMAIN run.trace :
               i < j => ComesBefore(run.trace[i].place, run.trace[j].place, steps)
        /\ run.at = "returned" => Len(run.trace) = Len(steps)
        /\ \A k \in DOMAIN run.trace :
               run.trace[k].effect \/ ResultsAfter(run, k) = ResultsAfter(run, k - 1)
        /\ \A i \in DOMAIN results : \E j \in DOMAIN run.input :
               [results[i] EXCEPT !.score = run.input[j].score] = run.input[j]
        /\ \A s \in Ran(run, steps) :
               /\ Filtering(s) => \A i \in DOMAIN results : Keeps(s.name, results[i])
               /\ Reranking(s) => \A i \in DOMAIN results \ {1} :
                      results[i - 1].score >= results[i].score
               /\ Deduplicating(s) =>
                      Cardinality({FieldOf(results[i], FieldFor(s)) : i \in DOMAIN results})
                          = Len(results)

\* No execution is between two steps.
PipelineQuiet == run.at # "step"
=============================================================================
