----------------------------- MODULE EventStream -----------------------------
(* What the event stream of a research job promises to its readers,        *)
(* whoever writes it: a stream only grows, it is well formed at every      *)
(* moment, and nothing follows its terminal event.  ResearchJob is shown   *)
(* to implement it.                                                        *)
EXTENDS Integers, Sequences, SequencesExt

CONSTANT Jobs

VARIABLE stream     \* [Jobs -> Seq(Event)]

Terminal == {"done", "budget_exceeded", "internal_error"}

Marks == {"step_started", "step_completed"}

Findings == {"citation", "report_chunk"}

Ended(s) == s # <<>> /\ Last(s).type \in Terminal

\* Event ids count from one without a gap.
Numbered(s) == \A i \in DOMAIN s : s[i].id = i

\* The plan comes first; a job that could not be planned has one event only.
PlanFirst(s) ==
    s # <<>> =>
        \/ s[1].type = "plan_updated"
        \/ Len(s) = 1 /\ s[1].type = "internal_error"

MarksBefore(s, k) == {m \in 1..(k - 1) : s[m].type \in Marks}

\* The mark that follows another: the end of the step, or the start of the next.
Follows(mark, before) ==
    \/ before.type = "step_started"
          /\ mark.type = "step_completed" /\ mark.step = before.step
    \/ before.type = "step_completed"
          /\ mark.type = "step_started" /\ mark.step = before.step + 1

\* Steps are started and completed one after the other, in the plan's order.
Alternating(s) ==
    \A k \in DOMAIN s : s[k].type \in Marks =>
        \/ MarksBefore(s, k) = {} /\ s[k].type = "step_started" /\ s[k].step = 1
        \/ \E m \in MarksBefore(s, k) :
               /\ \A n \in MarksBefore(s, k) : n <= m
               /\ Follows(s[k], s[m])

\* What a step finds is told between the start of the step and its end.
FoundInsideStep(s) ==
    \A i \in DOMAIN s : s[i].type \in Findings =>
        /\ \E k \in 1..(i - 1) :
               s[k].type = "step_started" /\ s[k].step = s[i].step
        /\ \A k \in 1..(i - 1) :
               ~(s[k].type = "step_completed" /\ s[k].step = s[i].step)

\* What an end may follow: no step is open, or the step that was started has
\* told nothing yet and the end is an error.
EndFollows(end, before) ==
    \/ before.type \in {"plan_updated", "step_completed"}
    \/ before.type = "step_started" /\ end.type = "internal_error"

\* One terminal event, the last, where the stream may end.
TerminalLast(s) ==
    \A i \in DOMAIN s : s[i].type \in Terminal =>
        /\ i = Len(s)
        /\ i > 1 => EndFollows(s[i], s[i - 1])

WellFormed(s) ==
    /\ Numbered(s)
    /\ PlanFirst(s)
    /\ Alternating(s)
    /\ FoundInsideStep(s)
    /\ TerminalLast(s)

Init == stream = [j \in Jobs |-> <<>>]

Extend(j) ==
    /\ ~Ended(stream[j])
    /\ stream' = [stream EXCEPT ![j] = stream'[j]]
    /\ IsStrictPrefix(stream[j], stream'[j])
    /\ WellFormed(stream'[j])

Next == \E j \in Jobs : Extend(j)

Spec == Init /\ [][Next]_stream
=============================================================================
