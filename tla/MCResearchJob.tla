---------------------------- MODULE MCResearchJob ----------------------------
(* Two jobs: plans that cite and plans that only write, with budgets that  *)
(* stop a plan before its last step or are just enough for it.             *)
EXTENDS ResearchJob, TLC

PlanSet == {<<"retrieval", "read", "synthesis">>}

Limits(s, d, c) == [max_steps |-> s, max_duration |-> d, max_tool_calls |-> c]

BudgetSet == {Limits(3, 2, 3), Limits(3, 3, 2)}

Alike == Permutations(Jobs)
=============================================================================
