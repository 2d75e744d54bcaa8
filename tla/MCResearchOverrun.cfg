CONSTANTS
    Jobs = {j1, j2}
    Readers = {c1}
    Docs = {d1}
    Simulated = Simulated
    NoDoc = NoDoc
    Plans <- PlanSet
    Budgets <- BudgetSet
    NumResults = 1
    ReadWindow = 2
    Retention = 1
    Threads = 1
    MaxTime = 3
SPECIFICATION Spec
INVARIANT OverrunIsReported
