SPECIFICATION Spec
CONSTANTS
    Addrs = {1, 2}
    Vols = {0, 1}
    Kinds <- MCKinds
    Calls = {"open", "read", "write", "show"}
    Budgets <- MCBudgets
    Tracks = 2
INVARIANTS PassedIsDone SameMedium NoLateWrite ReadyWhenStill
CHECK_DEADLOCK FALSE
