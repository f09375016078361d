SPECIFICATION WiringSpec
CHECK_DEADLOCK FALSE
CONSTANTS
    A = A
    B = B
    C = C
    None = None
    Programs <- MCPrograms
    ModuleOrder <- MCModuleOrder
    MaxCommits = 2
INVARIANTS
    InProcessPoliciesHear
