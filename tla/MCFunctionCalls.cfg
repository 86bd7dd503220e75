SPECIFICATION Spec
CONSTANTS
    N = 3
    MaxWorkers = 2
INVARIANTS
    TypeOK
    PermitsConserved
    EveryCallAnswered
    NothingRunsOn
PROPERTY
    HandlerEnds
