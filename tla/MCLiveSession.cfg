SPECIFICATION Spec
CONSTANTS
    None = None
    MaxReconnects = 1
    MaxDepth = 2
    MaxRequests = 2
    MaxCalls = 1
INVARIANTS
    TypeOK
    SaidOnceInOrder
PROPERTY
    AcceptedIsTaken
CHECK_DEADLOCK FALSE
