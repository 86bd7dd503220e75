SPECIFICATION Spec
CONSTANTS
    None = None
    MaxReconnects = 1
    MaxDepth = 1
    MaxRequests = 1
    MaxCalls = 1
PROPERTY
    CloseEnds
CHECK_DEADLOCK FALSE
