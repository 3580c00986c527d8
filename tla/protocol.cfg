SPECIFICATION PSpec
CONSTANTS
    Id = {i}
    Null = null
    Absent = absent
    Lines <- OneOfEach
    MaxLines = 2
CHECK_DEADLOCK FALSE
INVARIANT PTypeOK
INVARIANT RefusedChangesNothing
INVARIANT MetricOfLastSearch
PROPERTY ImplementsJsonRpc
PROPERTY EveryRequestAnswered
