SPECIFICATION RSpec
CONSTANTS
    FilePath = {1, 2}
    Span <- Spans
    Score = {1, 2}
    MaxRows = 3
    Budgets = {3}
    Limits = {2, 3}
CHECK_DEADLOCK FALSE
INVARIANT RTypeOK
INVARIANT NoPartialOverlap
INVARIANT NothingLost
INVARIANT LongestPrefix
