SPECIFICATION PSpec
CONSTANTS
    Id = {i}
    Null = null
    Absent = absent
    Lines <- OneOfEach
    MaxLines = 2
CHECK_DEADLOCK FALSE
INVARIANT SurvivesBadLines
