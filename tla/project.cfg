SPECIFICATION PrFairSpec
CONSTANTS
    a = a
    b = b
    here = here
    there = there
    cli = cli
    ci = ci
    None = None
    Malformed = Malformed
    Value = {here, there}
    DbPath = {here, there}
    Size = {there}
    Default <- Defaults
    Proc = {cli, ci}
    Jobs <- Roles
    File = {a, b}
    Inputs <- AllInputs
    UserText <- Edits
    MaxEdits = 1
    MaxStops = 1
    MaxRows = 1
INVARIANT PrTypeOK
INVARIANT MetaHasRows
INVARIANT TotalFilesCovered
INVARIANT StatusCovers
INVARIANT RowsWhole
INVARIANT ConfigSetsOneKey
INVARIANT InitKeeps
INVARIANT IngestAgrees
PROPERTY InitRecovers
