SPECIFICATION Spec
CONSTANTS
    a = a
    b = b
    other = other
    c1 = c1
    c2 = c2
    bin = bin
    cli = cli
    server = server
    None = None
    Path = {a, b, other}
    Source = {a, b, other}
    Configured = {a, b}
    Guarded = {a}
    Content = {c2, bin}
    Text = {c2}
    Matching = {c2}
    ChunkCount <- Counts
    MaxMoves = 2
    MtimeOf <- Distinct
    Worker = {cli}
    Hasty = {}
    Mortal = {}
    Rank <- RankByName
    Limit = 1
    Jobs <- OneJobEach
INVARIANT TypeOK
INVARIANT IndexMirrorsDisk
INVARIANT TotalsAgree
INVARIANT AnswerFresh
PROPERTY UnchangedNotWritten
