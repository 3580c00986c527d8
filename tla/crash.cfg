SPECIFICATION Spec
CONSTANTS
    a = a
    b = b
    other = other
    c1 = c1
    c2 = c2
    bin = bin
    cli = cli
    server = server
    None = None
    Path = {a}
    Source = {a}
    Configured = {a}
    Guarded = {a}
    Content = {c1, c2}
    Text = {c1, c2}
    Matching = {c1, c2}
    ChunkCount <- Counts
    MaxMoves = 2
    MtimeOf <- Distinct
    Worker = {cli, server}
    Hasty = {server}
    Mortal = {cli}
    Rank <- RankByName
    Limit = 1
    Jobs <- SharedJobs
INVARIANT NoTornFile
INVARIANT HashMeansFresh
PROPERTY RowsAdvance
PROPERTY ImplementsAtomicIndex
