SPECIFICATION Spec
CONSTANTS
    a = a
    b = b
    other = other
    c1 = c1
    c2 = c2
    bin = bin
    cli = cli
    server = server
    None = None
    Path = {a}
    Source = {a}
    Configured = {a}
    Guarded = {}
    Content = {c1, c2}
    Text = {c1, c2}
    Matching = {c1, c2}
    ChunkCount <- Counts
    MaxMoves = 2
    MtimeOf <- Distinct
    Worker = {server}
    Hasty = {}
    Mortal = {}
    Rank <- RankByName
    Limit = 1
    Jobs <- AllJobs
INVARIANT DeletedNotReturned
