SPECIFICATION Spec
CONSTANTS
    a = a
    b = b
    other = other
    c1 = c1
    c2 = c2
    bin = bin
    cli = cli
    server = server
    None = None
    Path = {a, other}
    Source = {a}
    Configured = {a}
    Guarded = {a}
    Content = {c1, c2}
    Text = {c1, c2}
    Matching = {c1, c2}
    ChunkCount <- Counts
    MaxMoves = 1
    MtimeOf <- Distinct
    Worker = {cli, server}
    Hasty = {}
    Mortal = {}
    Rank <- RankByName
    Limit = 1
    Jobs <- SharedJobs
INVARIANT EvictionFinishes
INVARIANT AnswerFresh
