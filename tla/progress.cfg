SPECIFICATION SearchingSpec
CONSTANTS
    a = a
    b = b
    other = other
    c1 = c1
    c2 = c2
    bin = bin
    cli = cli
    server = server
    None = None
    Path = {a}
    Source = {a}
    Configured = {a}
    Guarded = {a}
    Content = {c1, bin}
    Text = {c1}
    Matching = {c1}
    ChunkCount <- Counts
    MaxMoves = 2
    MtimeOf <- Distinct
    Worker = {cli, server}
    Hasty = {cli, server}
    Mortal = {}
    Rank <- RankByName
    Limit = 1
    Jobs <- IndexAndSearch
INVARIANT AnswerFresh
PROPERTY JobsEnd
PROPERTY SearchHeals
