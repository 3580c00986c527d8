SPECIFICATION PrSpec
CONSTANTS
    a = a
    b = b
    here = here
    there = there
    cli = cli
    ci = ci
    None = None
    Malformed = Malformed
    Value = {here, there}
    DbPath = {here, there}
    Size = {there}
    Default <- Defaults
    Proc = {cli, ci}
    Jobs <- Configs
    File = {a, b}
    Inputs <- AllInputs
    UserText <- Written
    MaxEdits = 0
    MaxStops = 0
    MaxRows = 1
INVARIANT NeverClobbers
