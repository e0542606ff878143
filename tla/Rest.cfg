SPECIFICATION Spec
CONSTANTS
    Posts <- MCPosts
    Variables = {"x", "y"}
    MaxContentLength <- MCMaxContentLength
    MaxBatchSize = 2
    PlaceholderLength = 5
    Ids = {n1, n2, n3}
    Filters = {"all", "channel", "status"}
    Stops = {"total", "short"}
    Pages = {0, NoInt, 64, 129}
    Sizes = {NoInt, 2}
    NoInt = NoInt
    MaxInt = 127
SYMMETRY Symmetry
INVARIANTS TemplateMeaning AllOrNothing ContentWithinLimit ClientErrorsAre4xx
INVARIANTS NoneSkipped FullPages WrongOnlyFarAway
\* One request and its answer, or one walk.
CHECK_DEADLOCK FALSE
