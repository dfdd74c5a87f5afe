CONSTANTS
    MainLength = 2
    Searches <- MCSearches
    MaxResults = 2
    RequestNames = {"req"}
    Names = {"a", "b", "p", "q", "req", "m"}
    Parts = {"x", "y"}
    MaxCalls = 3
SPECIFICATION Spec
INVARIANTS TruncationIsHonest RawFlowsPastWholeGuardsReported
CHECK_DEADLOCK FALSE
