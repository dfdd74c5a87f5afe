CONSTANTS
    MainLength = 2
    Reassigned = FALSE
    Programs <- MCAnalyses
    Requests <- MCRequests
    Names = {"a", "b", "p", "q", "req", "m"}
    Parts = {"x", "y"}
    MaxCalls = 3
    Declared <- MCDeclared
    Calls <- MCCalls
    MaxFunctions = 4
SPECIFICATION MCSpec
INVARIANTS ReachableSinksAreAll ExplanationsAgree BackwardShowsWholeFlows TypedCallsReachTheirClass
PROPERTIES StrangersChangeNothing
CHECK_DEADLOCK FALSE
