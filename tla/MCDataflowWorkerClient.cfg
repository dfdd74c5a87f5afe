CONSTANTS
    f1 = f1
    File = {f1}
    Call <- MCCall
    Ops <- MCOps
    FailingKinds = {"initializeWorkspace", "updateFile"}
    MaxLosses = 2
SPECIFICATION FairSpec
INVARIANTS ReplayBarrier NothingForgotten NoStaleContent
PROPERTIES EveryCallSettles
CHECK_DEADLOCK FALSE
