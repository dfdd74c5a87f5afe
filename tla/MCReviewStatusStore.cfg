CONSTANTS
    o = o
    Item = {1, 2, 3}
    Finding = {3}
    Old = {o}
    LegacyIds <- MCLegacyIds
    Initial <- MCInitial
    Imports <- MCImports
    Found <- MCFound
    MaxCode = 2
    Retention = 1
    MaxDay = 2
    MaxEvents = 3
SPECIFICATION FairSpec
INVARIANTS NoStaleDecision
PROPERTIES StaleDecisionsAreReopened
CHECK_DEADLOCK FALSE
