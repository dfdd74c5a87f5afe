CONSTANTS
    Kinds = {"step", "if", "loop", "try", "return", "throw", "break", "continue"}
    MaxOperations = 4
    Frontend = "compiler"
    Indexes = {0, 1}
    Scopes = {"", "if", "else"}
    MaxCalls = 4
    Counters = {"i", "n"}
    Flags = {"flag"}
    Numbers = {0, 3}
    Bound = 6
    MaxStatements = 3
SPECIFICATION Spec
INVARIANTS   EnforcedUsesAreValid ReadsFindTheirElement DecidedBranchesAreConstant
CHECK_DEADLOCK FALSE
