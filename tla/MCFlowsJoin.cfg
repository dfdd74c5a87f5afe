CONSTANTS
    Kinds = {"step", "if", "return"}
    MaxOperations = 4
    Frontend = "parsers"
    Indexes = {0, 1}
    Scopes = {"", "if", "else"}
    MaxCalls = 4
    Counters = {"i", "n"}
    Flags = {"flag"}
    Numbers = {0, 3}
    Bound = 6
    MaxStatements = 3
SPECIFICATION Spec
INVARIANT UnreachableIsDead
CHECK_DEADLOCK FALSE
