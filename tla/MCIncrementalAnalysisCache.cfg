CONSTANTS
    a = a
    b = b
    c = c
    a1 = a1
    a2 = a2
    b1 = b1
    c1 = c1
    File = {a, b, c}
    FunctionId = {a1, a2, b1, c1}
    Version = {1, 2}
    Fingerprint = {1, 2}
    Texts <- MCTexts
    Parameters <- MCParameters
    FirstLine = 1
    MaxOperations = 4
    MaxEntries = 2
SPECIFICATION MCSpec
INVARIANTS SummariesAreCurrent
PROPERTIES InvalidationExact
