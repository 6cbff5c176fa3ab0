SPECIFICATION Spec
CONSTANTS
    Clients = {c1, c2}
    MaxReads = 1
    MaxQueries = 3
    Faults <- HandlerDies
INVARIANT
    NoImmortalResponse
