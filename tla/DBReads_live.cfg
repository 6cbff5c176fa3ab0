SPECIFICATION FairSpec
CONSTANTS
    Clients = {c1, c2}
    MaxReads = 1
    MaxQueries = 3
    Faults <- HandlerSurvives
INVARIANTS
    NoImmortalResponse
PROPERTIES
    QueryReturns
    RequestsLeaveQueue
    ResponsesVanish
