SPECIFICATION Spec
CONSTANTS
    Clients = {c1, c2}
    MaxReads = 2
    MaxQueries = 3
    Faults <- AllFaults
SYMMETRY ClientSymmetry
INVARIANTS
    TypeOK
    AnswersOwnQuery
    SlotPerReader
    StartedInOrder
PROPERTY
    ServiceSpec
