SPECIFICATION WritesSpec
CONSTANTS
    Tables = {features_table, model_logs}
    Data = {good, bad}
    BadData = {bad}
    MaxBatch = 3
    MaxRows = 4
    WriteFaults <- AllFaults
SYMMETRY TableSymmetry
INVARIANTS
    WritesTypeOK
    StoredInPushOrder
    RowsConserved
    RejectIsLocal
PROPERTY
    StoreSpec
