SPECIFICATION Spec
CONSTANTS
    k1 = k1
    FeatureKeys = {k1}
    Messages <- TestMessages
    BatchSize = 2
    FeaturesTable = features_table
    MaxLog = 3
    MaxPushes = 12
    MaxCrashes = 1
    MaxRebalances = 0
    IngestFaults <- EngineFaults
    MaxBatch = 2
    WriteFaults <- NoFaults
INVARIANTS
    LossIsBounded
PROPERTIES
    CrashCostsOneBatch
    EveryMessageStored
    LogSpec
    LogProgress
