SPECIFICATION Spec
CONSTANTS
    k1 = k1
    FeatureKeys = {k1}
    Messages <- TestMessages
    BatchSize = 2
    FeaturesTable = features_table
    MaxLog = 2
    MaxPushes = 8
    MaxCrashes = 1
    MaxRebalances = 0
    IngestFaults <- CrashOnly
    MaxBatch = 2
    WriteFaults <- NoFaults
INVARIANTS
    CommittedIsSafe
