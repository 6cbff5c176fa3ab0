SPECIFICATION IngestSpec
CONSTANTS
    k1 = k1
    k2 = k2
    FeatureKeys = {k1, k2}
    Messages <- TestMessages
    BatchSize = 2
    FeaturesTable = features_table
    MaxLog = 3
    MaxPushes = 9
    MaxCrashes = 1
    MaxRebalances = 1
    IngestFaults <- RedisFails
INVARIANTS
    CommittedWasQueued
