SPECIFICATION IngestSpec
CONSTANTS
    k1 = k1
    k2 = k2
    FeatureKeys = {k1, k2}
    Messages <- TestMessages
    BatchSize = 2
    FeaturesTable = features_table
    MaxLog = 3
    MaxPushes = 12
    MaxCrashes = 2
    MaxRebalances = 1
    IngestFaults <- RedisWorks
INVARIANTS
    IngestTypeOK
    CommittedWasQueued
    OnlineIsFresh
PROPERTY
    OnlyUncommittedAgain
