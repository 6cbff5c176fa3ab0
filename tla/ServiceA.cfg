SPECIFICATION Spec
CONSTANTS
    k1 = k1
    data = data
    other = other
    FeatureKeys = {k1}
    Messages <- TestMessages
    BatchSize = 2
    FeaturesTable = features_table
    MaxLog = 2
    MaxPushes = 9
    MaxCrashes = 1
    MaxRebalances = 0
    IngestFaults <- EngineFaults
    Calls = {c1, c2}
    Files <- TestFiles
    FileNames = {data, other}
    NoCall = NoCall
    Left = Left
    UploadFaults <- FileFaults
    ChannelSize = 1
    ServiceCFaults <- AlarmFaults
CONSTRAINTS OneConcern Beside
SYMMETRY CallsSymmetric
INVARIANTS
    AnswerIsTrue
    TempOwned
    BehindOnlyByUpload
    OnlineIsQueued
PROPERTIES
    SettledOnAnswer
    AlertsAccounted
