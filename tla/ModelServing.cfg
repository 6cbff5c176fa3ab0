SPECIFICATION ServingSpec
CONSTANTS
    Registered = {House_Price}
    Trained = {House_Price, Coffee_Pref}
    NoModel = NoModel
    MaxTrainings = 2
    RegistryFaults <- AllRegistryFaults
    GatewayFaults <- AllGatewayFaults
CONSTRAINT TrainedAreNew
INVARIANTS
    ServingTypeOK
    ArtifactsKept
    NoGap
    OneVersionOneArtifact
    OfferedIsServable
PROPERTIES
    CacheNeverOlder
    LifecycleSpec
    TrainedReachesProduction
    TrainingGoesOn
