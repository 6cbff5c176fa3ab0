SPECIFICATION ServingSpec
CONSTANTS
    Registered = {House_Price, Coffee_Recommender}
    Trained = {House_Price, Coffee_Pref}
    NoModel = NoModel
    MaxTrainings = 1
    RegistryFaults <- NoFaults
    GatewayFaults <- NoFaults
CONSTRAINT TrainedAreNew
PROPERTY
    EveryModelRetrained
