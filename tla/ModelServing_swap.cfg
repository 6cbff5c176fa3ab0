SPECIFICATION ServingSpec
CONSTANTS
    Registered = {House_Price}
    Trained = {House_Price}
    NoModel = NoModel
    MaxTrainings = 1
    RegistryFaults <- NoFaults
    GatewayFaults <- NoFaults
PROPERTY
    NewModelServed
