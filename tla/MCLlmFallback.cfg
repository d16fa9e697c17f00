SPECIFICATION Spec
CONSTANT Orders <- MCOrders
INVARIANTS
    TypeOK
    VisionAvoidsTextOnly
    LastAttemptDecides
    ExhaustedAskedEveryone
PROPERTY EveryCallSettles
