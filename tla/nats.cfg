SPECIFICATION NatsSpec
CONSTANTS
    Docs = {d1, d2, d3}
    None = None
    Outages = TRUE
INVARIANTS AcceptedIsQueued ConnectionsExplained OrderlyExit
PROPERTIES NatsShutdownEnds
