SPECIFICATION Spec
CONSTANTS
    Docs = {d1, d2, d3}
    Free = Free
    Redis = FALSE
    Nats = FALSE
    Attest = FALSE
    Outages = FALSE
    MaxConcurrent = 2
INVARIANTS TypeOK SlotsConserved ConcurrencyBounded NoLostWakeup QueuedMeansNotStarted ShutdownSettles OutcomeRecorded
PROPERTIES ImplementsLifecycle ShutdownEnds TerminalIsFinal
