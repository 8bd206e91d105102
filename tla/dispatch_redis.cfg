SPECIFICATION Spec
CONSTANTS
    Docs = {d1, d2}
    Free = Free
    Redis = TRUE
    Nats = TRUE
    Attest = TRUE
    Outages = TRUE
    MaxConcurrent = 1
SYMMETRY Symmetry
INVARIANTS RefusedNeverStarts UnavailableOnlyAtShutdown CompletedIsBacked AuditOrder AuditedFailureIsRecorded
