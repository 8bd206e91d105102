SPECIFICATION Spec
CONSTANTS
    Docs = {d1}
    Free = Free
    Redis = TRUE
    Nats = FALSE
    Attest = FALSE
    Outages = FALSE
    MaxConcurrent = 1
INVARIANTS NoneLeftRunning
