SPECIFICATION WorkerSpec
CONSTANTS
    Docs = {d1}
    Free = Free
    Redis = TRUE
    Nats = FALSE
    Attest = FALSE
    Outages = FALSE
PROPERTIES OutcomeIsFinal
