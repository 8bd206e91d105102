SPECIFICATION ConverterSpec
CONSTANTS
    Helpers = {h1}
    MaxCancels = 0
INVARIANTS GroupKilled
