SPECIFICATION ConverterSpec
CONSTANTS
    Helpers = {h1, h2}
    MaxCancels = 2
INVARIANTS WorkerNotLeftRunning WorkerReaped LeftoverOnlyFromCopy
PROPERTIES ConversionEnds
