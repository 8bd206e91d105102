SPECIFICATION ExtractorSpec
CONSTANTS
    Documents <- MCDocuments
    Patterns = 2
    MaxHeadingRepeats = 3
    MinPatternMatches = 3
    MinWords = 5
INVARIANTS HierarchyCorrect SourceOrder LossExplained CascadeSound
