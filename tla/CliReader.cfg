SPECIFICATION Spec
CONSTANTS
    MaxEdits = 2
    Size <- MCSize
    ChunkSize = 2
INVARIANTS RepeatsAtMostOneChunk
PROPERTIES FinishedMeansWholeBook ForeignProgressIsKept
