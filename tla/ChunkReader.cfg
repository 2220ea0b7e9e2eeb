SPECIFICATION FairSpec
\* A reader is not used again after io.EOF or an error.
CHECK_DEADLOCK FALSE
CONSTANTS
    Bytes <- MCBytes
    MaxRunes = 4
    Limits = {1, 3, 4}
    Phrases <- MCPhrases
INVARIANTS NothingSkippedOrRepeated ChunksEndWell
PROPERTIES ReadsToTheEnd
