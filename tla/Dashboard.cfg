SPECIFICATION FairDashSpec
\* The server process ends after its shutdown.
CHECK_DEADLOCK FALSE
CONSTANTS
    Browsers = {b1}
    Attentive = {b1}
    Streams = {s1, s2}
    NoStream = NoStream
    BufferSize = 1
    MaxSeq = 3
    Requests = {r1}
INVARIANTS NoPanic RegisteredIsCurrent
PROPERTIES NumbersRise BehindOnlyIfOvertaken PanelsConverge HandlersEnd
