SPECIFICATION FairServerSpec
CONSTANTS
  b1 = b1
  c1 = c1
  c2 = c2
  w1 = w1
  Main = Main
  Books <- OneBook
  Size <- Size1
  Boundaries <- AllOffsets
  Calls = {c1, Main}
  Streams = {w1}
  Prompt = TRUE
  Nobody = Nobody
  NoBook = NoBook
  Free = Free
  Other = Other
  Shared <- NoneShared
  Commands = {"start", "stop", "set"}
  MaxSessions = 1
  MaxEdits = 0
INVARIANT StreamsNeverHoldShutdown
