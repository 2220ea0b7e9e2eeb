SPECIFICATION FairEngineSpec
CONSTANTS
  b1 = b1
  c1 = c1
  c2 = c2
  Books <- OneBook
  Size <- Size2
  Boundaries <- AllOffsets
  Calls = {c1, c2}
  Nobody = Nobody
  NoBook = NoBook
  Free = Free
  Other = Other
  Shared <- NoneShared
  Commands = {"start", "pause", "stop"}
  MaxSessions = 1
  MaxEdits = 0
INVARIANTS SilentAfterStop
PROPERTIES StopCompletes CallsReturn ImplementsManager
