SPECIFICATION Spec
CONSTANTS
  b1 = b1
  c1 = c1
  c2 = c2
  Books <- OneBook
  Size <- Size3
  Boundaries <- SplitRune
  Calls = {c1}
  Nobody = Nobody
  NoBook = NoBook
  Free = Free
  Other = Other
  Shared <- OneBook
  Commands = {"start", "pause", "resume", "stop", "set"}
  MaxSessions = 1
  MaxEdits = 1
INVARIANTS
  SpokenIsRegistered
  FinishedMeansWholeBook
  PositionsOnRunes
  CrashResumesAtDurable
PROPERTIES DurableNeverMovesBack
