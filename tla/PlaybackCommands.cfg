SPECIFICATION Spec
CONSTANTS
  b1 = b1
  c1 = c1
  c2 = c2
  Books <- OneBook
  Size <- Size1
  Boundaries <- AllOffsets
  Calls = {c1, c2}
  Nobody = Nobody
  NoBook = NoBook
  Free = Free
  Other = Other
  Shared <- NoneShared
  Commands = {"start", "pause", "resume", "stop"}
  MaxSessions = 2
  MaxEdits = 0
SYMMETRY CallSymmetry
INVARIANTS
  SingleOwner
  LeaseFollowsSession
  NobodyWaitsInVain
  StopAnswersTruly
  AnnouncedIsCurrent
PROPERTIES
  ImplementsLifecycle
