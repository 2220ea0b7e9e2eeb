SPECIFICATION FairStoreSpec
CONSTANTS
    Calls = {c1, c2}
    SlotCount = 1
    Paths = {f1}
    MaxEdits = 1
INVARIANTS OneHolder OneIdPerPath
PROPERTIES AddRefreshes CancelledReturns EveryoneReturns
