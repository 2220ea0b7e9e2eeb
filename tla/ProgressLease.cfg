SPECIFICATION Spec
CONSTANTS
    t1 = t1
    t2 = t2
    u1 = u1
    u2 = u2
    p = p
    q = q
    Threads <- MCThreads
    Processes <- MCProcesses
    ProcessOf <- MCProcessOf
    Paths = {f, g}
    NoPath = NoPath
    Nobody = Nobody
INVARIANT RegistryIsOwned
PROPERTY ImplementsLease
