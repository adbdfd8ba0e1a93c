CONSTANTS
    t1 = t1
    t2 = t2
    r1 = r1
    NoEntry = NoEntry
    Threads <- MCThreads
    Replicas <- MCReplicas
    Home <- MCHome
    Ttl = 2
    MaxClock = 3
    MaxVersion = 3
SPECIFICATION Spec
INVARIANTS
    BoundedStaleness
    SavedPolicyIsServed
PROPERTIES
    ImplementsRegister
