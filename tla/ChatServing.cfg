\* Request threads on the registry and an orderly shutdown, with the join and without, under fairness.
CONSTANTS
    Handler = {h1, h2, h3}
    Session = {s1, s2}
    NoHandler = NoHandler
    NoSession = NoSession
    MaxSessions = 1
    BlockOnClose = FALSE
SPECIFICATION FairSpec
INVARIANTS
    TypeOK Capacity OneUser
    UnregisteredBeforeClosed NothingRegisteredAfterGate ReadyIsOwned
PROPERTIES ClosedIsFinal SlotFreed RunLockFreed ComesDown
