\* Two processes, a curated repository and a discovered one of two revisions.
CONSTANTS
    curated = curated
    discovered = discovered
    q4 = q4
    q8 = q8
    mc = mc
    mf = mf
    Process = {p1, p2}
    Locator = {curated, discovered}
    Supported = {curated, discovered}
    Curated = {curated}
    Model = {mc, mf}
    ModelOf <- Identity
    NoLocator = NoLocator
    File = {q4, q8}
    Tree <- Trees
    Quant <- Labels
    Sized = {q4}
    Hashed = {q4, q8}
    Nested = {}
    None = None
    Torn = Torn
    Request <- Selections
SPECIFICATION Spec
INVARIANT EnsureNeverRefused
PROPERTY AcquiredRevision
SYMMETRY Interchangeable
