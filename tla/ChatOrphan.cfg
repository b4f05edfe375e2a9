CONSTANTS
    Handler = {h1, h2}
    Session = {s1}
    NoHandler = NoHandler
    NoSession = NoSession
    MaxSessions = 1
    BlockOnClose = TRUE
SPECIFICATION Spec
INVARIANT NoOrphan
