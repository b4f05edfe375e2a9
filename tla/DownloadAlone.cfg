\* One process that keeps asking, with faults, crashes and operator deletions.
SPECIFICATION FairSpec
CONSTANTS
    Proc = {p1}
    Rev = {r1, main}
    Unpinned = main
    Checksums = {TRUE}
    Size = 2
    MaxFaults = 3
    MaxCleanups = 1
    Inode = {i1, i2}
    NoInode = NoInode
    NoManifest = NoManifest
    Junk = Junk
INVARIANTS TypeOK FinalIsWhole RegisteredIsHealthy
PROPERTIES WriteOnceSpec CallReturns RecoverableCompletes
