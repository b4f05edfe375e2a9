\* Three processes on one artifact directory, with and without a declared digest.
SPECIFICATION Spec
CONSTANTS
    Proc = {p1, p2, p3}
    Rev = {main}
    Unpinned = main
    Checksums = {TRUE, FALSE}
    Size = 1
    MaxFaults = 1
    MaxCleanups = 0
    Inode = {i1, i2, i3, i4}
    NoInode = NoInode
    NoManifest = NoManifest
    Junk = Junk
SYMMETRY Interchangeable
INVARIANT OnlyOwnPart
PROPERTY FinalNeverReplaced
