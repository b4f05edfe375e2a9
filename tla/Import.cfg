\* One import at a time, again and again, with faults and crashes.
SPECIFICATION FairSpec
CONSTANTS
    Proc = {p1}
    Size = 2
    MaxFaults = 4
    Inode = {i1, i2, i3}
    NoInode = NoInode
    NoManifest = NoManifest
    Registered = Registered
    Junk = Junk
INVARIANT PublishedIsComplete
PROPERTY RecoverableUnlessManifestPart
