\* Two writers on one registry file and one temporary name.
CONSTANTS
    l1 = l1
    l2 = l2
    m1 = m1
    m2 = m2
    Proc = {p1, p2}
    Locator = {l1, l2}
    ModelId = {m1, m2}
    Unbound = Unbound
    Garbage = Garbage
    Curated <- CuratedTable
    Inode = {i1, i2, i3, i4}
    NoInode = NoInode
    MaxFaults = 1
SPECIFICATION Spec
INVARIANTS TypeOK UniqueIdentity AcknowledgedIsBound
PROPERTY SerialAdmitted
