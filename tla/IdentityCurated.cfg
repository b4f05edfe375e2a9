\* One writer; l1 is curated as m1 and l2 is not curated.
CONSTANTS
    l1 = l1
    l2 = l2
    m1 = m1
    m2 = m2
    Proc = {p1}
    Locator = {l1, l2}
    ModelId = {m1, m2}
    Unbound = Unbound
    Garbage = Garbage
    Curated <- CuratedTable
    Inode = {i1, i2}
    NoInode = NoInode
    MaxFaults = 0
SPECIFICATION Spec
INVARIANT CuratedAuthority
