CONSTANTS
    Builds = {b1, b2}
    Size = 2
    Inode = {i1, i2, i3, i4}
    None = None
    Configs <- DefaultConfig
    Unlucky = {}
SPECIFICATION Spec
INVARIANTS ArchiveWhole
CHECK_DEADLOCK FALSE
