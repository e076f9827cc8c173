CONSTANTS
    Builds = {b1}
    Size = 2
    Inode = {i1, i2, i3}
    None = None
    Configs <- AllConfigs
    Unlucky = {b1}
SPECIFICATION FairSpec
INVARIANTS ArchiveWhole
PROPERTIES GetsThere
CHECK_DEADLOCK FALSE
