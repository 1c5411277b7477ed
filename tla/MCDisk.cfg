\* Sectors of three bytes; calls that span up to four of them; disks with many
\* groups and several blocks of descriptors.
CONSTANTS
    SECTOR_SIZE = 3
    SECTORS = 4
    MAX_LEN = 9
    MAX_CALLS = 2
    SECTORS_PER_BLOCK = 2
    SUPER_BLOCK_SIZE = 6
    GROUP_DESC_SIZE = 3
    INODE_SIZE = 2
    BYTE = 2
    MAX_SECTOR = 700
SPECIFICATION Spec
INVARIANT ReadExact
INVARIANT GroupsFit
INVARIANT PlacesFound
PROPERTY WritePrefix
CHECK_DEADLOCK FALSE
