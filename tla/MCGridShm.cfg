SPECIFICATION FairSpec
CONSTANTS
    Readers = {l2}
    Parts = {head, cells, wraps}
    Header = head
    Tries = 2
    MaxSeq = 6
PROPERTIES
    ImplementsRegister
    ReaderKeepsUp
CHECK_DEADLOCK FALSE
