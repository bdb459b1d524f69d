SPECIFICATION Spec
CONSTANTS
    WordBits = 2
    CidrText <- MCCidrText
    AddrText <- MCAddrText
    Files <- MCFiles
    Modes = {1, 20000, 200000}
    Initial = {5001, 87380, 425984}
    Segments = {300, 1460, 21845}
    Visited <- ModeFiles
    SysMin = 4608
    SysMax = 100000
INVARIANTS
    TypeOK
    ReadAsWritten
    LoadedAsMeant
    MatchesSources
PROPERTIES
    BuffersFit
    AlignSettles
\* A file may be refused, and a connected channel stays as it is.
CHECK_DEADLOCK FALSE
