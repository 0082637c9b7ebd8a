SPECIFICATION Spec
CONSTANTS
    Argvs <- MCArgvs
    Words = {"-o", "-c", "-S", "-I", "-D", "-Uname", "-Idir", "-h", "-unknown", "x", "y", ""}
    Core = {"-o", "-I", "-D", "-Uname", "x", "y"}
    Short = 3
    Long = 6
    ExtraCap = 5
    NoName = NoName
INVARIANTS
    TypeOK
    ReadAsMeant
    PairsWhole
CHECK_DEADLOCK FALSE
