SPECIFICATION MainSpec
CONSTANTS
    Sources <- MCSources
    ArgLists <- MCArgLists
    Names <- MCNames
    Immediates <- MCImmediates
    Programs <- MCPrograms
INVARIANTS TypeOK ProgramFaithful
PROPERTIES UsesLegally Implements
CHECK_DEADLOCK FALSE
