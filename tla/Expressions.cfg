SPECIFICATION Spec
CONSTANTS
    Variables <- MCVariables
    MaxStrings = 2
    ByteBits = 2
    Places <- MCPlaces
    TextPlaces <- MCTextPlaces
    Objects <- MCObjects
    Result = 7
    Sources <- MCSources
    Memories <- MCMemories
INVARIANTS TypesAsC Compiles Computes
CHECK_DEADLOCK FALSE
