SPECIFICATION Spec
CONSTANTS
    Asts <- MCAsts
    LabelCap = 2
    QueueCap = 2
    WideSize = 3
    DeepSize = 4
    LongSize = 6
    Only = {"expr", "var", "return", "break", "continue", "goto", "label", "if", "while", "do", "for", "switch", "case", "default", "compound"}
INVARIANTS
    TypeOK
    JumpsResolve
    NoDuplicateLabels
    CtxMatchesNesting
    BlocksWellFormed
PROPERTY FunctionCloses
