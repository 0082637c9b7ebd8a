SPECIFICATION Spec
CONSTANTS
    Asts <- MCAsts
    LabelCap = 2
    QueueCap = 2
    WideSize = 3
    DeepSize = 2
    LongSize = 2
    Only = {"goto", "label", "expr"}
INVARIANT GotoResolves
