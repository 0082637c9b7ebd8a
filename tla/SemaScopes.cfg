SPECIFICATION Spec
CONSTANTS
    Programs <- MCPrograms
    WideSize = 3
    DeepSize = 4
    GroupSize = 5
    Only = {"var", "expr", "return", "for", "while", "switch", "label", "compound", "group", "if"}
INVARIANTS
    TypeOK
    ResolvesInnermost
    RejectsRightly
    ScopesMatchNesting
    NamesFaithful
