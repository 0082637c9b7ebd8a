SPECIFICATION Spec
CONSTANTS
    Programs <- MCPrograms
    WideSize = 2
    DeepSize = 0
    GroupSize = 0
    Only = {"var", "expr", "compound"}
INVARIANT GlobalsAreNotLocals
