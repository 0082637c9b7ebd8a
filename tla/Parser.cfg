SPECIFICATION Spec
CONSTANTS
    Files <- MCFiles
    Literals <- MCLiterals
    IntMax = 20
    Free <- MCFree
INVARIANTS TypeOK TreesNest SpellsSource BindsAsC TypesAsDeclared LiteralsDecoded LostOnlyNameless
PROPERTY Settles
CHECK_DEADLOCK FALSE
