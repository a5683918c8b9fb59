CONSTANTS
    N = 4
    Names <- MCNames
    Tables <- MCTables
SPECIFICATION Spec
INVARIANTS
    TypeOK
    NameOnce
    LinkedClosed
    AllLinked
    ConstantsComplete
PROPERTIES
    BindingsStay
    Terminates
