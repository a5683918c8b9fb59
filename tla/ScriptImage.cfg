\* Four doc comments fit into what is allocated beyond the calculated size.
CONSTANTS
    Scripts <- MCScripts
    Slack = 4
SPECIFICATION Spec
INVARIANTS
    TypeOK
    FitsBuffer
    CopiedOnce
    Adjacent
    RelocatedOnce
    PositionIndependent
    Faithful
