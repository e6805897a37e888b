CONSTANTS
    None = None
    CRITICAL = CRITICAL
    Motions <- MCMotions
SPECIFICATION Spec
INVARIANTS
    TypeOK
    ArrivesAsAsked
    RefusedInTheProgram
