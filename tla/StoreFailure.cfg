CONSTANTS
    Exceptions = {e1, e2}
    None = None
SPECIFICATION Spec
CHECK_DEADLOCK FALSE
INVARIANTS
    TypeOK
    BlameIsNearest
PROPERTIES
    Classified
