SPECIFICATION Spec
CONSTANTS
    Imports = {c1, c2}
    Stranger = stranger
SYMMETRY Alike
INVARIANTS
    RecordsAreKept
    IntegrityIsKnown
    StartRunsClean
