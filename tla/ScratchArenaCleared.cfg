SPECIFICATION Spec
CONSTANTS
    TopTables <- Top
    NestedTables <- Nested
    PhaseCount = 2
    BufferSize = 6
    MaxStorage = 16
INVARIANTS
    TablesDisjoint
CHECK_DEADLOCK FALSE
