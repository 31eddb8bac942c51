CONSTANTS
    Names = {"a"}
    Skus = {"a"}
    Lower <- LowerCase
    Prices = {1, 2}
    InitialProducts <- NoProducts
    Absent = Absent
    Imports = {"first"}
    File <- TwoChunks
    EmptyRow = EmptyRow
    NamelessRow = NamelessRow
    SkulessRow = SkulessRow
    Invalid <- NoRows
    Pathless <- NoRows
    Flagged <- NoRows
    Filters <- NoFilters
    ChunkSize = 1
    Workers = {w1}
    Admins = {a}
    MaxAsked = 1
    MayDie = FALSE
    None = None

SPECIFICATION Spec
INVARIANT ChunkCommitted
CHECK_DEADLOCK FALSE
